-------------------------- MODULE DirectoryUpload --------------------------
(***************************************************************************)
(* The directory upload of Hugin's frontend API: an I/O thread checks the  *)
(* request, starts threads that take its files one by one and write them,  *)
(* and joins them before it answers.  The threads share the disk, four     *)
(* counters and the list of failures.                                      *)
(***************************************************************************)
EXTENDS Integers, FiniteSets, SequencesExt

CONSTANTS
  Targets,         \* relative paths
  DirOf,           \* the directory of each, a target or something else
  OldFiles,        \* the targets where there is a file already
  Requests,        \* the files[] that are uploaded
  MaxFiles,        \* max_upload_directory_files
  MaxFileBytes,    \* max_upload_file_bytes
  MaxTotalBytes,   \* max_upload_total_decoded_bytes
  Uploaders        \* the threads of a request, at most directory_upload_threads

Files == [path : Targets, size : Nat,
          encoded : BOOLEAN,   \* content_b64 can be decoded
          allowed : BOOLEAN]   \* the target is in allowed_write_root

ASSUME UploadAssumption ==
  /\ Targets \subseteq DOMAIN DirOf
  /\ OldFiles \subseteq Targets
  /\ \A request \in Requests : request \in Seq(Files)
  /\ MaxFiles \in Nat \ {0} /\ MaxFileBytes \in Nat \ {0}
  /\ MaxTotalBytes \in Nat /\ MaxFileBytes <= MaxTotalBytes
  /\ Uploaders # {} /\ IsFiniteSet(Uploaders)

VARIABLES
  upload,        \* "new", "running", "answered" or "refused"
  items,
  uploader,      \* what each thread does next
  item,          \* the file it has taken, an index into items
  next_index,
  success_count,
  total_decoded_bytes,
  failures,      \* indices of the files that were reported as failed
  disk,          \* what is at each target
  disk_full      \* history: a write to the disk has failed

uploadVars == <<upload, items, uploader, item, next_index, success_count,
                total_decoded_bytes, failures, disk, disk_full>>

\* The content of a file: for each byte the item it is from, 0 for an older one.
File(content) == [kind |-> "file", content |-> content]
Directory == [kind |-> "directory", content |-> <<>>]
Absent == [kind |-> "absent", content |-> <<>>]

UploadTypeOK ==
  /\ upload \in {"new", "running", "answered", "refused"}
  /\ items \in Requests \cup {<<>>}
  /\ uploader \in [Uploaders -> {"claim", "reserve", "directory", "open", "write",
                                 "close", "exited"}]
  /\ item \in [Uploaders -> 0..Len(items)]
  /\ next_index \in 1..(Len(items) + 1 + Cardinality(Uploaders))
  /\ success_count \in 0..Len(items)
  /\ total_decoded_bytes \in Nat
  /\ failures \in Seq(DOMAIN items)
  /\ \A target \in Targets :
       /\ disk[target].kind \in {"file", "directory", "absent"}
       /\ disk[target].content \in Seq(0..Len(items))
  /\ disk_full \in BOOLEAN

UploadInit ==
  /\ upload = "new"
  /\ items = <<>>
  /\ uploader = [u \in Uploaders |-> "claim"]
  /\ item = [u \in Uploaders |-> 0]
  /\ next_index = 1
  /\ success_count = 0
  /\ total_decoded_bytes = 0
  /\ failures = <<>>
  /\ disk = [target \in Targets |-> IF target \in OldFiles THEN File(<<0, 0>>)
                                                          ELSE Absent]
  /\ disk_full = FALSE

-----------------------------------------------------------------------------
BytesOf(request, indices) == MapThenSumSet(LAMBDA i : request[i].size, indices)

\* The sizes are estimated from the length of the text; what is decoded later
\* on is not longer.
IsTooLarge(request) ==
  \/ Len(request) > MaxFiles
  \/ \E i \in DOMAIN request :
       \/ request[i].size > MaxFileBytes
       \/ BytesOf(request, 1..(i - 1)) > MaxTotalBytes - request[i].size

\* The handler up to the start of its threads.
BeginUpload(request) ==
  /\ upload = "new"
  /\ upload' = IF IsTooLarge(request) THEN "refused" ELSE "running"
  /\ items' = request
  /\ UNCHANGED <<uploader, item, next_index, success_count, total_decoded_bytes,
                 failures, disk, disk_full>>

\* The handler after join.
AnswerUpload ==
  /\ upload = "running"
  /\ \A u \in Uploaders : uploader[u] = "exited"
  /\ upload' = "answered"
  /\ UNCHANGED <<items, uploader, item, next_index, success_count,
                 total_decoded_bytes, failures, disk, disk_full>>

-----------------------------------------------------------------------------
(***************************************************************************)
(* The threads.                                                            *)
(***************************************************************************)
At(u, where) == upload = "running" /\ uploader[u] = where
Goes(u, where) == uploader' = [uploader EXCEPT ![u] = where]
Taken(u) == items[item[u]]
DiskAt(u) == disk[Taken(u).path]

\* A failure is reported and the thread takes the next file.
Fail(u) == failures' = Append(failures, item[u]) /\ Goes(u, "claim")

\* next_index.fetch_add.
Claim(u) ==
  /\ At(u, "claim")
  /\ next_index' = next_index + 1
  /\ IF next_index > Len(items)
       THEN Goes(u, "exited") /\ UNCHANGED item
       ELSE Goes(u, "reserve") /\ item' = [item EXCEPT ![u] = next_index]
  /\ UNCHANGED <<upload, items, success_count, total_decoded_bytes, failures, disk,
                 disk_full>>

DecodeFails(u) ==
  /\ At(u, "reserve")
  /\ ~Taken(u).encoded
  /\ Fail(u)
  /\ UNCHANGED <<upload, items, item, next_index, success_count, total_decoded_bytes,
                 disk, disk_full>>

\* total_decoded_bytes.fetch_add; what is refused stays in the total.
Reserve(u) ==
  /\ At(u, "reserve")
  /\ Taken(u).encoded
  /\ total_decoded_bytes' = total_decoded_bytes + Taken(u).size
  /\ IF total_decoded_bytes' > MaxTotalBytes \/ ~Taken(u).allowed
       THEN Fail(u)
       ELSE Goes(u, "directory") /\ UNCHANGED failures
  /\ UNCHANGED <<upload, items, item, next_index, success_count, disk, disk_full>>

\* create_directories; a file may be in the way.
CreateDirectory(u) ==
  LET dir == DirOf[Taken(u).path] IN
  /\ At(u, "directory")
  /\ IF dir \in Targets /\ disk[dir].kind = "file"
       THEN Fail(u) /\ UNCHANGED disk
       ELSE /\ Goes(u, "open")
            /\ disk' = [d \in Targets |-> IF d = dir THEN Directory ELSE disk[d]]
            /\ UNCHANGED failures
  /\ UNCHANGED <<upload, items, item, next_index, success_count, total_decoded_bytes,
                 disk_full>>

\* Mutant of OpenFile: an older file is kept.
OpenFileKeeping(u) ==
  /\ At(u, "open")
  /\ IF DiskAt(u).kind = "directory"
       THEN Fail(u) /\ UNCHANGED disk
       ELSE /\ Goes(u, "write")
            /\ disk' = [disk EXCEPT ![Taken(u).path] = File(@.content)]
            /\ UNCHANGED failures
  /\ UNCHANGED <<upload, items, item, next_index, success_count, total_decoded_bytes,
                 disk_full>>

\* The ofstream is opened and truncates the file; a directory cannot be opened.
OpenFile(u) ==
  /\ At(u, "open")
  /\ IF DiskAt(u).kind = "directory"
       THEN Fail(u) /\ UNCHANGED disk
       ELSE /\ Goes(u, "write")
            /\ disk' = [disk EXCEPT ![Taken(u).path] = File(<<>>)]
            /\ UNCHANGED failures
  /\ UNCHANGED <<upload, items, item, next_index, success_count, total_decoded_bytes,
                 disk_full>>

\* write fails: the content is larger than the buffer of the stream.
WriteFails(u) ==
  /\ At(u, "write")
  /\ Fail(u)
  /\ disk_full' = TRUE
  /\ UNCHANGED <<upload, items, item, next_index, success_count, total_decoded_bytes,
                 disk>>

\* write succeeds, the file is counted ...
Write(u) ==
  /\ At(u, "write")
  /\ success_count' = success_count + 1
  /\ Goes(u, "close")
  /\ UNCHANGED <<upload, items, item, next_index, total_decoded_bytes, failures, disk,
                 disk_full>>

Overwritten(content, u) ==
  [b \in DOMAIN content \cup 1..Taken(u).size |->
     IF b <= Taken(u).size THEN item[u] ELSE content[b]]

\* ... and at the end of the turn the stream is closed, which writes what it
\* still buffers at the beginning of the file, whoever wrote there meanwhile.
\* A failure of that is not looked at.
Close(u) ==
  /\ At(u, "close")
  /\ \E written \in BOOLEAN :
       /\ disk' = IF written
                    THEN [disk EXCEPT ![Taken(u).path] = File(Overwritten(@.content, u))]
                    ELSE disk
       /\ disk_full' = (disk_full \/ ~written)
  /\ Goes(u, "claim")
  /\ UNCHANGED <<upload, items, item, next_index, success_count, total_decoded_bytes,
                 failures>>

UploaderStep(u) ==
  \/ Claim(u)
  \/ DecodeFails(u)
  \/ Reserve(u)
  \/ CreateDirectory(u)
  \/ OpenFile(u)
  \/ WriteFails(u)
  \/ Write(u)
  \/ Close(u)

-----------------------------------------------------------------------------
Uploaded == DOMAIN items \ ToSet(failures)

\* A path that is uploaded twice is written by two threads at once.
IsUnique(i) == \A j \in DOMAIN items : items[j].path = items[i].path => j = i

\* What the answer says is what happened, however the threads took turns: every
\* file is counted once, as uploaded or as failed; an uploaded one is on the
\* disk, with its content and nothing of an older file, unless the disk was full
\* or the request names its path twice; and no more bytes were taken than a
\* request may have (directory upload of FrontendApiServer).
UploadsAreAccounted ==
  upload = "answered" =>
    /\ success_count = Cardinality(Uploaded)
    /\ Cardinality(ToSet(failures)) = Len(failures)
    /\ ~disk_full => \A i \in Uploaded : IsUnique(i) =>
         disk[items[i].path] = File([b \in 1..items[i].size |-> i])
    /\ BytesOf(items, Uploaded) <= MaxTotalBytes
=============================================================================
