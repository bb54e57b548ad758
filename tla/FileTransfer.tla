---------------------------- MODULE FileTransfer ----------------------------
(***************************************************************************)
(* A file transfer job, in either direction.  One side reads the files one *)
(* after the other (fs.rs, TransferJob::read, driven by a timer), the other*)
(* writes them (TransferJob::write); before a file is sent, its digest is, *)
(* and the writer's side says whether the file is there already.  The      *)
(* controlling side then decides, or asks the user: it writes in a         *)
(* download (client/io_loop.rs) and reads in an upload (connection.rs and  *)
(* ui_cm_interface.rs write).                                              *)
(*                                                                         *)
(* A file arrives as x.download beside an x.digest and is renamed when the *)
(* writer moves on.  Earlier transfers may have left such files, and the   *)
(* job goes on from what is there when the connection was interrupted.     *)
(*                                                                         *)
(* The writer's disk may fail it at every step.  The jobs go on: in a      *)
(* download the error is dropped, in an upload the user is told of it and  *)
(* nothing else.                                                           *)
(***************************************************************************)
EXTENDS Integers, Sequences, SequencesExt

CONSTANTS
  N,            \* files of the job
  Size,         \* blocks of a file
  MaxResumes,   \* bound: interruptions of the connection
  MaxErrors,    \* bound: files that cannot be read
  MaxFailures   \* bound: steps in which the writer's disk fails

ASSUME FileTransferAssumption ==
  N \in Nat \ {0} /\ Size \in Nat \ {0} /\ {MaxResumes, MaxErrors, MaxFailures} \subseteq Nat

Files == 1 .. N
NoFile == <<-2>>
Old == <<-1>>                    \* what the file held before the job
Source == [i \in 1 .. Size |-> i]
Mixed == <<0>>                   \* what blocks of another file were written into

VARIABLES
  download,     \* the direction
  file, part, stamp,             \* of the writer's disk: x, x.download, x.digest
  reader,       \* the reading job, see NoReader
  writer,       \* the writing job, see NoWriter
  is_resume,    \* TransferJob.is_resume of the controlling side's job
  strategy,     \* its default_overwrite_strategy: ask, overwrite or skip
  question,     \* the file the user is asked about, or 0
  toWriter, toReader,            \* the messages of the job under way
  meta,         \* after an interruption, the file_num it is resumed from, or 0
  resumes, errors, failures,     \* counters for the bounds
  excused,      \* files of which an earlier transfer left an x.download, or for
                \* which the disk failed (history)
  refused,      \* files decided not to be overwritten (history)
  agreed,       \* files decided to be sent (history)
  cancelled, done                \* how the job ended (history)

failureVars == <<failures, excused>>
diskVars == <<file, part, stamp, failureVars>>
jobVars == <<reader, writer, is_resume, strategy>>
historyVars == <<refused, agreed, cancelled, done>>
transferVars == <<download, diskVars, jobVars, question, toWriter, toReader, meta, resumes, errors,
                  historyVars>>

Contents == {NoFile, Old} \cup UNION {[1 .. n -> 0 .. Size] : n \in 0 .. Size}
Readers == [there : BOOLEAN, num : 1 .. N + 1, open : BOOLEAN, confirmed : BOOLEAN,
            waiting : BOOLEAN, skipped : BOOLEAN, pos : 0 .. Size]
Writers == [there : BOOLEAN, num : 1 .. N + 1, open : BOOLEAN, into : 0 .. N]
Skip == -1                       \* a confirmation: skip, or go on at a block
Hows == {Skip} \cup 0 .. Size
Messages == [kind : {"digest", "block", "confirm"}, f : Files, n : Hows]
            \cup [kind : {"done", "error", "cancel"}, f : {0}, n : {0}]
Message(kind, f, n) == [kind |-> kind, f |-> f, n |-> n]
Plain(kind) == Message(kind, 0, 0)

ReadsFrom(num) == [there |-> TRUE, num |-> num, open |-> FALSE, confirmed |-> FALSE,
                   waiting |-> FALSE, skipped |-> FALSE, pos |-> 0]
\* data_stream is open, and is that of the x.download of file `into'
WritesFrom(num) == [there |-> TRUE, num |-> num, open |-> FALSE, into |-> 0]
NoReader == [ReadsFrom(1) EXCEPT !.there = FALSE]
NoWriter == [WritesFrom(1) EXCEPT !.there = FALSE]

TransferTypeOK ==
  /\ download \in BOOLEAN
  /\ {file[f] : f \in Files} \cup {part[f] : f \in Files} \subseteq Contents
  /\ stamp \in [Files -> {"none", "current", "other"}]
  /\ reader \in Readers /\ writer \in Writers
  /\ is_resume \in BOOLEAN /\ strategy \in {"ask", "overwrite", "skip"}
  /\ question \in 0 .. N /\ meta \in 0 .. N + 1
  /\ \A i \in DOMAIN toWriter : toWriter[i] \in Messages
  /\ \A i \in DOMAIN toReader : toReader[i] \in Messages
  /\ resumes \in 0 .. MaxResumes /\ errors \in 0 .. MaxErrors
  /\ failures \in 0 .. MaxFailures
  /\ {excused, refused, agreed} \subseteq SUBSET Files
  /\ {cancelled, done} \subseteq BOOLEAN
  /\ reader.confirmed => reader.open

\* Data::SendFiles: a new job; some files are there, some partly.
TransferInit ==
  /\ download \in BOOLEAN
  /\ file \in [Files -> {NoFile, Old}]
  /\ part \in [Files -> {NoFile, <<1>>}]
  /\ stamp \in [Files -> {"none", "current", "other"}]
  /\ \A f \in Files : part[f] = NoFile <=> stamp[f] = "none"
  /\ reader = ReadsFrom(1) /\ writer = WritesFrom(1)
  /\ is_resume = FALSE /\ strategy = "ask" /\ question = 0
  /\ toWriter = <<>> /\ toReader = <<>>
  /\ meta = 0 /\ resumes = 0 /\ errors = 0
  /\ failures \in 0 .. MaxFailures
  /\ excused = {f \in Files : part[f] # NoFile}
  /\ refused = {} /\ agreed = {}
  /\ cancelled = FALSE /\ done = FALSE

-----------------------------------------------------------------------------
(* The reading job: TransferJob::read under handle_read_jobs.              *)

ToNextBug(r) == [ReadsFrom(r.num + 1) EXCEPT !.skipped = r.skipped, !.confirmed = r.confirmed]
ToNextWaitsBug(r) == [ReadsFrom(r.num + 1) EXCEPT !.skipped = r.skipped, !.waiting = r.waiting]
\* to the next file, nothing of which is asked or confirmed
ToNext(r) == [ReadsFrom(r.num + 1) EXCEPT !.skipped = r.skipped]

\* a file is opened, and its digest sent
SendDigest ==
  /\ reader.there /\ reader.num <= N /\ ~reader.confirmed /\ ~reader.waiting
  /\ reader' = [reader EXCEPT !.open = TRUE, !.waiting = TRUE]
  /\ toWriter' = Append(toWriter, Message("digest", reader.num, 0))
  /\ UNCHANGED <<download, diskVars, writer, is_resume, strategy, question, toReader, meta,
                 resumes, errors, historyVars>>

\* a block, or an empty one at the end of the file
SendBlock ==
  /\ reader.there /\ reader.num <= N /\ reader.confirmed
  /\ IF reader.pos < Size
       THEN /\ reader' = [reader EXCEPT !.pos = @ + 1]
            /\ toWriter' = Append(toWriter, Message("block", reader.num, reader.pos + 1))
       ELSE /\ reader' = ToNext(reader)
            /\ toWriter' = Append(toWriter, Message("block", reader.num, 0))
  /\ UNCHANGED <<download, diskVars, writer, is_resume, strategy, question, toReader, meta,
                 resumes, errors, historyVars>>

\* The file cannot be opened or read: an error, and on to the next.
ReadFails ==
  /\ reader.there /\ reader.num <= N /\ errors < MaxErrors
  /\ reader.confirmed \/ ~reader.open
  /\ errors' = errors + 1
  /\ reader' = ToNext(reader)
  /\ toWriter' = Append(toWriter, Plain("error"))
  /\ UNCHANGED <<download, diskVars, writer, is_resume, strategy, question, toReader, meta,
                 resumes, historyVars>>

\* All files are read: done, or an error when the only one was skipped.
ReadDone ==
  /\ reader.there /\ reader.num > N
  /\ reader' = NoReader
  /\ toWriter' = Append(toWriter, Plain(IF reader.skipped /\ N = 1 THEN "error" ELSE "done"))
  /\ UNCHANGED <<download, diskVars, writer, is_resume, strategy, question, toReader, meta,
                 resumes, errors, historyVars>>

ReaderConfirmBug(r, f, how) ==
  IF ~r.there \/ r.num # f THEN r
  ELSE IF how = Skip THEN [ToNext(r) EXCEPT !.skipped = TRUE]
  ELSE [r EXCEPT !.confirmed = TRUE, !.open = TRUE, !.skipped = FALSE]
\* confirm on the reading side: only for the file it is at
ReaderConfirm(r, f, how) ==
  IF ~r.there \/ r.num # f THEN r
  ELSE IF how = Skip THEN [ToNext(r) EXCEPT !.skipped = TRUE]
  ELSE [r EXCEPT !.confirmed = TRUE, !.open = TRUE, !.skipped = FALSE,
                 !.pos = IF how > 0 THEN how ELSE @]

-----------------------------------------------------------------------------
(* The writing job.                                                        *)

\* an operation on the disk fails for some files, or for none
Fails(some) ==
  IF some = {} THEN UNCHANGED failureVars
  ELSE failures < MaxFailures /\ failures' = failures + 1 /\ excused' = excused \cup some

\* modify_time: x.download becomes x, if it can be renamed
Finalised(f, renamed) ==
  IF f \in Files
    THEN [file |-> IF renamed /\ part[f] # NoFile THEN [file EXCEPT ![f] = part[f]] ELSE file,
          part |-> IF renamed THEN [part EXCEPT ![f] = NoFile] ELSE part,
          stamp |-> [stamp EXCEPT ![f] = "none"]]
    ELSE [file |-> file, part |-> part, stamp |-> stamp]
MayNotRename(f) == f \in Files /\ part[f] # NoFile
NotRenamed(f, renamed) == IF renamed THEN {} ELSE {f}

\* remove_download_file
Removed(f) ==
  /\ part' = IF f \in Files THEN [part EXCEPT ![f] = NoFile] ELSE part
  /\ stamp' = IF f \in Files THEN [stamp EXCEPT ![f] = "none"] ELSE stamp
  /\ UNCHANGED failureVars

MovesOnBug(f) == ~writer.open
\* the first block of a file: the last one is renamed first
MovesOn(f) == f # writer.num \/ ~writer.open

\* x.download is created, with its x.digest, and the block written
Creates(f, n, disk, failed) ==
  /\ writer' = [writer EXCEPT !.num = f, !.open = TRUE, !.into = f]
  /\ \E noted \in BOOLEAN, stored \in {n # 0, FALSE} :
       /\ part' = [disk.part EXCEPT ![f] = IF stored THEN <<n>> ELSE <<>>]
       /\ stamp' = [disk.stamp EXCEPT ![f] = IF noted THEN "current" ELSE "none"]
       /\ Fails(failed \cup IF noted /\ stored = (n # 0) THEN {} ELSE {f})

\* The last file is not synchronised; or x.digest cannot be removed or x.download
\* be created, and then the stream stays that of the last file.
DoesNotCreate(f, disk, failed) ==
  /\ part' = disk.part
  /\ \/ writer.open /\ UNCHANGED writer /\ stamp' = disk.stamp
     \/ /\ writer' = [writer EXCEPT !.num = f]
        /\ stamp' \in {disk.stamp, [disk.stamp EXCEPT ![f] = "none"]}
  /\ Fails(failed \cup {f})

\* a block of one file is written into another, by the name it has by now
Mixes(f) ==
  /\ IF part[f] = NoFile THEN file' = [file EXCEPT ![f] = Mixed] /\ UNCHANGED part
                         ELSE part' = [part EXCEPT ![f] = Mixed] /\ UNCHANGED file
  /\ excused' = excused \cup {f} /\ UNCHANGED failures

\* the blocks that follow; the empty one writes nothing
Continues(f, n) ==
  /\ \/ n = 0 /\ UNCHANGED <<file, part, failureVars>>
     \/ n # 0 /\ Fails({f}) /\ UNCHANGED <<file, part>>
     \/ /\ n # 0 /\ writer.into = f
        /\ part' = [part EXCEPT ![f] = Append(@, n)] /\ UNCHANGED <<file, failureVars>>
     \/ n # 0 /\ writer.into # f /\ Mixes(writer.into)
  /\ UNCHANGED <<stamp, writer>>

\* TransferJob::write, and what is left when it returns an error
Write(f, n) ==
  IF MovesOn(f)
    THEN \E renamed \in BOOLEAN :
           LET disk == Finalised(writer.num, renamed)
               failed == NotRenamed(writer.num, renamed)
           IN  /\ renamed \/ MayNotRename(writer.num)
               /\ file' = disk.file
               /\ Creates(f, n, disk, failed) \/ DoesNotCreate(f, disk, failed)
    ELSE Continues(f, n)

\* confirm on the writing side, which is at a file only once it got a block of
\* it: an offset opens x.download to go on with it
WriterConfirm(w, f, how) ==
  IF ~w.there \/ w.num # f THEN w
  ELSE IF how = Skip THEN [w EXCEPT !.num = @ + 1, !.open = FALSE]
  ELSE IF how > 0 THEN [w EXCEPT !.open = TRUE, !.into = f] ELSE w

\* set_stream_offset only logs that it cannot.
WriterIsTold(f, how) ==
  /\ \/ writer' = WriterConfirm(writer, f, how) /\ UNCHANGED failureVars
     \/ /\ writer.there /\ writer.num = f /\ how > 0
        /\ Fails({f}) /\ UNCHANGED writer
  /\ UNCHANGED <<file, part, stamp>>

\* is_write_need_confirmation: the blocks there are of an interrupted transfer
Transferred(f) ==
  IF is_resume /\ stamp[f] = "current" /\ part[f] # NoFile THEN Len(part[f]) ELSE 0
NeedsConfirmation(f) == Transferred(f) > 0 \/ file[f] # NoFile

\* What the controlling side makes of a digest without asking.
Decided(transferred) == transferred > 0 \/ strategy # "ask"
Decision(transferred) ==
  IF transferred > 0 THEN transferred ELSE IF strategy = "skip" THEN Skip ELSE 0

Decide(f, how) ==
  /\ refused' = IF how = Skip THEN refused \cup {f} ELSE refused \ {f}
  /\ agreed' = IF how = Skip THEN agreed \ {f} ELSE agreed \cup {f}
NothingDecided == UNCHANGED <<refused, agreed>>

TellReader(f, how) == toReader' = Append(toReader, Message("confirm", f, how))

\* A digest reaches the client that downloads.
DigestAtClient(f) ==
  LET how == IF NeedsConfirmation(f) THEN Decision(Transferred(f)) ELSE 0 IN
  IF ~NeedsConfirmation(f) \/ Decided(Transferred(f))
    THEN /\ WriterIsTold(f, how)
         /\ TellReader(f, how)
         /\ Decide(f, how)
         /\ UNCHANGED question
    ELSE question' = f /\ NothingDecided /\ UNCHANGED <<diskVars, writer, toReader>>

\* A digest reaches the connection manager of the side uploaded to: it answers
\* itself, or leaves it to the client.
DigestAtManager(f) ==
  /\ UNCHANGED <<diskVars, writer, question>>
  /\ IF NeedsConfirmation(f)
       THEN /\ toReader' = Append(toReader, Message("digest", f, Transferred(f)))
            /\ NothingDecided
       ELSE TellReader(f, 0) /\ Decide(f, 0)

Handled == toWriter' = Tail(toWriter)
OverWriter == UNCHANGED <<download, reader, is_resume, strategy, meta, resumes, errors>>

WriterGetsDigest ==
  /\ toWriter # <<>> /\ Head(toWriter).kind = "digest" /\ Handled
  /\ IF ~writer.there THEN NothingDecided /\ UNCHANGED <<diskVars, writer, question, toReader>>
     ELSE IF download THEN DigestAtClient(Head(toWriter).f)
     ELSE DigestAtManager(Head(toWriter).f)
  /\ OverWriter /\ UNCHANGED <<cancelled, done>>

WriterGetsBlock ==
  /\ toWriter # <<>> /\ Head(toWriter).kind = "block" /\ Handled
  /\ IF writer.there THEN Write(Head(toWriter).f, Head(toWriter).n)
                     ELSE UNCHANGED <<diskVars, writer>>
  /\ OverWriter /\ UNCHANGED <<question, toReader, refused, agreed, cancelled, done>>

\* ipc::FS::SendConfirm, in an upload
WriterGetsConfirm ==
  /\ toWriter # <<>> /\ Head(toWriter).kind = "confirm" /\ Handled
  /\ WriterIsTold(Head(toWriter).f, Head(toWriter).n)
  /\ OverWriter /\ UNCHANGED <<question, toReader, refused, agreed, cancelled, done>>

\* Done renames the last file, an error leaves everything, a cancellation
\* removes the file that is being written.
WriterEnds ==
  /\ toWriter # <<>> /\ Head(toWriter).kind \in {"done", "error", "cancel"} /\ Handled
  /\ writer' = NoWriter
  /\ CASE ~writer.there \/ Head(toWriter).kind = "error" -> UNCHANGED diskVars
       [] writer.there /\ Head(toWriter).kind = "done" ->
            \E renamed \in BOOLEAN :
              LET disk == Finalised(writer.num, renamed)
              IN  /\ renamed \/ MayNotRename(writer.num)
                  /\ file' = disk.file /\ part' = disk.part /\ stamp' = disk.stamp
                  /\ Fails(NotRenamed(writer.num, renamed))
       [] writer.there /\ Head(toWriter).kind = "cancel" ->
            Removed(writer.num) /\ UNCHANGED file
  /\ done' = (done \/ (writer.there /\ Head(toWriter).kind = "done"))
  /\ OverWriter /\ UNCHANGED <<question, toReader, refused, agreed, cancelled>>

-----------------------------------------------------------------------------
(* What reaches the reading side.                                          *)

ReaderGets ==
  /\ toReader # <<>> /\ toReader' = Tail(toReader)
  /\ LET m == Head(toReader) IN
       CASE m.kind = "confirm" ->
              /\ reader' = ReaderConfirm(reader, m.f, m.n)
              /\ NothingDecided /\ UNCHANGED <<toWriter, question>>
         [] m.kind = "cancel" ->
              /\ reader' = NoReader
              /\ NothingDecided /\ UNCHANGED <<toWriter, question>>
         [] m.kind = "digest" /\ ~reader.there ->
              NothingDecided /\ UNCHANGED <<reader, toWriter, question>>
         [] m.kind = "digest" /\ reader.there /\ Decided(m.n) ->
              LET how == Decision(m.n) IN
              /\ reader' = ReaderConfirm(reader, m.f, how)
              /\ toWriter' = Append(toWriter, Message("confirm", m.f, how))
              /\ Decide(m.f, how) /\ UNCHANGED question
         [] m.kind = "digest" /\ reader.there /\ ~Decided(m.n) ->
              question' = m.f /\ NothingDecided /\ UNCHANGED <<reader, toWriter>>
  /\ UNCHANGED <<download, diskVars, writer, is_resume, strategy, meta, resumes, errors, cancelled, done>>

-----------------------------------------------------------------------------
(* The user, and the connection.                                           *)

\* Data::SetConfirmOverrideFile.  In an upload the writer is not told.
UserAnswers(overwrite, remember) ==
  /\ question # 0 /\ question' = 0
  /\ LET how == IF overwrite THEN 0 ELSE Skip IN
       /\ IF download
            THEN /\ writer' = WriterConfirm(writer, question, how)
                 /\ TellReader(question, how) /\ UNCHANGED reader
            ELSE /\ reader' = ReaderConfirm(reader, question, how)
                 /\ UNCHANGED <<writer, toReader>>
       /\ Decide(question, how)
  /\ strategy' = IF remember THEN IF overwrite THEN "overwrite" ELSE "skip" ELSE strategy
  /\ UNCHANGED <<download, diskVars, is_resume, toWriter, meta, resumes, errors, cancelled, done>>

\* Data::CancelJob
UserCancels ==
  /\ ~cancelled /\ meta = 0
  /\ IF download THEN writer.there ELSE reader.there
  /\ cancelled' = TRUE /\ question' = 0
  /\ IF download
       THEN /\ writer' = NoWriter /\ Removed(writer.num)
            /\ toReader' = Append(toReader, Plain("cancel"))
            /\ UNCHANGED <<file, reader, toWriter>>
       ELSE /\ reader' = NoReader
            /\ toWriter' = Append(toWriter, Plain("cancel"))
            /\ UNCHANGED <<diskVars, writer, toReader>>
  /\ UNCHANGED <<download, is_resume, strategy, meta, resumes, errors, refused, agreed,
                 done>>

\* The connection breaks.  The controlling side keeps where its job was
\* (sync_jobs_status_to_local, gen_meta); the other job is dropped.
Interrupt ==
  /\ meta = 0 /\ resumes < MaxResumes /\ resumes' = resumes + 1
  /\ IF download THEN writer.there ELSE reader.there
  /\ meta' = IF download THEN writer.num ELSE reader.num
  /\ reader' = NoReader /\ writer' = NoWriter
  /\ toWriter' = <<>> /\ toReader' = <<>> /\ question' = 0
  /\ UNCHANGED <<download, diskVars, is_resume, strategy, errors, historyVars>>

\* Data::AddJob and Data::ResumeJob on the next connection.
Resume ==
  /\ meta # 0 /\ meta' = 0
  /\ reader' = ReadsFrom(meta) /\ writer' = WritesFrom(meta)
  /\ is_resume' = TRUE /\ strategy' = "ask"
  /\ UNCHANGED <<download, diskVars, question, toWriter, toReader, resumes, errors, historyVars>>

-----------------------------------------------------------------------------
ReaderStep == SendDigest \/ SendBlock \/ ReadDone \/ ReaderGets
WriterStep == WriterGetsDigest \/ WriterGetsBlock \/ WriterGetsConfirm \/ WriterEnds
Answer == \E overwrite, remember \in BOOLEAN : UserAnswers(overwrite, remember)
TransferNext ==
  ReaderStep \/ WriterStep \/ Answer \/ ReadFails \/ UserCancels \/ Interrupt \/ Resume

TransferSpec == TransferInit /\ [][TransferNext]_transferVars

\* The timers and loops run and the user answers.
TransferFairness ==
  /\ WF_transferVars(ReaderStep) /\ WF_transferVars(WriterStep)
  /\ WF_transferVars(Answer) /\ WF_transferVars(Resume)

-----------------------------------------------------------------------------
(* Properties.                                                             *)

Whole(f) == file[f] = Source
Untouched(f) == file[f] \in {NoFile, Old}

\* Under its name a file is what it was or all of the source, whatever was
\* skipped, cancelled, interrupted and resumed, and whatever failed for other files.
NoBrokenFile == \A f \in Files \ excused : Whole(f) \/ Untouched(f)

\* A job copies each such file in one step, and none that was not decided to be
\* sent, or was decided to be kept since.
Seen == [f \in Files |-> IF f \in excused THEN Mixed ELSE file[f]]
C == INSTANCE Copying WITH
       Names <- Files, Originals <- {NoFile, Old}, Copy <- Source, Unknown <- Mixed,
       disk <- Seen, allowed <- agreed
ImplementsCopying == C!Spec

\* A file is sent only when the writer's side let it be, for that file: no
\* confirmation is taken for another file's.
SentWhenAgreed ==
  \A i \in DOMAIN toWriter : toWriter[i].kind = "block" => toWriter[i].f \in agreed

\* "We decide to give the decision whether to override the existing file to
\* users": a file decided to be kept is kept.
UserDecides == \A f \in refused : Untouched(f)

\* A job that is done has brought every file that was not refused and for which
\* the disk did not fail, also when a download was interrupted and resumed (an
\* upload may then lose the file whose end was on its way).
DoneIsComplete ==
  done /\ (download \/ resumes = 0)
    => \A f \in Files \ excused : Whole(f) \/ f \in refused

\* Neither side waits for the other for ever, whatever cannot be written, as long
\* as every file can be read: after an error of that kind the reader waits for an
\* answer about the next file, and the writer has dropped the job.
JobEnds == reader.open ~> (errors > 0 \/ (~reader.there /\ ~writer.there /\ meta = 0))
=============================================================================
