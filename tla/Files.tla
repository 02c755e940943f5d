------------------------------- MODULE Files -------------------------------
(***************************************************************************)
(* tools.EditFile and tools.ReadFile on one path of the daemon's host.     *)
(* Every request runs in a goroutine of its own and nothing orders two     *)
(* edits of a file, an edit and a read, or an edit and the pruning of      *)
(* backups by another.  The daemon may die and the machine may lose power  *)
(* between any two system calls.                                           *)
(*                                                                         *)
(* A file's content is a sequence of tokens; old_string is one token and   *)
(* new_string a sequence of them.  An inode is named by the edit whose     *)
(* temporary file it was, "orig" being the one that was there first.       *)
(***************************************************************************)
EXTENDS Naturals, Sequences, FiniteSets
Seqs == INSTANCE SequencesExt

CONSTANTS
    Editors, Readers,  \* calls of EditFile and of ReadFile
    Tokens,            \* what a content is made of
    Contents,          \* what the file may hold at first
    EditRequests,      \* records [old, new, all]
    ReadRequests,      \* records [offset, limit, maxSize]
    MaxFile,           \* daemon.go maxFileBytes
    ChunkLen,          \* readfile.go readChunkSize
    Keep,              \* BackupRetainCount
    MaxStamp,          \* bound: seconds on the clock of backup names
    MaxTime            \* bound: times a modification may be dated to

None == "none"
Inodes == {"orig"} \cup Editors
ASSUME CallAssumption ==
    /\ IsFiniteSet(Editors) /\ Editors \cap (Readers \cup {"orig", None}) = {}
    /\ Contents \subseteq Seq(Tokens)
    /\ EditRequests \subseteq [old : Tokens, new : Seq(Tokens), all : BOOLEAN]
    /\ ReadRequests \subseteq [offset : Nat, limit : Nat, maxSize : Nat]
ASSUME LimitAssumption ==
    MaxFile \in Nat /\ ChunkLen \in Nat \ {0} /\ Keep \in Nat \ {0} /\ MaxStamp \in Nat \ {0}
    /\ MaxTime \in Nat \ {0}

VARIABLES
    data,   \* content of each inode, as running programs see it
    path,   \* the inode at the path
    synced, \* inodes whose content is on the disk
    linked, \* inodes that have been at the path: the disk may still have any of them
    temps,  \* temporary files in the directory
    bak,    \* the backup files; "at" is the modification time
    lost,   \* history: power was lost
    ed,     \* the edits
    rd,     \* the reads
    cut     \* calls whose session has ended

fileVars == <<data, path, synced, linked, temps>>
filesVars == <<fileVars, bak, lost, ed, rd, cut>>
-----------------------------------------------------------------------------
(* Matching and replacing *)

Count(s, old) == Cardinality({i \in DOMAIN s : s[i] = old})

\* strings.Replace and strings.ReplaceAll: with one match they agree.
Apply(req, s) == Seqs!FlattenSeq([i \in DOMAIN s |-> IF s[i] = req.old THEN req.new ELSE <<s[i]>>])

\* The request matches as often as it may.
Matches(req, s) == Count(s, req.old) > 0 /\ (req.all \/ Count(s, req.old) = 1)

\* Why EditFile refuses, having read s.
Refusal(req, s) ==
    IF Len(s) > MaxFile THEN "exceeds_max_size"
    ELSE IF Count(s, req.old) = 0 THEN "old_string_not_found" ELSE "ambiguous_match"
-----------------------------------------------------------------------------
(* EditFile *)

\* A call ends; its answer reaches the caller unless its session is over.
EditAnswer(e, next) ==
    ed' = [ed EXCEPT ![e] = [next EXCEPT !.pc = "done", !.told = IF e \in cut THEN None ELSE next.err]]

\* Stat, open, read to the end, count: the refusals, or the backup comes next.
\* A call whose session is over returns an empty answer instead.
EditRead(e) ==
    /\ ed[e].pc = "idle" /\ ~lost
    /\ \E req \in EditRequests :
        LET s == data[path]
            next == [ed[e] EXCEPT !.req = req, !.read = s]
        IN IF path = None THEN EditAnswer(e, [ed[e] EXCEPT !.req = req, !.err = "not_found"])
           ELSE IF Matches(req, s) /\ Len(s) <= MaxFile
                THEN ed' = [ed EXCEPT ![e] = [next EXCEPT !.pc = "backup"]]
                ELSE EditAnswer(e, [next EXCEPT !.err = Refusal(req, s)])
    /\ UNCHANGED <<fileVars, bak, lost, rd, cut>>

\* EditFile returns without an Err when its session ended while it read.
EditCancelled(e) ==
    /\ ed[e].pc = "backup" /\ e \in cut
    /\ EditAnswer(e, ed[e])
    /\ UNCHANGED <<fileVars, bak, lost, rd, cut>>

Least(a, b) == IF a < b THEN a ELSE b
Most(a, b) == IF a < b THEN b ELSE a

\* Seconds a name is stamped with, and what the file system dates a write to.
\* Neither need advance from one write to the next: several writes fall into
\* one tick of the clock, and the clock may be set back.
Stamps == 1 .. MaxStamp
Times == 1 .. MaxTime

Name(stamp, s) == [stamp |-> stamp, of |-> s]
Backup(n, s, at) == [name |-> n, data |-> s, at |-> at]
\* Faulty variant: a backup of the same name is added, not overwritten.
Written_Twice(n, s, at) == bak \cup {Backup(n, s, at)}

\* The directory without the file n, and after a write of it.
Without(n) == {b \in bak : b.name # n}
Written(n, s, at) == Without(n) \cup {Backup(n, s, at)}

\* os.WriteFile creates or truncates the backup, named for the time it is ...
BackupOpen(e) ==
    /\ ed[e].pc = "backup"
    /\ \E stamp \in Stamps, at \in Times :
        /\ bak' = Written(Name(stamp, ed[e].read), <<>>, at)
        /\ ed' = [ed EXCEPT ![e] = [@ EXCEPT !.pc = "fill", !.try = <<Name(stamp, ed[e].read)>>,
                                             !.low = at, !.high = at]]
    /\ UNCHANGED <<fileVars, lost, rd, cut>>

\* ... and fills it, or fails to, which is not reported; if another edit has
\* pruned it the write goes to an unlinked file.
BackupFill(e) ==
    /\ ed[e].pc = "fill"
    /\ \E at \in Times, ok \in BOOLEAN :
        /\ bak' = IF Without(ed[e].try[1]) = bak THEN bak
                  ELSE Written(ed[e].try[1], IF ok THEN ed[e].read ELSE <<>>, at)
        /\ ed' = [ed EXCEPT ![e] = [@ EXCEPT !.pc = "tmp", !.backup = IF ok THEN ed[e].try ELSE <<>>,
                                             !.low = Least(ed[e].low, at), !.high = Most(ed[e].high, at)]]
    /\ UNCHANGED <<fileVars, lost, rd, cut>>

BackupFails(e) ==
    /\ ed[e].pc = "backup"
    /\ ed' = [ed EXCEPT ![e].pc = "tmp"]
    /\ UNCHANGED <<fileVars, bak, lost, rd, cut>>

\* Faulty variant: the file is not flushed.
WriteTemp_Unsynced(e) ==
    /\ ed[e].pc = "tmp"
    /\ temps' = temps \cup {e}
    /\ data' = [data EXCEPT ![e] = Apply(ed[e].req, ed[e].read)]
    /\ ed' = [ed EXCEPT ![e].pc = "rename"]
    /\ UNCHANGED <<path, synced, linked, bak, lost, rd, cut>>

\* CreateTemp, WriteString, Sync, Close and Chmod: until the rename only a
\* listing of the directory shows how far they are ...
WriteTemp(e) ==
    /\ ed[e].pc = "tmp"
    /\ temps' = temps \cup {e}
    /\ data' = [data EXCEPT ![e] = Apply(ed[e].req, ed[e].read)]
    /\ synced' = synced \cup {e}
    /\ ed' = [ed EXCEPT ![e].pc = "rename"]
    /\ UNCHANGED <<path, linked, bak, lost, rd, cut>>

\* ... and Rename, over whatever is at the path by now.
Install(e) ==
    /\ ed[e].pc = "rename"
    /\ path' = e /\ linked' = linked \cup {e} /\ temps' = temps \ {e}
    /\ ed' = [ed EXCEPT ![e].pc = "glob"]
    /\ UNCHANGED <<data, synced, bak, lost, rd, cut>>

\* Any of them fails: the temporary file is removed.
EditFails(e) ==
    /\ ed[e].pc \in {"tmp", "rename"}
    /\ temps' = temps \ {e} /\ data' = [data EXCEPT ![e] = <<>>]
    /\ EditAnswer(e, [ed[e] EXCEPT !.err = "write_failed"])
    /\ UNCHANGED <<path, synced, linked, bak, lost, rd, cut>>

\* Faulty variant: the oldest backups are kept.
Outdated_Oldest ==
    {v \in SUBSET bak : /\ Cardinality(bak \ v) = Least(Keep, Cardinality(bak))
                        /\ \A b \in v, c \in bak \ v : c.at <= b.at}

\* The backups that a sort by modification time, newest first, may put behind
\* the first ones; backups of the same time come in any order.
Outdated ==
    {v \in SUBSET bak : /\ Cardinality(bak \ v) = Least(Keep, Cardinality(bak))
                        /\ \A b \in v, c \in bak \ v : b.at <= c.at}

\* pruneOldBackups lists and sorts the backups ...
Glob(e) ==
    /\ ed[e].pc = "glob"
    /\ \E v \in Outdated :
        ed' = [ed EXCEPT ![e] = [@ EXCEPT !.pc = "prune", !.victims = {b.name : b \in v}]]
    /\ UNCHANGED <<fileVars, bak, lost, rd, cut>>

\* ... and removes one after the other, whatever they have become.
Prune(e) ==
    /\ ed[e].pc = "prune"
    /\ \E n \in ed[e].victims :
        /\ bak' = Without(n)
        /\ ed' = [ed EXCEPT ![e].victims = @ \ {n}]
    /\ UNCHANGED <<fileVars, lost, rd, cut>>

EditDone(e) ==
    /\ ed[e].pc = "prune" /\ ed[e].victims = {}
    /\ EditAnswer(e, [ed[e] EXCEPT !.err = "ok"])
    /\ UNCHANGED <<fileVars, bak, lost, rd, cut>>
-----------------------------------------------------------------------------
(* ReadFile *)

HardCap(req) == IF req.maxSize > 0 THEN Least(MaxFile, req.maxSize) ELSE MaxFile

ReadAnswer(r, next, err) ==
    rd' = [rd EXCEPT ![r] = [next EXCEPT !.pc = "done", !.told = IF r \in cut THEN None ELSE err]]

\* Open and Seek.
ReadOpen(r) ==
    /\ rd[r].pc = "idle" /\ ~lost
    /\ \E req \in ReadRequests :
        IF path = None THEN ReadAnswer(r, [rd[r] EXCEPT !.req = req], "not_found")
        ELSE rd' = [rd EXCEPT ![r].pc = "loop", ![r].req = req, ![r].inode = path,
                              ![r].pos = req.offset, ![r].base = data[path]]
    /\ UNCHANGED <<fileVars, bak, lost, ed, cut>>

\* Faulty variant: the read is not trimmed to what is left of the limit.
ReadLen_Untrimmed(r) == ChunkLen

\* How much the next Read may return.
ReadLen(r) == IF rd[r].req.limit > 0 THEN Least(ChunkLen, rd[r].req.limit - Len(rd[r].got)) ELSE ChunkLen

\* One turn of the loop: the limit is reached; a chunk is read and sent, or
\* does not fit; or the file ends.
ReadTurn(r) ==
    /\ rd[r].pc = "loop"
    /\ LET req == rd[r].req
           got == rd[r].got
           content == data[rd[r].inode]
       IN IF r \in cut THEN ReadAnswer(r, rd[r], "ok")
          ELSE IF req.limit > 0 /\ Len(got) >= req.limit THEN ReadAnswer(r, rd[r], "ok")
          ELSE IF rd[r].pos >= Len(content) THEN ReadAnswer(r, rd[r], "ok")
          ELSE LET n == Least(ReadLen(r), Len(content) - rd[r].pos) IN
                IF Len(got) + n > HardCap(req) THEN ReadAnswer(r, rd[r], "exceeds_max_size")
                ELSE rd' = [rd EXCEPT ![r].pos = @ + n,
                                      ![r].got = @ \o SubSeq(content, rd[r].pos + 1, rd[r].pos + n)]
    /\ UNCHANGED <<fileVars, bak, lost, ed, cut>>

ReadFails(r) ==
    /\ rd[r].pc = "loop"
    /\ ReadAnswer(r, rd[r], "read_failed")
    /\ UNCHANGED <<fileVars, bak, lost, ed, cut>>
-----------------------------------------------------------------------------
(* The daemon's sessions, the daemon and the machine *)

Running == {e \in Editors : ed[e].pc \notin {"idle", "done"}} \cup {r \in Readers : rd[r].pc = "loop"}

\* Bound: one session ends.
SessionEnds ==
    /\ cut = {} /\ Running # {} /\ cut' = Running
    /\ UNCHANGED <<fileVars, bak, lost, ed, rd>>

\* The calls under way stop where they are; later ones run in a new daemon.
Stopped ==
    /\ ed' = [e \in Editors |-> IF e \in Running THEN [ed[e] EXCEPT !.pc = "done"] ELSE ed[e]]
    /\ rd' = [r \in Readers |-> IF r \in Running THEN [rd[r] EXCEPT !.pc = "done"] ELSE rd[r]]

DaemonDies ==
    /\ Running # {} /\ Stopped
    /\ UNCHANGED <<fileVars, bak, lost, cut>>

\* What was not flushed may be gone, the backups among it, since nothing flushes
\* them.  The model ends there.
PowerLoss ==
    /\ ~lost /\ lost' = TRUE /\ Stopped
    /\ path' \in linked
    /\ \/ data' = data
       \/ data' = [i \in Inodes |-> IF i \in synced THEN data[i] ELSE <<>>]
    /\ \/ bak' = bak
       \/ bak' = {}
    /\ UNCHANGED <<synced, linked, temps, cut>>
-----------------------------------------------------------------------------
NoEdit == [pc |-> "idle", req |-> <<>>, read |-> <<>>, try |-> <<>>, backup |-> <<>>, low |-> 0, high |-> 0,
           victims |-> {}, err |-> "ok", told |-> None]
NoRead == [pc |-> "idle", req |-> <<>>, inode |-> None, pos |-> 0, base |-> <<>>, got |-> <<>>, told |-> None]

FilesInit ==
    /\ \E s \in Contents : data = [i \in Inodes |-> IF i = "orig" THEN s ELSE <<>>]
    /\ path \in {"orig", None} /\ linked = {path}
    /\ synced = {"orig"} /\ temps = {}
    /\ bak = {} /\ lost = FALSE
    /\ ed = [e \in Editors |-> NoEdit] /\ rd = [r \in Readers |-> NoRead]
    /\ cut = {}

Edit(e) ==
    \/ EditRead(e) \/ EditCancelled(e) \/ BackupOpen(e) \/ BackupFill(e) \/ BackupFails(e)
    \/ WriteTemp(e) \/ Install(e) \/ EditFails(e) \/ Glob(e) \/ Prune(e) \/ EditDone(e)

Read(r) == ReadOpen(r) \/ ReadTurn(r) \/ ReadFails(r)

FilesNext ==
    \/ \E e \in Editors : Edit(e)
    \/ \E r \in Readers : Read(r)
    \/ SessionEnds \/ DaemonDies \/ PowerLoss

FilesSpec == FilesInit /\ [][FilesNext]_filesVars
-----------------------------------------------------------------------------
(* Properties *)

Names == [stamp : Stamps, of : Seq(Tokens)]
Errs == {"ok", "not_found", "exceeds_max_size", "old_string_not_found", "ambiguous_match", "write_failed", "read_failed"}
EditCall ==
    [pc : {"idle", "backup", "fill", "tmp", "rename", "glob", "prune", "done"},
     req : EditRequests \cup {<<>>}, read : Seq(Tokens), try : Seq(Names), backup : Seq(Names), low : Nat,
     high : Nat, victims : SUBSET Names, err : Errs, told : Errs \cup {None}]
ReadCall ==
    [pc : {"idle", "loop", "done"}, req : ReadRequests \cup {<<>>}, inode : Inodes \cup {None}, pos : Nat,
     base : Seq(Tokens), got : Seq(Tokens), told : Errs \cup {None}]

\* Every variable stays in its type; a backup has a name of its own, and a
\* temporary file belongs to one edit.
FilesTypeOK ==
    /\ data \in [Inodes -> Seq(Tokens)]
    /\ path \in Inodes \cup {None} /\ linked \subseteq Inodes \cup {None}
    /\ synced \subseteq Inodes /\ temps \subseteq Editors
    /\ lost \in BOOLEAN
    /\ bak \subseteq [name : Names, data : Seq(Tokens), at : Times]
    /\ \A b, c \in bak : b.name = c.name => b = c
    /\ ed \in [Editors -> EditCall] /\ rd \in [Readers -> ReadCall]
    /\ \A e \in Editors : /\ ed[e].pc = "rename" => e \in temps
                          /\ Len(ed[e].backup) <= 1 /\ Len(ed[e].try) <= 1
    /\ cut \subseteq Editors \cup Readers

\* EditFile "without touching the file", "atomic via temp + rename": at every
\* moment, on a running host and on one that has lost its power, the path holds
\* the content it had at first or the whole result of one edit whose old_string
\* matched what it read; and an edit that was refused has left nothing behind.
FileIsWhole ==
    /\ data["orig"] \in Contents
    /\ \A p \in linked \cap Editors :
        /\ data[p] = Apply(ed[p].req, ed[p].read)
        /\ Matches(ed[p].req, ed[p].read)
    /\ \A e \in Editors : ed[e].told \notin {None, "ok"} => e \notin temps \cup linked

\* editfile.go:130, "a one-shot undo path": when a caller is told of success the
\* edit was carried out, and the backup it is told of holds what the edit read,
\* as long as fewer other backups than are retained are dated as late as it is:
\* by writes of the same tick of the clock, by later ones, or by earlier ones of
\* a clock that was set back (editfile_test.go:165, "nanosecond res not always
\* reliable").  (Two edits that read the same content in the same second share a
\* backup file: the second truncates and refills the first one's.)
UndoIsKept ==
    \A e \in Editors : ed[e].told = "ok" =>
        /\ e \in synced /\ e \notin temps
        /\ ed[e].backup # <<>> /\ ~lost
            /\ Cardinality({f \in Editors \ {e} : ed[f].high >= ed[e].low}) < Keep
            /\ (\A f \in Editors \ {e} : ed[f].try # ed[e].try)
           => \E b \in bak : b.name = ed[e].backup[1] /\ b.data = ed[e].read

\* The bytes of s that a read with these arguments asks for.
Window(req, s) ==
    LET from == SubSeq(s, req.offset + 1, Len(s))
    IN IF req.limit > 0 THEN SubSeq(from, 1, Least(req.limit, Len(from))) ELSE from

\* readfile.go:29: whatever is edited meanwhile, a read that answers without an
\* error returned exactly the window it was asked for, of the content the file
\* had when it was opened; one that answers exceeds_max_size asked for too much.
ReadIsSnapshot ==
    \A r \in Readers :
        /\ rd[r].told = "ok" => rd[r].got = Window(rd[r].req, rd[r].base)
        /\ rd[r].told = "exceeds_max_size" => Len(Window(rd[r].req, rd[r].base)) > HardCap(rd[r].req)
=============================================================================
