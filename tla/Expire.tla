-------------------------------- MODULE Expire --------------------------------
(***************************************************************************)
(* Bookkeeping and expiration of the flow files of one directory.          *)
(*                                                                         *)
(* A collector moves closed files into the directory and enters them in    *)
(* the books, a shared memory segment (bookkeeper.c).  The record          *)
(* .nfstat (nfstatfile.c) counts the files; the books are taken in by      *)
(* do_expire in the launcher (launch.c), by nfexpire, and by the collector *)
(* when it ends.  Whoever reads the record to write it holds its lock.     *)
(*                                                                         *)
(* Files are named by the slot of time they are for and sizes count        *)
(* blocks; the directory is flat.  A section between sem_lock and          *)
(* sem_unlock is one step.                                                 *)
(***************************************************************************)
EXTENDS Integers, FiniteSets, FiniteSetsExt, Functions

CONSTANTS
    MaxSlot,        (* bound: slots of time                                *)
    SizeModulus,    (* 2^64: dirstat_t counts in uint64_t                  *)
    LowWater,       (* water mark in per cent                              *)
    Limits,         (* limits nfexpire may be given                        *)
    Modes,          (* options nfexpire may be given                       *)
    AutoExpire,     (* whether collectors expire (-e): a set of Booleans   *)
    MaxEvents,      (* bound: starts of the collector, runs of nfexpire    *)
                    (* and processes that are killed, together             *)
    MaxDeaths       (* bound: processes that are killed                    *)

ASSUME ExpireAssumption ==
    /\ MaxSlot \in Nat \ {0} /\ SizeModulus \in Nat /\ MaxSlot < SizeModulus
    /\ LowWater \in 1 .. 100
    /\ Limits \subseteq [max_size : Nat, max_lifetime : Nat]
    /\ Modes \subseteq {"list", "rescan", "expire", "update"}
    /\ AutoExpire \subseteq BOOLEAN
    /\ MaxEvents \in Nat /\ MaxDeaths \in Nat

Slots    == 1 .. MaxSlot
Expirers == {"launcher", "nfexpire"}
Procs    == Expirers \cup {"collector"}

VARIABLES
    clock,          (* the current slot: time(NULL)                        *)
    dir,            (* the flow files: slot |-> size                       *)
    stat,           (* .nfstat on disk                                     *)
    lock,           (* who holds the lock of .nfstat                       *)
    segment,        (* the shared memory segment exists                    *)
    booked,         (* the files in it: slot |-> size                      *)
    orphan,         (* those of a removed segment somebody is attached to  *)
    sem,            (* the semaphore of the books is free                  *)
    changed,        (* sequence differs from nfexpire's last_sequence      *)
    auto,           (* the collector's option -e                           *)
    phase,          (* where the collector is                              *)
    messages,       (* launch messages to the launcher                     *)
    pc, job,        (* where do_expire and nfexpire are, their locals      *)
    rec,            (* the dirstat_t of each process                       *)
    events, deaths

disk   == <<dir, stat, lock>>
books  == <<segment, booked, orphan, sem, changed>>
owner  == <<clock, auto, phase, messages>>
bounds == <<events, deaths>>
vars   == <<disk, books, owner, pc, job, rec, bounds>>

NoLimits == [max_size |-> 0, max_lifetime |-> 0]
NoFiles  == <<>>

(* dirstat_t; exact is a history variable: FALSE once one of the events    *)
(* named below has made the record count other files than there are        *)
Record == [first : 0 .. MaxSlot, last : 0 .. MaxSlot, numfiles : 0 .. SizeModulus - 1,
           filesize : 0 .. SizeModulus - 1,
           limits : [max_size : {0} \cup {l.max_size : l \in Limits},
                     max_lifetime : {0} \cup {l.max_lifetime : l \in Limits}],
           rebuild : BOOLEAN, exact : BOOLEAN]

(* what ReadStatInfo makes of an empty or torn file                        *)
Torn(l) == [first |-> 0, last |-> 0, numfiles |-> 0, filesize |-> 0,
            limits |-> l, rebuild |-> TRUE, exact |-> FALSE]

NoJob == [mode |-> "list", limits |-> NoLimits, fresh |-> FALSE, rescan |-> FALSE,
          attached |-> "no", loop |-> 0, nofiles |-> FALSE, dirty |-> FALSE,
          walk |-> NoFiles, size_done |-> TRUE, lifetime_done |-> TRUE,
          expired |-> 0]

Init ==
    /\ clock = 1
    /\ dir = NoFiles
    /\ stat = [exists |-> FALSE, rec |-> Torn(NoLimits)]
    /\ lock = "none"
    /\ segment = FALSE /\ booked = NoFiles /\ orphan = NoFiles
    /\ sem = TRUE /\ changed = FALSE
    /\ auto \in AutoExpire
    /\ phase = "down" /\ messages = 0
    /\ pc = [p \in Expirers |-> "idle"]
    /\ job = [p \in Expirers |-> NoJob]
    /\ rec = [p \in Procs |-> Torn(NoLimits)]
    /\ events = 0 /\ deaths = 0
-------------------------------------------------------------------------------
Wrap(n) == n % SizeModulus

(* files with f of size n, and without f                                   *)
With(files, f, n) == [s \in DOMAIN files \cup {f} |-> IF s = f THEN n ELSE files[s]]
Without(files, f) == Restrict(files, DOMAIN files \ {f})

Verify(r) == [r EXCEPT !.rebuild = @ \/ r.first = 0 \/ r.first > r.last]

(* UpdateDirStat takes the books b into the record; books that reach back  *)
(* behind the record's last file count a file again                        *)
Taken(r, b) ==
    IF b = NoFiles THEN r
    ELSE IF Max(DOMAIN b) <= r.last \/ Min(DOMAIN b) <= r.first
      THEN [r EXCEPT !.rebuild = TRUE]
      ELSE [r EXCEPT !.last = Max(DOMAIN b),
                     !.numfiles = Wrap(@ + Cardinality(DOMAIN b)),
                     !.filesize = Wrap(@ + SumFunction(b)),
                     !.exact = @ /\ Min(DOMAIN b) > r.last]

(* RescanDir                                                               *)
Scanned(r) ==
    IF dir = NoFiles
      THEN [r EXCEPT !.first = clock, !.last = clock, !.numfiles = 0, !.filesize = 0,
                     !.rebuild = TRUE, !.exact = FALSE]
      ELSE [r EXCEPT !.first = Min(DOMAIN dir), !.last = Max(DOMAIN dir),
                     !.numfiles = Cardinality(DOMAIN dir),
                     !.filesize = Wrap(SumFunction(dir)),
                     !.rebuild = FALSE, !.exact = TRUE]

(* files a process attached so finds in the books                          *)
Books(p) ==
    CASE job[p].attached = "yes"    -> booked
      [] job[p].attached = "orphan" -> orphan
      [] OTHER                      -> NoFiles

(* files the collector has moved and not booked                            *)
Moved == IF phase \in {"moved", "lastmoved"} THEN {clock} ELSE {}

Event == events < MaxEvents /\ events' = events + 1
Death == deaths < MaxDeaths /\ deaths' = deaths + 1 /\ Event

(* no record that is around counts all files any more                      *)
Miscount ==
    /\ stat' = [stat EXCEPT !.rec.exact = FALSE]
    /\ rec' = [p \in Procs |-> [rec[p] EXCEPT !.exact = FALSE]]

(* somebody else takes the lock before nfexpire -u writes a second time    *)
Stale == IF pc["nfexpire"] \in {"reopen", "relock"}
           THEN [rec EXCEPT !["nfexpire"].exact = FALSE] ELSE rec
-------------------------------------------------------------------------------
(* The steps of do_expire and nfexpire                                     *)
Go(p, q)     == pc' = [pc EXCEPT ![p] = q]
Quit(p)      == /\ Go(p, "idle")
                /\ job' = [job EXCEPT ![p] = NoJob]
                /\ rec' = [rec EXCEPT ![p] = Torn(NoLimits)]
Limited(r)   == r.limits # NoLimits

(* where nfexpire goes on once the books and the scan are done             *)
Written(j) == IF j.nofiles THEN "quit" ELSE "truncate"
Act(j)     == CASE j.mode = "expire" -> "expire"
                [] j.mode = "update" -> "param"
                [] OTHER             -> Written(j)

AfterLock(p, j) ==
    IF p = "launcher" THEN IF j.rescan THEN "scan" ELSE "take"
    ELSE IF j.attached = "yes" /\ j.mode \in {"list", "expire"} THEN "take"
    ELSE IF j.rescan THEN "sequence" ELSE Act(j)

(* do_expire is called for the next launch message                         *)
DoExpire ==
    /\ pc["launcher"] = "idle" /\ messages > 0
    /\ messages' = messages - 1
    /\ Go("launcher", "lock")
    /\ job' = [job EXCEPT !["launcher"].fresh = ~stat.exists]
    /\ stat' = [stat EXCEPT !.exists = TRUE]
    /\ UNCHANGED <<dir, lock, books, clock, auto, phase, rec, bounds>>

(* nfexpire is started                                                     *)
NfExpire ==
    /\ pc["nfexpire"] = "idle"
    /\ Event
    /\ Go("nfexpire", "lock")
    /\ \E m \in Modes : \E l \in Limits \cup {NoLimits} :
         /\ l # NoLimits => m \in {"expire", "update"}
         /\ job' = [job EXCEPT !["nfexpire"] =
                        [@ EXCEPT !.mode = m, !.limits = l, !.fresh = ~stat.exists]]
    /\ stat' = [stat EXCEPT !.exists = TRUE]
    /\ UNCHANGED <<dir, lock, books, owner, rec, deaths>>

(* Mutant of LockStat: the record is read before the lock is taken.        *)
LockStatLate(p) ==
    /\ pc[p] = "lock"
    /\ LET r == IF job[p].fresh THEN Torn(NoLimits) ELSE Verify(stat.rec)
           j == [job[p] EXCEPT !.rescan = r.rebuild \/ @ \/ job[p].mode = "rescan",
                               !.attached = IF segment THEN "yes" ELSE "no"]
       IN  /\ rec' = [Stale EXCEPT ![p] = r]
           /\ job' = [job EXCEPT ![p] = j]
           /\ Go(p, AfterLock(p, j))
    /\ lock' = p
    /\ UNCHANGED <<dir, stat, books, owner, bounds>>

(* SetFileLock has succeeded: ReadStatInfo and AccessBookkeeper            *)
LockStat(p) ==
    /\ pc[p] = "lock"
    /\ lock = "none"
    /\ LET r == IF job[p].fresh THEN Torn(NoLimits) ELSE Verify(stat.rec)
           j == [job[p] EXCEPT !.rescan = r.rebuild \/ job[p].mode = "rescan",
                               !.attached = IF segment THEN "yes" ELSE "no"]
       IN  /\ rec' = [Stale EXCEPT ![p] = r]
           /\ job' = [job EXCEPT ![p] = j]
           /\ Go(p, AfterLock(p, j))
    /\ lock' = p
    /\ UNCHANGED <<dir, stat, books, owner, bounds>>

(* Mutant of Emptied: ClearBooks returns without sem_unlock.               *)
EmptiedLocked(p) ==
    /\ booked' = IF job[p].attached = "yes" THEN NoFiles ELSE booked
    /\ orphan' = IF job[p].attached = "orphan" THEN NoFiles ELSE orphan
    /\ changed' = (changed \/ job[p].attached = "yes")
    /\ sem' = (sem /\ job[p].attached # "yes" )
    /\ UNCHANGED segment

(* a copy of the books is gone from them                                   *)
Emptied(p) ==
    /\ booked' = IF job[p].attached = "yes" THEN NoFiles ELSE booked
    /\ orphan' = IF job[p].attached = "orphan" THEN NoFiles ELSE orphan
    /\ changed' = (changed \/ job[p].attached = "yes")
    /\ UNCHANGED <<segment, sem>>

(* ClearBooks with a copy, UpdateDirStat                                   *)
TakeBooks(p) ==
    /\ pc[p] = "take"
    /\ job[p].attached = "yes" => sem
    /\ Emptied(p)
    /\ LET r == Taken(rec[p], Books(p))
           j == [job[p] EXCEPT !.rescan = @ \/ r.rebuild, !.dirty = TRUE]
       IN  /\ rec' = [rec EXCEPT ![p] = r]
           /\ job' = [job EXCEPT ![p] = j]
           /\ Go(p, IF p = "launcher" THEN IF Limited(r) THEN "expire" ELSE "truncate"
                    ELSE IF j.rescan THEN "sequence" ELSE Act(j))
    /\ UNCHANGED <<disk, owner, bounds>>

(* nfexpire keeps BookSequence before the scan                             *)
KeepSequence(p) ==
    /\ pc[p] = "sequence"
    /\ job[p].attached = "yes" => sem
    /\ changed' = FALSE
    /\ Go(p, "scan")
    /\ UNCHANGED <<disk, segment, booked, orphan, sem, owner, job, rec, bounds>>

(* RescanDir                                                               *)
RescanDir(p) ==
    /\ pc[p] = "scan"
    /\ rec' = [rec EXCEPT ![p] = Scanned(@)]
    /\ job' = [job EXCEPT ![p].nofiles = @ \/ dir = NoFiles]
    /\ Go(p, IF p = "launcher" THEN "clear" ELSE "compare")
    /\ UNCHANGED <<disk, books, owner, bounds>>

(* Mutant of Unchanged: the sequence is never compared.                    *)
UnchangedAssumed(p) == TRUE

Unchanged(p) == job[p].attached = "yes" => ~changed

(* The sequence is compared in the loop, of three rounds at most, and once *)
(* more behind it.                                                         *)
CompareSequence(p) ==
    /\ pc[p] = "compare"
    /\ job[p].attached = "yes" => sem
    /\ IF Unchanged(p) THEN Go(p, "again") /\ UNCHANGED job
       ELSE /\ Go(p, IF job[p].loop < 2 THEN "sequence" ELSE "again")
            /\ job' = [job EXCEPT ![p].loop = IF @ < 2 THEN @ + 1 ELSE @]
    /\ UNCHANGED <<disk, books, owner, rec, bounds>>

(* "Could not safely rescan the directory": the books are left alone, the  *)
(* record is written                                                       *)
CompareAgain(p) ==
    /\ pc[p] = "again"
    /\ job[p].attached = "yes" => sem
    /\ IF Unchanged(p) THEN Go(p, "clear") /\ UNCHANGED <<job, rec>>
       ELSE /\ Go(p, Written(job[p]))
            /\ job' = [job EXCEPT ![p].mode = "list"]
            /\ rec' = [rec EXCEPT ![p].exact = @ /\
                            \A s \in DOMAIN booked \cup Moved : s > rec[p].last]
    /\ UNCHANGED <<disk, books, owner, bounds>>

(* ClearBooks without a copy.  Files booked since the last look at the     *)
(* sequence get lost, files the scan has seen and that are booked later    *)
(* are counted twice.                                                      *)
ClearBooks(p) ==
    /\ pc[p] = "clear"
    /\ job[p].attached = "yes" => sem
    /\ Emptied(p)
    /\ rec' = [rec EXCEPT ![p].exact =
                 /\ @
                 /\ \A s \in DOMAIN booked' \cup Moved : s > rec[p].last]
    /\ job' = [job EXCEPT ![p].dirty = TRUE]
    /\ Go(p, IF p = "launcher" THEN IF job[p].attached = "no" THEN
                  IF Limited(rec[p]) THEN "expire" ELSE "truncate" ELSE "take"
             ELSE Act(job[p]))
    /\ UNCHANGED <<disk, owner, bounds>>
-------------------------------------------------------------------------------
(* ExpireDir                                                               *)
SizeLimit(r) == (LowWater * r.limits.max_size) \div 100
TimeLimit(r) == clock - (r.limits.max_lifetime * LowWater) \div 100

StartExpire(p) ==
    /\ pc[p] = "expire"
    /\ LET l == IF job[p].limits = NoLimits THEN rec[p].limits ELSE job[p].limits
           r == [rec[p] EXCEPT !.limits = l]
       IN  /\ rec' = [rec EXCEPT ![p] = r]
           /\ job' = [job EXCEPT ![p] = [@ EXCEPT
                  !.size_done = l.max_size = 0 \/ r.filesize < l.max_size,
                  !.lifetime_done = l.max_lifetime = 0 \/ clock - r.first < l.max_lifetime,
                  !.walk = dir, !.expired = 0]]
    /\ Go(p, "unlink")
    /\ UNCHANGED <<disk, books, owner, bounds>>

Oldest(p)  == Min(DOMAIN job[p].walk)
Walking(p) == pc[p] = "unlink" /\ job[p].walk # NoFiles
BySize(p)  == ~job[p].size_done /\ rec[p].filesize > SizeLimit(rec[p])
ByTime(p)  == ~BySize(p) /\ ~job[p].lifetime_done /\ Oldest(p) < TimeLimit(rec[p])

(* the oldest file is unlinked; the time limit -T of nfexpire is looked at *)
(* only where files are removed by their age                               *)
Unlink(p) ==
    /\ Walking(p)
    /\ BySize(p) \/ ByTime(p)
    /\ LET f == Oldest(p)
           r == rec[p]
           j == job[p]
       IN  /\ dir' = Without(dir, f)
           /\ rec' = [rec EXCEPT ![p] = [r EXCEPT
                  !.filesize = Wrap(r.filesize + SizeModulus - j.walk[f]),
                  !.first = IF ByTime(p) /\ ~j.size_done THEN f ELSE r.first]]
           /\ job' = [job EXCEPT ![p] = [j EXCEPT
                  !.walk = Without(j.walk, f),
                  !.expired = j.expired + 1, !.dirty = TRUE,
                  !.size_done = j.size_done \/ ByTime(p)]]
    /\ \E timeout \in BOOLEAN :
         /\ timeout => p = "nfexpire" /\ ByTime(p)
         /\ Go(p, IF timeout THEN "tally" ELSE "unlink")
    /\ UNCHANGED <<stat, lock, books, owner, bounds>>

(* the first file that stays                                               *)
KeepFile(p) ==
    /\ Walking(p)
    /\ ~BySize(p) /\ ~ByTime(p)
    /\ rec' = [rec EXCEPT ![p].first =
                   IF job[p].size_done /\ job[p].lifetime_done THEN @ ELSE Oldest(p)]
    /\ Go(p, "tally")
    /\ UNCHANGED <<disk, books, owner, job, bounds>>

(* the end of ExpireDir: the number of files                               *)
Tally(p) ==
    /\ pc[p] = "tally" \/ (pc[p] = "unlink" /\ job[p].walk = NoFiles)
    /\ LET r   == rec[p]
           n   == IF job[p].expired > r.numfiles THEN 0 ELSE r.numfiles - job[p].expired
           all == pc[p] = "unlink"
       IN  rec' = [rec EXCEPT ![p] = [r EXCEPT
                !.numfiles = n,
                !.first = IF n = 0 THEN clock ELSE IF all THEN r.last ELSE r.first,
                !.last = IF n = 0 THEN clock ELSE r.last,
                !.rebuild = r.rebuild \/ n = 0]]
    /\ job' = [job EXCEPT ![p] = [@ EXCEPT !.walk = NoFiles, !.expired = 0]]
    /\ Go(p, IF p = "nfexpire" THEN Written(job[p]) ELSE "truncate")
    /\ UNCHANGED <<disk, books, owner, bounds>>
-------------------------------------------------------------------------------
(* UpdateBooksParam, for nfexpire -u                                       *)
SetLimits(p) ==
    /\ pc[p] = "param"
    /\ job[p].attached = "yes" => sem
    /\ changed' = (changed \/ job[p].attached = "yes")
    /\ rec' = [rec EXCEPT ![p].limits = IF job[p].limits = NoLimits THEN @ ELSE job[p].limits]
    /\ Go(p, "truncate")
    /\ UNCHANGED <<disk, segment, booked, orphan, sem, owner, job, bounds>>

(* WriteStatInfo: the file is cut, written line by line and unlocked       *)
TruncateStat(p) ==
    /\ pc[p] = "truncate"
    /\ stat' = [stat EXCEPT !.rec = Torn(NoLimits)]
    /\ Go(p, "write")
    /\ UNCHANGED <<dir, lock, books, owner, job, rec, bounds>>

(* nfexpire -u writes once more at its end                                 *)
WriteStat(p) ==
    /\ pc[p] \in {"write", "overwrite"}
    /\ stat' = [stat EXCEPT !.rec = rec[p]]
    /\ lock' = "none"
    /\ IF job[p].mode = "update" /\ ~job[p].nofiles /\ pc[p] = "write"
         THEN Go(p, "reopen") /\ UNCHANGED <<job, rec>>
         ELSE Quit(p)
    /\ UNCHANGED <<dir, books, owner, bounds>>

(* the descriptor is closed: WriteStatInfo opens the file with O_TRUNC and *)
(* asks for the lock then                                                  *)
ReopenStat(p) ==
    /\ pc[p] = "reopen"
    /\ stat' = [stat EXCEPT !.rec = Torn(NoLimits)]
    /\ Go(p, "relock")
    /\ UNCHANGED <<dir, lock, books, owner, job, rec, bounds>>

RelockStat(p) ==
    /\ pc[p] = "relock"
    /\ lock = "none"
    /\ lock' = p
    /\ Go(p, "overwrite")
    /\ UNCHANGED <<dir, stat, books, owner, job, rec, bounds>>

(* nothing was found: the record is not written                            *)
LeaveStat(p) ==
    /\ pc[p] = "quit"
    /\ lock' = "none"
    /\ Quit(p)
    /\ UNCHANGED <<dir, stat, books, owner, bounds>>

(* nfexpire is killed, maybe behind a sem_lock, maybe between two lines    *)
InBooks(p) == job[p].attached = "yes"
              /\ pc[p] \in {"take", "sequence", "compare", "again", "clear", "param"}

KillNfExpire ==
    LET p == "nfexpire"
    IN  /\ pc[p] # "idle"
        /\ Death
        /\ Quit(p)
        /\ lock' = IF lock = p THEN "none" ELSE lock
        /\ \E inside \in BOOLEAN :
             /\ inside => InBooks(p) /\ sem
             /\ sem' = (sem /\ ~inside)
        /\ \E l \in {NoLimits, [NoLimits EXCEPT !.max_size = rec[p].limits.max_size],
                     rec[p].limits} :
             /\ l # NoLimits => pc[p] = "write"
             /\ stat' = IF pc[p] = "write" THEN [stat EXCEPT !.rec = Torn(l)]
                        ELSE [stat EXCEPT !.rec.exact = @ /\ ~job[p].dirty
                                                          /\ pc[p] # "overwrite"]
        /\ UNCHANGED <<dir, segment, booked, orphan, changed, owner>>
-------------------------------------------------------------------------------
(* The collector                                                           *)

(* InitBookkeeper: a segment somebody dead has left is recycled, what was  *)
(* in the books is gone, the semaphore is free again                       *)
StartCollector ==
    /\ phase = "down"
    /\ Event
    /\ clock' \in {clock, clock + 1} \cap Slots
    /\ segment' = TRUE /\ booked' = NoFiles /\ sem' = TRUE /\ changed' = TRUE
    /\ phase' = "run"
    /\ IF booked = NoFiles THEN UNCHANGED <<stat, rec>> ELSE Miscount
    /\ UNCHANGED <<dir, lock, orphan, auto, messages, pc, job, deaths>>

(* RenameAppend, in RotateFlowFiles: a file of the same slot is appended   *)
(* to, and a scan that has seen it has seen less of it                     *)
Scanning(p) == p \in Expirers /\ pc[p] \in {"compare", "again", "clear"}

MoveFile ==
    /\ phase = "run"
    /\ dir' = With(dir, clock, IF clock \in DOMAIN dir THEN dir[clock] + 1 ELSE 1)
    /\ \E done \in BOOLEAN :
         /\ ~done => clock < MaxSlot
         /\ phase' = IF done THEN "lastmoved" ELSE "moved"
    /\ rec' = [p \in Procs |-> IF clock \in DOMAIN dir /\ Scanning(p)
                                 THEN [rec[p] EXCEPT !.exact = FALSE] ELSE rec[p]]
    /\ UNCHANGED <<stat, lock, books, clock, auto, messages, pc, job, bounds>>

(* stat(), UpdateBooks and TriggerLauncher.  If the file has been removed  *)
(* in between, stat() fails unnoticed and the size is whatever was there.  *)
(* An expirer that has scanned and compared is about to clear the entry.   *)
UpdateBooks ==
    /\ phase \in {"moved", "lastmoved"}
    /\ sem
    /\ \E n \in IF clock \in DOMAIN dir THEN {dir[clock]} ELSE {0, SizeModulus - 1} :
         booked' = With(booked, clock, n)
    /\ IF clock \notin DOMAIN dir THEN Miscount
       ELSE /\ rec' = [p \in Procs |-> IF p \in Expirers /\ pc[p] = "clear"
                                         THEN [rec[p] EXCEPT !.exact = FALSE] ELSE rec[p]]
            /\ UNCHANGED stat
    /\ changed' = TRUE
    /\ messages' = IF auto THEN messages + 1 ELSE 0
    /\ clock' = IF phase = "moved" THEN clock + 1 ELSE clock
    /\ phase' = IF phase = "moved" THEN "run" ELSE "stop"
    /\ UNCHANGED <<dir, lock, segment, orphan, sem, auto, pc, job, bounds>>

(* signalPrivsepChild: the launcher ends after the do_expire it is in      *)
StopLauncher ==
    /\ phase = "stop"
    /\ pc["launcher"] = "idle"
    /\ messages' = 0
    /\ phase' = IF auto THEN "release" ELSE "stat"
    /\ UNCHANGED <<disk, books, clock, auto, pc, job, rec, bounds>>

(* without -e the books are taken into a record that is there and good     *)
FinalStat ==
    /\ phase = "stat"
    /\ IF ~stat.exists THEN phase' = "release" /\ UNCHANGED <<lock, rec>>
       ELSE /\ lock = "none"
            /\ lock' = "collector"
            /\ LET r == Verify(stat.rec)
               IN  IF r.rebuild THEN phase' = "release" /\ rec' = Stale
                   ELSE /\ phase' = "truncate"
                        /\ rec' = [Stale EXCEPT !["collector"] = Taken(r, booked)]
    /\ UNCHANGED <<dir, stat, books, clock, auto, messages, pc, job, bounds>>

FinalTruncate ==
    /\ phase = "truncate"
    /\ stat' = [stat EXCEPT !.rec = Torn(NoLimits)]
    /\ phase' = "write"
    /\ UNCHANGED <<dir, lock, books, clock, auto, messages, pc, job, rec, bounds>>

FinalWrite ==
    /\ phase = "write"
    /\ stat' = [stat EXCEPT !.rec = rec["collector"]]
    /\ lock' = "none"
    /\ rec' = [rec EXCEPT !["collector"] = Torn(NoLimits)]
    /\ phase' = "released"
    /\ UNCHANGED <<dir, books, clock, auto, messages, pc, job, bounds>>

(* ReleaseBookkeeper destroys the segment; processes attached to it keep   *)
(* it.  Books nobody has taken in are gone.                                *)
DestroyBooks ==
    /\ phase \in {"release", "released"}
    /\ sem
    /\ segment' = FALSE /\ booked' = NoFiles
    /\ orphan' = IF \E p \in Expirers : job[p].attached = "yes" THEN booked ELSE orphan
    /\ job' = [p \in Expirers |-> IF job[p].attached = "yes"
                                    THEN [job[p] EXCEPT !.attached = "orphan"] ELSE job[p]]
    /\ lock' = IF lock = "collector" THEN "none" ELSE lock
    /\ IF phase = "release" /\ booked # NoFiles THEN Miscount ELSE UNCHANGED <<stat, rec>>
    /\ phase' = "down"
    /\ UNCHANGED <<dir, sem, changed, clock, auto, messages, pc, bounds>>

(* The collector dies; the segment stays as it is.                         *)
KillCollector ==
    /\ phase # "down"
    /\ Death
    /\ phase' = "down" /\ messages' = 0
    /\ lock' = IF lock = "collector" THEN "none" ELSE lock
    /\ \E inside \in BOOLEAN :
         /\ inside => Moved # {} /\ sem
         /\ sem' = (sem /\ ~inside)
    /\ IF Moved # {} THEN Miscount ELSE UNCHANGED <<stat, rec>>
    /\ UNCHANGED <<dir, segment, booked, orphan, changed, clock, auto, pc, job>>
-------------------------------------------------------------------------------
Expirer(p) ==
    \/ LockStat(p) \/ TakeBooks(p)
    \/ KeepSequence(p) \/ RescanDir(p) \/ CompareSequence(p) \/ CompareAgain(p)
    \/ ClearBooks(p)
    \/ StartExpire(p) \/ Unlink(p) \/ KeepFile(p) \/ Tally(p)
    \/ SetLimits(p) \/ TruncateStat(p) \/ WriteStat(p)
    \/ ReopenStat(p) \/ RelockStat(p) \/ LeaveStat(p)

Ending ==
    \/ StopLauncher \/ FinalStat \/ FinalTruncate \/ FinalWrite \/ DestroyBooks

Next ==
    \/ StartCollector \/ MoveFile \/ UpdateBooks \/ Ending
    \/ DoExpire \/ NfExpire
    \/ \E p \in Expirers : Expirer(p)
    \/ KillNfExpire \/ KillCollector

Spec == Init /\ [][Next]_vars

(* Processes that run take their steps, the launcher its messages; nothing *)
(* forces a process to be started, to rotate or to be killed.              *)
FairSpec ==
    /\ Spec
    /\ WF_vars(UpdateBooks \/ Ending)
    /\ WF_vars(DoExpire \/ Expirer("launcher"))
    /\ WF_vars(Expirer("nfexpire"))
-------------------------------------------------------------------------------
TypeOK ==
    /\ clock \in Slots
    /\ DOMAIN dir \subseteq Slots /\ \A s \in DOMAIN dir : dir[s] \in 1 .. MaxEvents
    /\ DOMAIN booked \subseteq Slots /\ DOMAIN orphan \subseteq Slots
    /\ stat \in [exists : BOOLEAN, rec : Record]
    /\ lock \in Procs \cup {"none"}
    /\ {segment, sem, changed, auto} \subseteq BOOLEAN
    /\ phase \in {"down", "run", "moved", "lastmoved", "stop", "stat", "truncate", "write",
                  "released", "release"}
    /\ messages \in 0 .. MaxSlot
    /\ rec \in [Procs -> Record]
    /\ \A p \in Expirers : job[p].attached \in {"no", "yes", "orphan"} /\ job[p].loop \in 0 .. 2

(* Whoever has read the record to write it holds its lock until it is      *)
(* written, and nobody takes books out of the segment without it.          *)
LockHeld ==
    /\ \A p \in Expirers : pc[p] \in {"idle", "lock", "reopen", "relock"} <=> lock # p
    /\ lock = "collector" <=> phase \in {"truncate", "write"} \/
                              (phase = "release" /\ lock = "collector")
    /\ \A p \in Expirers : job[p].dirty => lock = p \/ pc[p] \in {"reopen", "relock"}

(* Files r counts, those on their way into it and those in the directory   *)
(* are the same number, and have the same size.                            *)
Counts(r, gone) ==
    /\ r.numfiles + Cardinality(DOMAIN booked) = Cardinality(DOMAIN dir) + gone
    /\ Wrap(r.filesize + SumFunction(booked)) = Wrap(SumFunction(dir))

Continues(r) == \A s \in DOMAIN booked : s > r.last

(* A record that will be believed, and that no event named above has made  *)
(* miscount, counts exactly the files in the directory that are not in the *)
(* books, whatever was rotated, expired, listed and written at the time.   *)
StatAccounts ==
    lock = "none" /\ Moved = {} /\ stat.exists /\ ~Verify(stat.rec).rebuild
    /\ stat.rec.exact /\ Continues(stat.rec)
      => Counts(stat.rec, 0)

(* the same of the record an expirer works on while it unlinks files       *)
ExpiryAccounts ==
    \A p \in Expirers :
        pc[p] = "unlink" /\ Moved = {} /\ rec[p].exact /\ ~rec[p].rebuild /\ Continues(rec[p])
          => Counts(rec[p], job[p].expired)

IInv == TypeOK /\ LockHeld /\ ExpiryAccounts

(* Nobody is at work: no do_expire and no nfexpire runs, and no collector  *)
(* is about to end.                                                        *)
Idle ==
    /\ \A p \in Expirers : pc[p] = "idle"
    /\ messages = 0
    /\ phase \in {"down", "run", "moved"}

(* Every run of nfexpire, every do_expire and every shutdown of the        *)
(* collector comes to its end, unless a process has died with the books    *)
(* locked: nobody waits for a lock for ever.  As only so many are started, *)
(* all of them have ended again and again.                                 *)
RunsEnd == []<>(Idle \/ (deaths > 0 /\ ~sem))
===============================================================================
