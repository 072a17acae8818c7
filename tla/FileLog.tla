------------------------------- MODULE FileLog -------------------------------
(***************************************************************************)
(* A log and its text file: entries come out of the buffer, are written to *)
(* the mapped write cache of the appender and from there to files that     *)
(* roll over, while the disk fills up, writing fails, the configuration is *)
(* changed and the process dies (log_imp.cpp, appender_file_base.cpp,      *)
(* appender_file_text.cpp).                                                *)
(*                                                                         *)
(* One thread does all of it.  Every operation that writes to the disk     *)
(* starts with flush_write_cache, so the moments at which a death matters  *)
(* are between two operations and inside a flush, where the write, the     *)
(* moves in the mapped cache and its cursor are steps.  Recovery is on.    *)
(*                                                                         *)
(* An entry is two units, so that it can be torn; a line that marks a      *)
(* recovery is one unit.                                                   *)
(***************************************************************************)
EXTENDS Naturals, Sequences, FiniteSets, SequencesExt

CONSTANTS
    MaxEntries,   \* bound: entries that are logged
    CacheSize,    \* write_cache_size, in units
    MaxFileSize,  \* max_file_size, in units
    Capacity,     \* capacity_limit, in units
    Plenty,       \* what an empty disk takes in one write, at least
    MaxDeaths, MaxErrors, MaxResets  \* bounds: deaths, I/O errors, calls of reset_config

ASSUME FileAssumption ==
    /\ MaxEntries \in Nat /\ MaxDeaths \in Nat /\ MaxErrors \in Nat /\ MaxResets \in Nat
    /\ CacheSize >= 2 /\ MaxFileSize >= 1 /\ Capacity >= 1
    /\ Plenty >= 2 * MaxEntries + 2

VARIABLES
    app,      \* the appender and its files
    ring,     \* the entries that are in the buffer
    inHand,   \* the first of them has been processed and not been returned
    status,   \* recover_status_
    begun,    \* the appender is in recovery_appenders_
    needBegin,\* recovery_appenders_need_begin_
    alive,    \* there is a process
    space,    \* how much the disk takes in the next write
    entries, deaths, resets   \* counts

vars == <<app, ring, inHand, status, begun, needBegin, alive, space, entries, deaths, resets>>
counts == <<entries, deaths, resets>>

Ids   == 1..MaxEntries
Start == <<0, 1>>    \* the line "[RECOVER_START]", or a piece of it
End   == <<0, 2>>
Entry(e) == <<<<e, 1>>, <<e, 2>>>>
IdsIn(units) == {u[1] : u \in ToSet(units)} \ {0}

(* files: the files there are, by age; the last one may be open.  cache    *)
(* and done: what is in the cache up to cache_write_cursor_, and           *)
(* cache_write_finished_cursor_.  drop: disk_full_drop_.  Histories: given *)
(* is what log_impl has accepted; excused what went with an old file or    *)
(* was in a cache that was given up; torn what a flush wrote over before   *)
(* it was in the file; doubled what was in a cache that was left with old  *)
(* bytes in it.  errors counts the I/O errors.                             *)
Init ==
    /\ app = [files |-> <<>>, open |-> FALSE, cache |-> <<>>, done |-> 0, drop |-> FALSE,
              given |-> {}, excused |-> {}, torn |-> {}, doubled |-> {}, errors |-> 0]
    /\ ring = <<>> /\ inHand = FALSE
    /\ status = "not_started" /\ begun = FALSE /\ needBegin = FALSE
    /\ alive = TRUE /\ space = Plenty
    /\ entries = 0 /\ deaths = 0 /\ resets = 0

------------------------------------------------------------------------------
(* Files.  The operators map a state of the appender to those that may     *)
(* follow.                                                                 *)

Size(file) == Len(file)
Oversize(file) == Size(file) >= MaxFileSize

(* clear_all_limit_files: the oldest go until what is left is below.       *)
Limited(s) ==
    LET total(k) == Len(FlattenSeq(SubSeq(s.files, k + 1, Len(s.files))))
        k == CHOOSE n \in 0..Len(s.files) :
                /\ n = Len(s.files) \/ total(n) < Capacity
                /\ \A m \in 0..(n - 1) : total(m) >= Capacity
    IN  [s EXCEPT !.files = SubSeq(@, k + 1, Len(@)),
                  !.excused = @ \cup IdsIn(FlattenSeq(SubSeq(s.files, 1, k)))]

(* open_new_indexed_file_by_name: whatever is in the cache is given up;    *)
(* the newest file is used again if none was open; a new one may find no   *)
(* room on a full disk, or fail to open.                                   *)
Closed(s) == [s EXCEPT !.open = FALSE, !.cache = <<>>, !.done = 0,
                       !.excused = @ \cup IdsIn(s.cache)]
Opened(s, wasOpen) ==
    LET again == ~wasOpen /\ s.files # <<>> /\ ~Oversize(Last(s.files))
    IN  {[s EXCEPT !.open = TRUE, !.files = IF again THEN @ ELSE Append(@, <<>>)]}
        \cup (IF space = 0 /\ ~again THEN {s} ELSE {})
        \cup (IF s.errors < MaxErrors THEN {[s EXCEPT !.errors = @ + 1]} ELSE {})
OpenNew(s) == UNION {Opened(l, s.open) : l \in {Limited(c) : c \in {Closed(s)}}}

(* n units of the finished ones were written: the rest is copied to the    *)
(* front of the cache, with memcpy, which the builds do as if it were      *)
(* memmove; then the unfinished data, by done and not by n, so over that   *)
(* rest if there is any.                                                   *)
Copied(s, n) == [i \in DOMAIN s.cache |-> IF n + i <= s.done THEN s.cache[n + i] ELSE s.cache[i]]
Moved(s, n) ==
    [i \in DOMAIN s.cache |->
        IF s.done + i <= Len(s.cache) THEN s.cache[s.done + i] ELSE Copied(s, n)[i]]

(* Mutant: what was not written is not moved.                              *)
ShiftedNot(s, n) == SubSeq(s.cache, 1, Len(s.cache) - n)
Shifted(s, n) == SubSeq(Moved(s, n), 1, Len(s.cache) - n)

(* The histories: what the unfinished data is moved over, and that bytes   *)
(* are left behind it which are elsewhere, too.                            *)
Overrun(s, n) ==
    IdsIn(SubSeq(s.cache, n + 1, Min({s.done, n + Len(s.cache) - s.done})))
Overwritten(s, n) ==
    [s EXCEPT !.torn = @ \cup Overrun(s, n),
              !.doubled = @ \cup IF n < s.done /\ s.done < Len(s.cache) THEN IdsIn(s.cache) ELSE {}]

Written(s, n) == [s EXCEPT !.files[Len(s.files)] = @ \o SubSeq(s.cache, 1, n)]
Advanced(s, n) == [Overwritten(s, n) EXCEPT !.cache = Shifted(s, n), !.done = @ - n]
Writes(s) == {n \in 0..s.done : n <= space}

(* Mutant: once the disk was full it stays so.                             *)
ShutForEver(s, n) == s.drop \/ n < s.done
(* disk_full_drop_, behind a flush that wrote n units.                     *)
Shut(s, n) == n < s.done

(* A part is written, and then there is an error.                          *)
Failed(s) ==
    IF s.errors = MaxErrors THEN {}
    ELSE {[Advanced(Written(s, n), n) EXCEPT !.errors = @ + 1] : n \in Writes(s) \ {s.done}}

(* flush_write_cache: all that the disk takes; or less, for another reason *)
(* than a full disk, and then a new file is opened in the place of the one *)
(* that cannot be written.                                                 *)
Flush(s) ==
    LET n == IF s.done <= space THEN s.done ELSE space
    IN  IF ~s.open THEN {s}
        ELSE {[Advanced(w, n) EXCEPT !.drop = Shut(s, n)] : w \in {Written(s, n)}}
             \cup UNION {OpenNew(f) : f \in Failed(s)}

(* What a death inside a flush leaves: behind the write, the first move,   *)
(* the second, the cursor.                                                 *)
CutOff(s, n) ==
    LET w == Written(s, n)
        left == IF n < s.done /\ n > 0 THEN IdsIn(s.cache) ELSE {}
    IN  {w, [w EXCEPT !.cache = Copied(s, n), !.doubled = @ \cup left],
         [Overwritten(w, n) EXCEPT !.cache = Moved(s, n), !.doubled = @ \cup left],
         Advanced(w, n)}
DuringFlush(s) == IF s.open THEN UNION {CutOff(s, n) : n \in Writes(s)} ELSE {s}

(* refresh_file_handle: a new file if there is none, it is full, or a day  *)
(* has passed.                                                             *)
Refresh(s, newDay) ==
    IF s.open /\ ~Oversize(Last(s.files)) /\ ~newDay THEN {s}
    ELSE UNION {OpenNew(f) : f \in Flush(s)}

(* alloc_write_cache and return_write_cache: the cache is flushed if the   *)
(* data does not fit, and grows if that does not help.                     *)
Cache(s, units) ==
    {[f EXCEPT !.cache = @ \o units] :
        f \in IF Len(s.cache) + Len(units) > CacheSize THEN Flush(s) ELSE {s}}
Finished(s) == [s EXCEPT !.done = Len(s.cache)]

(* log_impl: dropped at the door while the disk is full, and when no file  *)
(* can be opened.                                                          *)
Log(s, e, newDay) ==
    IF s.drop THEN {s}
    ELSE UNION {IF ~r.open THEN {r}
                ELSE {[Finished(c) EXCEPT !.given = @ \cup {e}] : c \in Cache(r, Entry(e))} :
                    r \in Refresh(s, newDay)}

RecoveryBegin(s, newDay) ==
    UNION {IF r.open THEN Cache(r, <<Start>>) ELSE {r} :
               r \in UNION {Refresh(f, newDay) : f \in Flush(s)}}
RecoveryEnd(s) == Cache(s, <<End>>)
NewBegin(s, newDay) == UNION {Refresh(f, newDay) : f \in Flush(s)}

------------------------------------------------------------------------------
(* process_log_chunk.  The day is new once: the first look at the clock of *)
(* an entry sets the next one.                                             *)

Arrive ==
    /\ alive /\ entries < MaxEntries
    /\ entries' = entries + 1
    /\ ring' = Append(ring, [id |-> entries + 1, old |-> FALSE])
    /\ UNCHANGED <<app, inHand, status, begun, needBegin, alive, space, deaths, resets>>

HasEntry == alive /\ ~inHand /\ ring # <<>>
Then(s) ==
    /\ app' = s
    /\ inHand' = TRUE
    /\ UNCHANGED <<ring, alive, space, counts>>

Begins == status = "not_started" \/ (needBegin /\ ~begun)
Ends   == status = "in_recovering" /\ begun

(* An entry of an earlier process: the first one has a line in front.      *)
ProcessOld(newDay) ==
    /\ HasEntry /\ Head(ring).old /\ status # "recovered"
    /\ \E b \in IF Begins THEN RecoveryBegin(app, newDay) ELSE {app} :
        LET in == IF Begins THEN b.cache # <<>> /\ Last(b.cache) = Start ELSE begun IN
        /\ begun' = in
        /\ \E s \in IF in THEN Log(b, Head(ring).id, newDay /\ ~Begins) ELSE {b} : Then(s)
    /\ status' = "in_recovering" /\ needBegin' = FALSE

(* The first one of this process ends the recovery.                        *)
ProcessFirst(newDay) ==
    /\ HasEntry /\ ~Head(ring).old /\ status # "recovered"
    /\ \E f \in IF Ends THEN RecoveryEnd(app) ELSE {app} :
       \E b \in NewBegin(f, newDay) : \E s \in Log(b, Head(ring).id, FALSE) : Then(s)
    /\ status' = "recovered" /\ begun' = FALSE /\ needBegin' = FALSE

ProcessNew(newDay) ==
    /\ HasEntry /\ status = "recovered"
    /\ \E s \in Log(app, Head(ring).id, newDay) : Then(s)
    /\ UNCHANGED <<status, begun, needBegin>>

(* The chunk is returned to the buffer.                                    *)
Return ==
    /\ alive /\ inHand
    /\ ring' = Tail(ring) /\ inHand' = FALSE
    /\ UNCHANGED <<app, status, begun, needBegin, alive, space, counts>>

(* flush_appenders_cache at the end of process.  Its loop ends when        *)
(* read_chunk finds nothing, and that may be wrong for a moment.           *)
FlushCaches ==
    /\ alive /\ ~inHand
    /\ app' \in Flush(app)
    /\ UNCHANGED <<ring, inHand, status, begun, needBegin, alive, space, counts>>

DiskChanges ==
    /\ \E n \in {0, 1, Plenty} : n # space /\ space' = n
    /\ UNCHANGED <<app, ring, inHand, status, begun, needBegin, alive, counts>>

------------------------------------------------------------------------------
(* Mutant: the line in front is left out.                                  *)
MarkedSilently(s) == s

(* try_recover and the rest of init_impl: what is finished in the cache    *)
(* goes to its file, between two lines that are written past the cache;    *)
(* what the disk does not take is given up, and then the door of the new   *)
(* appender is shut.  (The second line is the beginning of the first       *)
(* again: it has its text, and the other's length.)                        *)
Marked(s) ==
    IF space = 0 \/ ~s.open THEN s ELSE [s EXCEPT !.files[Len(s.files)] = Append(@, Start)]
Found(s) == [s EXCEPT !.cache = SubSeq(@, 1, s.done), !.open = s.files # <<>>, !.drop = FALSE]
Recovered(s) ==
    IF s.done = 0 \/ s.files = <<>> THEN {Closed(Found(s))}
    ELSE {Closed(IF f.done = 0 THEN Marked(f) ELSE f) :
             f \in UNION {Flush(m) : m \in {Marked(Found(s))}}}

(* reset_config with another type of appender: the old one is flushed and  *)
(* destroyed, a new one takes its name, and so what is left in its cache.  *)
ResetConfig ==
    /\ alive /\ ~inHand /\ resets < MaxResets
    /\ resets' = resets + 1
    /\ \E f \in Flush(app) : app' \in Recovered(f)
    /\ begun' = FALSE
    /\ needBegin' = (needBegin \/ status = "in_recovering")
    /\ UNCHANGED <<ring, inHand, status, alive, space, entries, deaths>>

(* The process dies: cache and buffer are in mapped files.                 *)
Gone(s) ==
    /\ deaths < MaxDeaths /\ deaths' = deaths + 1
    /\ alive' = FALSE
    /\ ring' = [i \in DOMAIN ring |-> [ring[i] EXCEPT !.old = TRUE]]
    /\ app' = [s EXCEPT !.open = FALSE, !.drop = FALSE, !.cache = SubSeq(@, 1, s.done)]
    /\ inHand' = FALSE /\ status' = "not_started" /\ begun' = FALSE /\ needBegin' = FALSE
    /\ UNCHANGED <<space, entries, resets>>

Die == alive /\ Gone(app)

(* What is flushed: at any time the cache as it stands, and in the middle  *)
(* of process_log_chunk with the line that a recovery has just put there.  *)
DieInFlush ==
    /\ alive /\ ~inHand
    /\ \E s \in {app}
               \cup (IF HasEntry /\ Head(ring).old /\ status # "recovered" /\ Begins
                     THEN RecoveryBegin(app, FALSE) ELSE {})
               \cup (IF HasEntry /\ ~Head(ring).old /\ Ends THEN RecoveryEnd(app) ELSE {}) :
        /\ s.open /\ s.done > 0
        /\ \E d \in DuringFlush(s) : Gone(d)

(* As above, in the flush of try_recover.                                  *)
DieInRecovery ==
    /\ ~alive /\ app.done > 0 /\ app.files # <<>>
    /\ \E d \in DuringFlush(Marked(Found(app))) : Gone(d)

Restart ==
    /\ ~alive
    /\ alive' = TRUE
    /\ app' \in Recovered(app)
    /\ UNCHANGED <<ring, inHand, status, begun, needBegin, space, counts>>

------------------------------------------------------------------------------
Process == \E newDay \in BOOLEAN : ProcessOld(newDay) \/ ProcessFirst(newDay) \/ ProcessNew(newDay)
Next ==
    \/ Arrive \/ Process \/ Return \/ FlushCaches \/ DiskChanges
    \/ ResetConfig \/ Die \/ DieInFlush \/ DieInRecovery \/ Restart

(* The worker comes round and writes the caches every now and then.        *)
Fairness == WF_vars(Process) /\ WF_vars(Return) /\ WF_vars(FlushCaches) /\ WF_vars(Restart)
Spec == Init /\ [][Next]_vars /\ Fairness

------------------------------------------------------------------------------
Output(s) == FlattenSeq(s.files) \o s.cache
IsWhole(e, units) ==
    \E i, j \in DOMAIN units : i < j /\ units[i] = <<e, 1>> /\ units[j] = <<e, 2>>

TypeOK ==
    /\ app.done \in 0..Len(app.cache)
    /\ app.open => app.files # <<>>
    /\ status \in {"not_started", "in_recovering", "recovered"}
    /\ inHand => ring # <<>>

(* "Whatever is ALREADY in cache stays there [...] so it eventually lands  *)
(* on disk" (flush_write_cache): an entry that was accepted is in the      *)
(* files or the cache, whole, at every moment and whatever died; unless it *)
(* went with an old file, or was in a cache that was given up: for a new   *)
(* file, in a recovery that could not be written, or as a write failed.    *)
CacheIsKept ==
    \A e \in app.given : IsWhole(e, Output(app)) \/ e \in app.excused

(* The same, but for the entries that are lost although nothing was given  *)
(* up: a flush wrote a part of what was finished while a line of a         *)
(* recovery was not, and moved that line over them.                        *)
NothingAcceptedIsLost ==
    \A e \in app.given : IsWhole(e, Output(app)) \/ e \in app.excused \cup app.torn

(* In a file, from the beginning or the line of a recovery on, entries are *)
(* in their order and none comes twice: where the cursor was not yet moved *)
(* when the process died, or an entry was not yet returned to the buffer,  *)
(* the repetition has a line in front of it.  Excepted are entries that    *)
(* were together in a cache when a part of it had been written and it was  *)
(* left with old bytes behind the new: as the process died between the     *)
(* moves in the cache and that of its cursor, or as in CacheIsKept.        *)
Precedes(u, v) == u[1] < v[1] \/ (u[1] = v[1] /\ u[2] < v[2])
InRuns(units) ==
    \A j \in DOMAIN units : \A i \in 1..(j - 1) :
        /\ units[i][1] # 0 /\ units[j][1] # 0
        /\ ~({units[i][1], units[j][1]} \subseteq app.doubled)
        /\ \A k \in i..j : units[k] # Start
        => Precedes(units[i], units[j])
RepeatedOnlyByRecovery ==
    /\ \A k \in 1..(Len(app.files) - 1) : InRuns(app.files[k])
    /\ alive /\ app.files # <<>> => InRuns(Last(app.files) \o app.cache)

(* Once the disk has room again what is in the cache gets to the files and *)
(* entries are accepted again - but not if a new file was wanted while     *)
(* there was no room for one: then the appender stays shut.                *)
ReachesTheDisk ==
    <>[](space = Plenty) =>
        ((alive /\ app.open /\ (app.done > 0 \/ app.drop))
            ~> ((app.done = 0 /\ ~app.drop) \/ ~app.open \/ ~alive))

(* "clear: a flush completed cleanly AND drained the entire pending        *)
(* payload. log_impl resumes accepting new entries" (flush_write_cache),   *)
(* and "lift fault, write N more" (test_disk_full.h): the door is open     *)
(* again, once the disk has room.                                          *)
DoorReopens ==
    <>[](space = Plenty) =>
        ((alive /\ status = "recovered" /\ app.drop) ~> (~app.drop \/ ~alive))
==============================================================================
