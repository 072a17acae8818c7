----------------------------- MODULE CompressedLog -----------------------------
(***************************************************************************)
(* The compressed appender and its decoder: an entry names its template    *)
(* (level, category, format) and its thread by indices into what was       *)
(* written into the file before, and its time by the distance to the last  *)
(* one (appender_file_compressed.cpp, appender_decoder_compressed.cpp).    *)
(*                                                                         *)
(* The writer forgets indices (its caches are bounded), loses them all     *)
(* when it dies, and reads them again from the file it goes on with.  A    *)
(* template has no index in the file: it is the number of those before.    *)
(*                                                                         *)
(* Items are written and lost as a whole, and a file can always be opened  *)
(* and written (FileLog has the failures).  Segment heads, framing only,   *)
(* are left out.                                                           *)
(***************************************************************************)
EXTENDS BoundedHashCache, Integers

CONSTANTS
    Formats, Threads,
    Calls,         \* bound: who logs what, <<format, thread>>
    Times,         \* bound: the times of the entries, one after the other
    ShortFormats,  \* those whose entries have no arguments: five bytes in the file
    FormatMax, ThreadMax,   \* the limits of the two caches
    OtherMax,      \* bound: what reset_config may make of both
    MaxDeaths, MaxFiles,    \* bounds
    None

\* What the constants must be.
CompressedConstants ==
    /\ Hash \in [Formats \cup Threads -> Nat] /\ Times \in Seq(Nat)
    /\ Calls \subseteq Formats \X Threads
    /\ MinCapacity \in Nat \ {0, 1} /\ MaxSize >= MinCapacity
    /\ {FormatMax, ThreadMax, OtherMax} \subseteq Nat
    /\ MaxDeaths \in Nat /\ MaxFiles \in Nat \ {0}

VARIABLES
    files,   \* the files, by age: their items and what befell them
    cache,   \* the items that are in the mapped write cache
    writer,  \* what the appender keeps in memory
    alive,
    cut,     \* the process died between the write and the move of the cursor
    count, deaths   \* counts: entries and deaths

vars == <<files, cache, writer, alive, cut, count, deaths>>

(* Mutant: the places in front of the caches are not emptied.              *)
ResetHalf(w) == [w EXCEPT
    !.fmtL2 = Cleared(@.max), !.thrL2 = Cleared(@.max),
    !.fmtNext = 0, !.thrNext = 0, !.epoch = 0]

(* format_l1_ and thread_l1_ with one place each, last_thread_id_ and      *)
(* last_thread_info_idx_, the two L2 caches, the next indices, and         *)
(* last_log_entry_epoch_.                                                  *)
Reset(w) == [w EXCEPT
    !.fmtL1 = None, !.thrL1 = None, !.last = None,
    !.fmtL2 = Cleared(@.max), !.thrL2 = Cleared(@.max),
    !.fmtNext = 0, !.thrNext = 0, !.epoch = 0]
NewWriter == [open |-> FALSE, fmtL1 |-> None, thrL1 |-> None, last |-> None,
              fmtL2 |-> Cleared(Normalized(FormatMax)), thrL2 |-> Cleared(Normalized(ThreadMax)),
              fmtNext |-> 0, thrNext |-> 0, epoch |-> 0]

NewFile == [items |-> <<>>, skewed |-> FALSE]

Init ==
    /\ files = <<>> /\ cache = <<>> /\ writer = NewWriter
    /\ alive = TRUE /\ cut = FALSE /\ count = 0 /\ deaths = 0

------------------------------------------------------------------------------
(* What the appender reads from a file it goes on with.                    *)

(* Mutant: templates are not counted when they are read.                   *)
ParsedUncounted(w, item) ==
    CASE item.kind = "format" -> [w EXCEPT !.fmtL2 = Stored(@, item.format, w.fmtNext)]
      [] item.kind = "thread" -> w
      [] item.kind = "entry"  -> [w EXCEPT !.epoch = @ + item.offset]

(* parse_formate_template, parse_thread_info_template (which keeps         *)
(* nothing: the writer begins again with index 0) and parse_log_entry.     *)
Parsed(w, item) ==
    CASE item.kind = "format" -> [w EXCEPT !.fmtL2 = Stored(@, item.format, w.fmtNext),
                                           !.fmtNext = @ + 1]
      [] item.kind = "thread" -> w
      [] item.kind = "entry"  -> [w EXCEPT !.epoch = @ + item.offset]

(* The loop of parse_exist_log_file ends as soon as a read met the end of  *)
(* the file: an entry of five bytes at the end is read and not parsed.     *)
Skipped(items) == items # <<>> /\ Last(items).kind = "entry" /\ Last(items).short
Reread(w, items) ==
    FoldLeft(Parsed, Reset(w), IF Skipped(items) THEN Front(items) ELSE items)

------------------------------------------------------------------------------
(* log_impl *)

(* An index comes from the first cache, from the second, or is a new one.  *)
Lookup(l1, l2, next, key) ==
    IF l1 # None /\ l1[1] = key THEN [idx |-> l1[2], l2 |-> l2, new |-> FALSE]
    ELSE IF Has(l2, key) THEN [idx |-> Value(l2, key), l2 |-> l2, new |-> FALSE]
    ELSE [idx |-> next, l2 |-> Inserted(l2, key, next), new |-> TRUE]

One(new) == IF new THEN 1 ELSE 0

TemplateItem(f, format) ==
    IF f.new THEN <<[kind |-> "format", format |-> format]>> ELSE <<>>
ThreadItem(t, thread) ==
    IF t.new THEN <<[kind |-> "thread", idx |-> t.idx, thread |-> thread]>> ELSE <<>>
EntryItem(w, e, f, t) ==
    <<[kind |-> "entry", offset |-> e.time - w.epoch, format |-> f.idx, thread |-> t.idx,
       short |-> e.format \in ShortFormats, of |-> e, late |-> FALSE]>>

(* What is put into the cache, and the writer behind it.                   *)
Encoded(w, e) ==
    LET f == Lookup(w.fmtL1, w.fmtL2, w.fmtNext, e.format)
        same == w.last # None /\ w.last[1] = e.thread
        t == IF same THEN [idx |-> w.last[2], l2 |-> w.thrL2, new |-> FALSE]
             ELSE Lookup(w.thrL1, w.thrL2, w.thrNext, e.thread)
    IN  [items |-> TemplateItem(f, e.format) \o ThreadItem(t, e.thread) \o EntryItem(w, e, f, t),
         writer |-> [w EXCEPT
            !.fmtL1 = <<e.format, f.idx>>, !.fmtL2 = f.l2, !.fmtNext = @ + One(f.new),
            !.thrL1 = IF same THEN @ ELSE <<e.thread, t.idx>>, !.thrL2 = t.l2,
            !.thrNext = @ + One(t.new), !.last = <<e.thread, t.idx>>, !.epoch = e.time]]

Flushed == [files EXCEPT ![Len(files)].items = @ \o cache]

Write(fs, c, w) ==
    /\ count < Len(Times) /\ count' = count + 1
    /\ \E call \in Calls :
        LET done == Encoded(w, [format |-> call[1], thread |-> call[2], time |-> Times[count + 1]])
        IN  /\ cache' = c \o done.items
            /\ writer' = [done.writer EXCEPT !.open = TRUE]
    /\ files' = fs
    /\ UNCHANGED <<alive, cut, deaths>>

(* A file is open and has room, and it is the same day.                    *)
Log == alive /\ writer.open /\ Write(files, cache, writer)

(* refresh_file_handle finds it full, or the day over: a new file.         *)
Roll ==
    /\ alive /\ writer.open /\ Len(files) < MaxFiles
    /\ Write(Append(Flushed, NewFile), <<>>, Reset(writer))

(* The first entry of a process goes to the newest file there is if that   *)
(* can be read: it was written under the same categories and time zone.    *)
Continue ==
    /\ alive /\ ~writer.open /\ files # <<>>
    /\ LET items == Last(files).items
       IN  Write([files EXCEPT ![Len(files)].skewed = @ \/ (Skipped(items) /\ Last(items).offset # 0)],
                <<>>, Reread(writer, items))

Begin ==
    /\ alive /\ ~writer.open /\ Len(files) < MaxFiles
    /\ Write(Append(files, NewFile), <<>>, Reset(writer))

Flush ==
    /\ alive /\ writer.open /\ cache # <<>>
    /\ files' = Flushed /\ cache' = <<>>
    /\ UNCHANGED <<writer, alive, cut, count, deaths>>

(* reset_impl with other limits for the caches, and back again.            *)
Reconfigure ==
    /\ alive
    /\ \E limits \in {<<FormatMax, ThreadMax>>, <<OtherMax, OtherMax>>} :
        writer' = [writer EXCEPT !.fmtL2 = WithMax(@, limits[1]), !.thrL2 = WithMax(@, limits[2])]
    /\ UNCHANGED <<files, cache, alive, cut, count, deaths>>

------------------------------------------------------------------------------
(* The process dies; what was in the cache stays there.  What a flush has  *)
(* written before the cursor was moved will be written again.              *)
Die(between) ==
    /\ alive /\ deaths < MaxDeaths /\ deaths' = deaths + 1
    /\ between => writer.open /\ cache # <<>>
    /\ files' = IF between THEN Flushed ELSE files
    /\ alive' = FALSE /\ cut' = between
    /\ UNCHANGED <<cache, writer, count>>

(* The next process: try_recover writes the cache to its file.             *)
Late(item) == IF item.kind = "entry" /\ cut THEN [item EXCEPT !.late = TRUE] ELSE item
Restart ==
    /\ ~alive /\ alive' = TRUE /\ cut' = FALSE
    /\ files' = IF cache = <<>> THEN files
                ELSE [files EXCEPT ![Len(files)].items =
                        @ \o [i \in DOMAIN cache |-> Late(cache[i])]]
    /\ cache' = <<>> /\ writer' = NewWriter
    /\ UNCHANGED <<count, deaths>>

Next == Log \/ Roll \/ Continue \/ Begin \/ Flush \/ Reconfigure
            \/ (\E between \in BOOLEAN : Die(between)) \/ Restart
Spec == Init /\ [][Next]_vars

------------------------------------------------------------------------------
(* The decoder: templates by number, threads by index.                     *)

Template(d, item) == [d EXCEPT !.formats = Append(@, item.format)]
ThreadInfo(d, item) ==
    [d EXCEPT !.threads = [i \in DOMAIN @ \cup {item.idx} |->
                                IF i = item.idx THEN item.thread ELSE @[i]]]
(* parse_log_entry fails on an index that it does not know.                *)
Entry(d, item) ==
    IF item.format >= Len(d.formats) \/ item.thread \notin DOMAIN d.threads
    THEN [d EXCEPT !.ok = FALSE]
    ELSE [d EXCEPT !.epoch = @ + item.offset,
                   !.entries = Append(@, [format |-> d.formats[item.format + 1],
                                          thread |-> d.threads[item.thread],
                                          time |-> d.epoch + item.offset])]
Step(d, item) ==
    CASE ~d.ok -> d
      [] d.ok /\ item.kind = "format" -> Template(d, item)
      [] d.ok /\ item.kind = "thread" -> ThreadInfo(d, item)
      [] d.ok /\ item.kind = "entry" -> Entry(d, item)
Decode(items) ==
    FoldLeft(Step, [formats |-> <<>>, threads |-> <<>>, epoch |-> 0, entries |-> <<>>, ok |-> TRUE], items)

------------------------------------------------------------------------------
Items(k) == files[k].items \o (IF k = Len(files) /\ ~cut THEN cache ELSE <<>>)

(* Whatever the writer forgot, read again or lost, the decoder gets from   *)
(* every file the entries that were logged into it, with their format,     *)
(* thread and time.  The times are off in what a death between a write and *)
(* the move of the cursor made come twice, and in a file that was gone on  *)
(* with though its last entry was too short to be seen.                    *)
DecodedIsLogged ==
    \A k \in DOMAIN files :
        LET d == Decode(Items(k))
            logged == SelectSeq(Items(k), LAMBDA i : i.kind = "entry")
        IN  /\ d.ok
            /\ \A n \in DOMAIN logged :
                /\ d.entries[n].format = logged[n].of.format
                /\ d.entries[n].thread = logged[n].of.thread
                /\ d.entries[n].time = logged[n].of.time \/ logged[n].late \/ files[k].skewed

(* An index that the writer still knows means to the decoder what it means *)
(* to the writer, at the place where the next entry will be.               *)
WriterKnowsTheReader ==
    alive /\ writer.open =>
        LET d == Decode(Items(Len(files)))
            known(l1, l2) == Held(l2) \cup (IF l1 = None THEN {} ELSE {l1})
        IN  /\ d.ok /\ Len(d.formats) = writer.fmtNext
            /\ \A e \in known(writer.fmtL1, writer.fmtL2) : d.formats[e[2] + 1] = e[1]
            /\ \A e \in known(writer.thrL1, writer.thrL2) \cup known(writer.last, Cleared(1)) :
                    d.threads[e[2]] = e[1]
==============================================================================
