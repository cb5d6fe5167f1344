--------------------------- MODULE EngineRecovery ---------------------------
(***************************************************************************)
(* The engine with its journals and snapshots: commands are recorded and   *)
(* then applied, events are journaled and then handed on, the process may  *)
(* stop at any point, and a snapshot with the journal behind it brings the *)
(* books back.                                                             *)
(*                                                                         *)
(* A book answers a command as BookAnswers says, in one step; its events   *)
(* leave one at a time.  A journal line is the entry it holds, or <<>> if  *)
(* it does not parse.  Two things the library leaves to its caller are     *)
(* modelled as the tests and the tools do them: a new journal is begun     *)
(* after a snapshot, and a line that does not parse is taken out by hand.  *)
(* What the process has written survives it: power is not lost.            *)
(***************************************************************************)
EXTENDS BookAnswers

CONSTANTS
    Entries,      \* what a caller may send: [sym, cmd], cmd one of Requests
    EngineCfg,    \* the engine's default configuration: [prices, max, index]
    LibraryCfg,   \* DefaultConfig(), used when a snapshot has no header
    Additions,    \* what AddSymbol may be called with: [sym, cfg]
    Exact,        \* integers up to it pass through a float64, 2^53 in the code
    MaxInputs     \* bound: commands, calls of AddSymbol, crashes and failed writes

Symbols == {e.sym : e \in Entries}

\* The symbols of books: those of commands, and what a cut leaves of their digits.
Nameable == UNION {0 .. s : s \in Symbols}

Configs == [prices : SUBSET Int, max : Nat, index : {"Ladder", "Tree"}]

ASSUME EntriesAssumption ==
    Entries \subseteq [sym : Nat, cmd : Requests] /\ IsFiniteSet(Symbols)
ASSUME ConfigAssumption ==
    /\ EngineCfg \in Configs /\ LibraryCfg \in Configs
    /\ \A a \in Additions : a.sym \in Symbols /\ a.cfg \in Configs
ASSUME ExactAssumption == Exact \in Nat
ASSUME MaxInputsAssumption == MaxInputs \in Nat

VARIABLES
    engine,       \* [cfg, books]: the engine; books[s] = [cfg, seq, book]
    pending,      \* the command being submitted: <<>> or <<entry>>
    inflight,     \* the events of the last command that are still to be handed on
    journaled,    \* the first of them is in the event journal
    mode,         \* "Up", "Saved", "Down", "Replaying", "Failed"
    next,         \* the journal line that replay reads next
    cmdlog,       \* the command journal since the last snapshot
    open,         \* its last line has no newline
    snap,         \* the snapshot file: the engine written, and how much of it is there
    evtlog,       \* the event journal: [sym, seq, ev]
    delivered,    \* the events the inner sink has had
    accepted,     \* history: every command applied, or recorded whole before a crash,
                  \* and what an engine that never stopped would have after it
    damaged,      \* history: the symbols whose recovery lacked some of their past
    faults        \* the crashes and failed writes so far

volatile == <<engine, pending, inflight, journaled, next>>
files == <<cmdlog, open, snap>>
history == <<accepted, damaged>>
vars == <<volatile, files, history, mode, evtlog, delivered, faults>>

-----------------------------------------------------------------------------
(* engine.go *)

NewBook(cfg) == [cfg |-> cfg, seq |-> 0, book |-> [side \in Sides |-> <<>>]]
NewEngine(cfg) == [cfg |-> cfg, books |-> [s \in {} |-> NewBook(cfg)]]

\* The symbol's book, made with the engine's configuration on first use.
BookOf(eng, s) == IF s \in DOMAIN eng.books THEN eng.books[s] ELSE NewBook(eng.cfg)
WithBook(eng, s, b) ==
    [eng EXCEPT !.books = [x \in DOMAIN @ \cup {s} |-> IF x = s THEN b ELSE @[x]]]

\* Symbols lists them in ascending order.
FirstOf(syms) == Min(syms)

AnswerOf(b, cmd) == Answer(b.cfg, b.book, cmd)
Served(b, cmd) ==
    LET answer == AnswerOf(b, cmd)
    IN  [b EXCEPT !.book = answer.book, !.seq = @ + Len(answer.out)]

-----------------------------------------------------------------------------
(* History: the books of an engine that never stopped *)

Made(ideal, cmd) ==
    IF cmd.kind = "AddSymbol" THEN [book |-> NewBook(cmd.cfg), out |-> <<>>]
    ELSE [book |-> Served(ideal.book, cmd), out |-> ideal.out \o AnswerOf(ideal.book, cmd).out]

\* What the first n accepted commands have made of s, and the events they caused.
IdealAfter(s, n) ==
    LET mine == {i \in 1 .. n : accepted[i].sym = s}
    IN  IF mine = {} THEN [book |-> NewBook(EngineCfg), out |-> <<>>]
        ELSE accepted[Max(mine)].after

Ideal(s) == IdealAfter(s, Len(accepted))

Accept(s, cmd) ==
    Append(accepted, [sym |-> s, cmd |-> cmd, after |-> Made(Ideal(s), cmd)])

\* A book of s had been in use when AddSymbol put a new one in its place.
Replaced(s) ==
    \E i, j \in 1 .. Len(accepted) :
        /\ i < j /\ accepted[i].sym = s
        /\ accepted[j].sym = s /\ accepted[j].cmd.kind = "AddSymbol"

-----------------------------------------------------------------------------
(* Snapshots: the records of WriteEngine, and what ParseSnapshot makes of them *)

BookRecords(eng, s) ==
    LET orders == All(eng.books[s].book)
    IN  <<[rec |-> "book", sym |-> s, seq |-> eng.books[s].seq]>>
          \o [i \in 1 .. Len(orders) |-> [rec |-> "order", sym |-> s, order |-> orders[i]]]

\* The header, then for every symbol in ascending order its book and its orders.
\* The record of an order does not name its symbol: sym is for the history only.
WriteEngine(eng) ==
    LET books[syms \in SUBSET DOMAIN eng.books] ==
            IF syms = {} THEN <<>>
            ELSE BookRecords(eng, FirstOf(syms)) \o books[syms \ {FirstOf(syms)}]
    IN  <<[rec |-> "meta", cfg |-> eng.cfg]>> \o books[DOMAIN eng.books]

\* torn is what the parser makes of the line that is cut, if any of it is there; taken is
\* history: how many commands had been accepted.
NoSnapshot ==
    [file |-> FALSE, of |-> NewEngine(EngineCfg), kept |-> 0, torn |-> <<>>, taken |-> 0]
Records == WriteEngine(snap.of)

\* What the digits of n can be when one or more are cut off, as it would be in base two:
\* 0 if none is left.
CutOff(n) == {m \in 0 .. n : \E k \in 1 .. (n + 1) : m = n \div 2^k}

\* What the parser can make of a record cut short.  Inside a quoted value getStr
\* panics; before the key that tells its kind it counts as a header with no fields;
\* inside a number the digits that are there count, and every number behind it is 0: a
\* book cut in its symbol is an empty book of another symbol.  Left out are the
\* cuts that leave an order with quantity 0 or a header with some of its fields.
TornAs(r) ==
    {[rec |-> "cut"]} \cup
    CASE r.rec = "meta" -> {[rec |-> "panic"]}
      [] r.rec = "book" -> {[r EXCEPT !.seq = n] : n \in CutOff(r.seq)}
                              \cup {[r EXCEPT !.sym = n, !.seq = 0] : n \in CutOff(r.sym)}
      [] r.rec = "order" -> {[rec |-> "panic"]}
                              \cup {[r EXCEPT !.order.qty = n] : n \in CutOff(r.order.qty) \ {0}}

Panics == snap.torn = <<[rec |-> "panic"]>>

\* The records in the file as they are understood.
Readable == SubSeq(Records, 1, snap.kept) \o IF Panics THEN <<>> ELSE snap.torn

\* pmin, pmax and max_orders are 0; the index kind stays.
ResetConfig(cfg) ==
    [cfg EXCEPT !.max = 0, !.prices = IF cfg.index = "Ladder" THEN {0} ELSE @]

ReadRecord(s, r) ==
    CASE r.rec = "order" -> [s EXCEPT !.books[Len(s.books)].orders = Append(@, r.order)]
      [] r.rec = "book" ->
            [s EXCEPT !.books = Append(@, [sym |-> r.sym, seq |-> r.seq, orders |-> <<>>])]
      [] r.rec = "meta" -> [s EXCEPT !.cfg = r.cfg]
      [] r.rec = "cut" -> [s EXCEPT !.cfg = ResetConfig(@)]

ParseSnapshot ==
    LET parsed[k \in 0 .. Len(Readable)] ==
            IF k = 0 THEN [cfg |-> LibraryCfg, books |-> <<>>]
            ELSE ReadRecord(parsed[k - 1], Readable[k])
    IN  parsed[Len(Readable)]

\* Mutation: the limit is not looked at while orders are put back.
RestorableUnlimited(cfg, orders) == orders

\* Restore puts orders back until max_orders rest.
Restorable(cfg, orders) == SubSeq(orders, 1, Min({cfg.max, Len(orders)}))

PutBack(orders) ==
    LET book[k \in 0 .. Len(orders)] ==
            IF k = 0 THEN [side \in Sides |-> <<>>]
            ELSE Insert(book[k - 1], orders[k])
    IN  book[Len(orders)]

\* Mutation: each order is put back in front of those at its price.
RestoreInFront(cfg, seq, orders) ==
    [cfg |-> cfg, seq |-> seq, book |-> PutBack(Reverse(Restorable(cfg, orders)))]

\* Mutation: the sequence number is not resumed.
RestoreFromZero(cfg, seq, orders) ==
    [cfg |-> cfg, seq |-> 0, book |-> PutBack(Restorable(cfg, orders))]

Restore(cfg, seq, orders) ==
    [cfg |-> cfg, seq |-> seq, book |-> PutBack(Restorable(cfg, orders))]

\* A later record of a symbol takes the place of an earlier one.
RestoreEngine(s) ==
    LET last(x) == s.books[Max({i \in 1 .. Len(s.books) : s.books[i].sym = x})]
    IN  [cfg |-> s.cfg,
         books |-> [x \in {b.sym : b \in ToSet(s.books)} |->
                      Restore(s.cfg, last(x).seq, last(x).orders)]]

\* Mutation: the ladder is built one level short.
OnShortLadder(cfg, price) == price \in cfg.prices /\ price + 1 \in cfg.prices

OnLadder(cfg, price) == price \in cfg.prices

\* A ladder has no level for a price outside its range.
RestorePanics(s) ==
    /\ s.cfg.index = "Ladder"
    /\ \E b \in ToSet(s.books) : \E o \in ToSet(Restorable(s.cfg, b.orders)) :
          ~OnLadder(s.cfg, o.price)

-----------------------------------------------------------------------------
(* A running engine *)

Bounded == Len(accepted) + faults >= MaxInputs
Idle == pending = <<>> /\ inflight = <<>>

\* The journal when bytes of entry e have been appended: all of its line, its line
\* without the newline, a part of it, or nothing.  After an open line they end
\* up on that line, which no longer parses.  at is history: the command's place among
\* the accepted ones.
Appended(e, written) ==
    IF written = "Nothing" THEN cmdlog
    ELSE IF open THEN [cmdlog EXCEPT ![Len(cmdlog)] = <<>>]
    ELSE Append(cmdlog, IF written = "Part" THEN <<>>
                        ELSE <<[sym |-> e.sym, cmd |-> e.cmd, at |-> Len(accepted) + 1]>>)

AddSymbol(s, cfg) ==
    /\ mode = "Up" /\ Idle
    /\ ~Bounded
    /\ engine' = WithBook(engine, s, NewBook(cfg))
    /\ accepted' = IF BookOf(engine, s) = NewBook(cfg) THEN accepted
                   ELSE Accept(s, [kind |-> "AddSymbol", cfg |-> cfg])
    /\ UNCHANGED <<pending, inflight, journaled, next, files, damaged, mode, evtlog,
                   delivered, faults>>

\* Record: an error of the write is ignored.
Record(e, written) ==
    /\ mode = "Up" /\ Idle
    /\ ~Bounded
    /\ written = "All" \/ Len(accepted) + faults + 1 < MaxInputs
    /\ faults' = IF written = "All" THEN faults ELSE faults + 1
    /\ cmdlog' = Appended(e, written)
    /\ open' = IF written = "Nothing" THEN open ELSE written # "All"
    /\ pending' = <<e>>
    /\ accepted' = Accept(e.sym, e.cmd)
    /\ UNCHANGED <<engine, inflight, journaled, next, snap, damaged, mode, evtlog,
                   delivered>>

\* SubmitTagged, in service and in replay.
Submit ==
    /\ pending # <<>>
    /\ LET e == Head(pending)
           b == BookOf(engine, e.sym)
           out == AnswerOf(b, e.cmd).out
       IN  /\ engine' = WithBook(engine, e.sym, Served(b, e.cmd))
           /\ inflight' = [i \in 1 .. Len(out) |->
                             [sym |-> e.sym, seq |-> b.seq + i, ev |-> out[i]]]
    /\ pending' = <<>>
    /\ UNCHANGED <<journaled, next, files, history, mode, evtlog, delivered, faults>>

\* EvtJournal.OnEvent, first half, and JournalEvent.
JournalEvent ==
    /\ inflight # <<>> /\ ~journaled
    /\ evtlog' = evtlog \cup {Head(inflight)}
    /\ journaled' = TRUE
    /\ UNCHANGED <<engine, pending, inflight, next, files, history, mode, delivered,
                   faults>>

\* EvtJournal.OnEvent, second half.
Forward ==
    /\ journaled
    /\ delivered' = delivered \cup {Head(inflight)}
    /\ inflight' = Tail(inflight)
    /\ journaled' = FALSE
    /\ UNCHANGED <<engine, pending, next, files, history, mode, evtlog, faults>>

Snapshot(kept, torn) ==
    [file |-> TRUE, of |-> engine, kept |-> kept, torn |-> torn, taken |-> Len(accepted)]

WriteSnapshot ==
    /\ mode = "Up" /\ Idle
    /\ snap' = Snapshot(Len(WriteEngine(engine)), <<>>)
    /\ mode' = "Saved"
    /\ UNCHANGED <<volatile, cmdlog, open, history, evtlog, delivered, faults>>

\* A new journal for the commands after the snapshot.
BeginJournal ==
    /\ mode = "Saved"
    /\ cmdlog' = <<>> /\ open' = FALSE
    /\ mode' = "Up"
    /\ UNCHANGED <<volatile, snap, history, evtlog, delivered, faults>>

-----------------------------------------------------------------------------
(* Crashes *)

\* The process is gone, with its memory.
Stop ==
    /\ ~Bounded
    /\ faults' = faults + 1
    /\ mode' = "Down"
    /\ engine' = NewEngine(EngineCfg)
    /\ pending' = <<>> /\ inflight' = <<>>
    /\ journaled' = FALSE
    /\ next' = 1
    /\ UNCHANGED <<evtlog, delivered, damaged>>

Crash ==
    /\ mode \in {"Up", "Saved", "Replaying"}
    /\ Stop
    /\ UNCHANGED <<files, accepted>>

\* While the line is written.  The command counts if its line is there.
CrashInRecord(e, written) ==
    /\ mode = "Up" /\ Idle
    /\ Stop
    /\ cmdlog' = Appended(e, written)
    /\ open' = TRUE
    /\ accepted' = IF written = "NoNewline" /\ ~open THEN Accept(e.sym, e.cmd)
                    ELSE accepted
    /\ UNCHANGED snap

\* While the snapshot is written over the one before.
CrashInSnapshot ==
    /\ mode = "Up" /\ Idle
    /\ Stop
    /\ LET recs == WriteEngine(engine)
       IN  \E kept \in 0 .. Len(recs) - 1 :
              \E torn \in {<<>>} \cup {<<r>> : r \in TornAs(recs[kept + 1])} :
                 snap' = Snapshot(kept, torn)
    /\ UNCHANGED <<cmdlog, open, accepted>>

-----------------------------------------------------------------------------
(* matcherrecover *)

\* The line that is cut is read as a book of s.
ReadAsBookOf(s) ==
    \E r \in ToSet(snap.torn) : r.rec = "book" /\ r.sym = s

\* The records of s, if it has any, are all in the file, under a configuration that is
\* read right, and the line that is cut does not take their place.
SnapshotHolds(s) ==
    snap.file =>
        /\ snap.kept > 0 /\ snap.torn # <<[rec |-> "cut"]>>
        /\ \A i \in 1 .. Len(Records) :
              Records[i].rec # "meta" /\ Records[i].sym = s =>
                  i <= snap.kept /\ ~ReadAsBookOf(s)

\* The lines of s among the first n of the journal.
LinesOf(s, n) == {k \in 1 .. n : cmdlog[k] # <<>> /\ Head(cmdlog[k]).sym = s}

\* Nothing of the past of s is missing: the book it had at the snapshot had the engine's
\* configuration, and its commands since then are those of the journal.
Recoverable(s) ==
    /\ SnapshotHolds(s)
    /\ IdealAfter(s, snap.taken).book.cfg = EngineCfg
    /\ {Head(cmdlog[k]).at : k \in LinesOf(s, Len(cmdlog))}
          = {i \in snap.taken + 1 .. Len(accepted) : accepted[i].sym = s}

\* The start: snapshot, or an empty engine if there is none.
Recover ==
    /\ mode = "Down"
    /\ damaged' = damaged \cup {s \in Symbols : ~Recoverable(s)}
    /\ IF Panics \/ RestorePanics(ParseSnapshot)
       THEN mode' = "Failed" /\ UNCHANGED engine
       ELSE /\ mode' = "Replaying"
            /\ engine' = IF snap.file THEN RestoreEngine(ParseSnapshot)
                         ELSE NewEngine(EngineCfg)
    /\ UNCHANGED <<pending, inflight, journaled, next, files, accepted, evtlog, delivered,
                   faults>>

\* The float64 next to n: beyond Exact, on either side of 0 and up to twice as far, the
\* even ones are there, and the tie goes to the one whose half is even.
AsFloat(n) ==
    IF n \in -Exact .. Exact \/ n % 2 = 0 THEN n
    ELSE IF (n \div 2) % 2 = 0 THEN n - 1
    ELSE n + 1

\* vecload.Cmd: every number of the line becomes a float64.
Cmd(e) ==
    [sym |-> e.sym,
     cmd |-> [f \in DOMAIN e.cmd |-> IF f \in {"id", "price", "qty"} THEN AsFloat(e.cmd[f])
                                     ELSE e.cmd[f]]]

\* One round of the loop: a line that does not parse ends the program.
ReplayLine ==
    /\ mode = "Replaying" /\ Idle
    /\ next <= Len(cmdlog)
    /\ next' = next + 1
    /\ IF cmdlog[next] = <<>> THEN mode' = "Failed" /\ UNCHANGED pending
       ELSE pending' = <<Cmd(Head(cmdlog[next]))>> /\ UNCHANGED mode
    /\ UNCHANGED <<engine, inflight, journaled, files, history, evtlog, delivered, faults>>

\* The journal is done: the engine goes on from here.
Resume ==
    /\ mode = "Replaying" /\ Idle
    /\ next > Len(cmdlog)
    /\ mode' = "Up"
    /\ next' = 1
    /\ UNCHANGED <<engine, pending, inflight, journaled, files, history, evtlog, delivered,
                   faults>>

\* The lines that do not parse are taken out by hand.
RepairJournal ==
    /\ mode = "Failed" /\ <<>> \in ToSet(cmdlog)
    /\ cmdlog' = Keep(cmdlog, ToSet(cmdlog) \ {<<>>})
    /\ open' = FALSE
    /\ mode' = "Down"
    /\ engine' = NewEngine(EngineCfg) /\ next' = 1
    /\ UNCHANGED <<pending, inflight, journaled, snap, history, evtlog, delivered, faults>>

\* A snapshot that cannot be read is put away.
DropSnapshot ==
    /\ mode = "Failed" /\ <<>> \notin ToSet(cmdlog)
    /\ snap' = NoSnapshot
    /\ mode' = "Down"
    /\ UNCHANGED <<volatile, cmdlog, open, history, evtlog, delivered, faults>>

-----------------------------------------------------------------------------

Init ==
    /\ engine = NewEngine(EngineCfg)
    /\ pending = <<>> /\ inflight = <<>>
    /\ journaled = FALSE
    /\ mode = "Up"
    /\ next = 1
    /\ cmdlog = <<>> /\ open = FALSE
    /\ snap = NoSnapshot
    /\ evtlog = {} /\ delivered = {}
    /\ accepted = <<>> /\ damaged = {}
    /\ faults = 0

Next ==
    \/ \E a \in Additions : AddSymbol(a.sym, a.cfg)
    \/ \E e \in Entries, written \in {"All", "NoNewline", "Part", "Nothing"} :
          Record(e, written)
    \/ Submit \/ JournalEvent \/ Forward
    \/ WriteSnapshot \/ BeginJournal
    \/ Crash
    \/ \E e \in Entries, written \in {"NoNewline", "Part"} : CrashInRecord(e, written)
    \/ CrashInSnapshot
    \/ Recover \/ ReplayLine \/ Resume
    \/ RepairJournal \/ DropSnapshot

Spec == Init /\ [][Next]_vars

-----------------------------------------------------------------------------
(* Correctness *)

\* Types.  No book, restored or not, holds more than its max_orders.
TypeOK ==
    /\ mode \in {"Up", "Saved", "Down", "Replaying", "Failed"}
    /\ DOMAIN engine.books \subseteq Nameable
    /\ \A s \in DOMAIN engine.books :
          /\ engine.books[s].seq \in Nat
          /\ Len(All(engine.books[s].book)) <= engine.books[s].cfg.max
    /\ next \in 1 .. Len(cmdlog) + 1
    /\ Len(pending) <= 1 /\ (pending # <<>> => inflight = <<>>)
    /\ journaled => inflight # <<>>
    /\ snap.kept \in 0 .. Len(Records) /\ snap.taken \in 0 .. Len(accepted)
    /\ damaged \subseteq Symbols
    /\ faults \in 0 .. MaxInputs

\* An engine in service, however often it was brought back, has the books of one that
\* never stopped: orders, their places in the queues and the sequence number, for
\* every symbol whose past was all read from the snapshot and the journal.  What the
\* others lost makes no difference, but a book of another symbol that is cut in its
\* symbol may be read as one of s, and then the past of s is lost although its own
\* records are whole.
RecoversExactly ==
    mode = "Up" /\ pending = <<>> =>
        \A s \in Symbols \ damaged : BookOf(engine, s) = Ideal(s).book

\* The event journal of such a symbol is the beginning of the stream of that engine, at
\* every moment, in spite of the events that a replay writes a second time; and the sink
\* behind it has had no event that the journal lacks.
PublishedIsStream ==
    /\ delivered \subseteq evtlog
    /\ \A s \in Symbols \ damaged :
          LET mine == {e \in evtlog : e.sym = s}
              stream == Ideal(s).out
          IN  ~Replaced(s) =>
                /\ Cardinality(mine) <= Len(stream)
                /\ mine = {[sym |-> s, seq |-> i, ev |-> stream[i]] :
                               i \in 1 .. Cardinality(mine)}

\* Recovery ends with an error only if a line of the journal does not parse, the snapshot
\* is cut short, or a book had a configuration that is not the one in the snapshot.
FailsOnlyWhenDamaged ==
    mode = "Failed" =>
        \/ <<>> \in ToSet(cmdlog)
        \/ snap.file /\ \/ snap.kept < Len(Records)
                        \/ \E i \in 1 .. Len(accepted) :
                              /\ accepted[i].cmd.kind = "AddSymbol"
                              /\ accepted[i].cmd.cfg # snap.of.cfg

=============================================================================
