------------------------- MODULE EngineRecoveryProofs -------------------------
(***************************************************************************)
(* Recovery brings back the books of an engine that never stopped, and the *)
(* event journal is the beginning of that engine's stream.                 *)
(*                                                                         *)
(* The invariant says of every symbol how far the engine has come in the   *)
(* history of what it accepted.  While a journal is replayed that is the   *)
(* last of its lines that replay has read; what makes the engine's book    *)
(* the one the history has at that place is that Answer is a function of   *)
(* the book and the command, that the snapshot lists the orders so that    *)
(* putting them back in that order gives the same queues, and that the     *)
(* lines behind the snapshot are the symbol's commands, in their order.    *)
(* The cut line of a snapshot is followed into the parser: it disturbs the *)
(* book it belongs to, or one that it is mistaken for, and no other.       *)
(***************************************************************************)
EXTENDS EngineRecovery, BookAnswersProofs

-----------------------------------------------------------------------------
(* Books and engines *)

BookForm == [cfg : Configs, seq : Nat, book : [Sides -> Seq(Orders(Int))]]

\* A book in order, within its limit, and on a ladder within its prices.
GoodBook(b) ==
    /\ b \in BookForm
    /\ BookOK(Int, b.book) /\ Total(b.book) <= b.cfg.max
    /\ b.cfg.index = "Ladder" => BookOK(b.cfg.prices, b.book)

GoodEngine(eng) ==
    /\ eng \in [cfg : Configs, books : [DOMAIN eng.books -> BookForm]]
    /\ DOMAIN eng.books \subseteq Nameable
    /\ \A s \in DOMAIN eng.books : GoodBook(eng.books[s])

-----------------------------------------------------------------------------
(* The history acc of what was accepted *)

\* IdealAfter, Replaced and OwnConfig of a given history.
IdealIn(acc, s, n) ==
    LET mine == {i \in 1 .. n : acc[i].sym = s}
    IN  IF mine = {} THEN [book |-> NewBook(EngineCfg), out |-> <<>>]
        ELSE acc[Max(mine)].after
ReplacedIn(acc, s) ==
    \E i, j \in 1 .. Len(acc) :
        i < j /\ acc[i].sym = s /\ acc[j].sym = s /\ acc[j].cmd.kind = "AddSymbol"
OwnConfig(acc, cfg) ==
    \E i \in 1 .. Len(acc) : acc[i].cmd.kind = "AddSymbol" /\ acc[i].cmd.cfg = cfg

IdealGood(x) == GoodBook(x.book) /\ IsSeq(x.out) /\ x.book.seq = Len(x.out)

\* What an engine may be told.
Told(cmd) == cmd \in Requests \/ (cmd.kind = "AddSymbol" /\ cmd.cfg \in Configs)

HistoryOK(acc) ==
    /\ IsSeq(acc)
    /\ \A i \in 1 .. Len(acc) :
          /\ acc[i].sym \in Symbols /\ Told(acc[i].cmd)
          /\ acc[i].after = Made(IdealIn(acc, acc[i].sym, i - 1), acc[i].cmd)
          /\ IdealGood(acc[i].after)

\* p is the beginning of q.
Before(p, q) == Len(p) <= Len(q) /\ \A k \in 1 .. Len(p) : p[k] = q[k]

StreamsOK(acc) ==
    \A i, j \in 1 .. Len(acc) :
        i < j /\ acc[i].sym = acc[j].sym /\ ~ReplacedIn(acc, acc[i].sym)
            => Before(acc[i].after.out, acc[j].after.out)

\* The lines that parse are commands of the history, in its order.
Line(log, k) == Head(log[k])
LogOK(log, acc) ==
    /\ IsSeq(log)
    /\ \A k \in 1 .. Len(log) : log[k] # <<>> =>
          /\ log[k] = <<Line(log, k)>>
          /\ [sym |-> Line(log, k).sym, cmd |-> Line(log, k).cmd] \in Entries
          /\ Line(log, k).at \in 1 .. Len(acc)
          /\ acc[Line(log, k).at].sym = Line(log, k).sym
          /\ acc[Line(log, k).at].cmd = Line(log, k).cmd
    /\ \A j, k \in 1 .. Len(log) :
          j < k /\ log[j] # <<>> /\ log[k] # <<>> => Line(log, j).at < Line(log, k).at

-----------------------------------------------------------------------------
(* The invariant *)

Running == mode \in {"Up", "Saved", "Replaying"}

\* The books that have not the engine's configuration were made by AddSymbol.
Configured(eng) ==
    \A s \in DOMAIN eng.books :
        eng.books[s].cfg = eng.cfg \/ OwnConfig(accepted, eng.books[s].cfg)

EngineOK ==
    /\ GoodEngine(engine) /\ Configured(engine)
    /\ pending # <<>> => /\ pending = <<Head(pending)>>
                         /\ Head(pending) \in [sym : Symbols, cmd : Requests]
    /\ IsSeq(inflight) /\ journaled \in BOOLEAN
    /\ pending # <<>> => inflight = <<>>
    /\ journaled => inflight # <<>> /\ Head(inflight) \in evtlog
    /\ \A i, j \in 1 .. Len(inflight) : inflight[i].sym = inflight[j].sym
    /\ delivered \subseteq evtlog

ControlOK ==
    /\ mode \in {"Up", "Saved", "Down", "Replaying", "Failed"}
    /\ mode \in {"Saved", "Down", "Failed"} => Idle
    /\ mode \in {"Up", "Saved", "Down"} => next = 1
    /\ mode = "Failed" /\ <<>> \notin ToSet(cmdlog) => next = 1
    /\ next \in 1 .. Len(cmdlog) + 1
    /\ damaged \subseteq Symbols /\ faults \in 0 .. MaxInputs

\* What is there of the line behind the first kept, if anything, is what the parser can make
\* of it.
TornOf(recs, kept, torn) ==
    \/ torn = <<>>
    \/ kept < Len(recs) /\ \E r \in TornAs(recs[kept + 1]) : torn = <<r>>

SnapOK ==
    /\ GoodEngine(snap.of) /\ Configured(snap.of)
    /\ snap.kept \in 0 .. Len(Records) /\ snap.taken \in 0 .. Len(accepted)
    /\ TornOf(Records, snap.kept, snap.torn)
    /\ snap.file \in BOOLEAN /\ (~snap.file => snap = NoSnapshot)

FilesOK == HistoryOK(accepted) /\ StreamsOK(accepted) /\ LogOK(cmdlog, accepted) /\ SnapOK

\* What holds whatever was lost.
Sound == EngineOK /\ ControlOK /\ FilesOK /\ FailsOnlyWhenDamaged

\* The engine has come to place r of the history as far as s is concerned.
Progress(s, r) ==
    /\ snap.taken <= r
    /\ mode \in {"Up", "Saved"} => r = Len(accepted)
    /\ mode = "Replaying" =>
          \A k \in LinesOf(s, Len(cmdlog)) : k < next <=> Line(cmdlog, k).at <= r

\* Its book is the one of that place, or of the place before if the command is pending.
InStep(s, r) ==
    IF pending # <<>> /\ Head(pending).sym = s
    THEN /\ r > 0 /\ accepted[r].sym = s /\ accepted[r].cmd = Head(pending).cmd
         /\ BookOf(engine, s) = IdealIn(accepted, s, r - 1).book
    ELSE BookOf(engine, s) = IdealIn(accepted, s, r).book

LinesAre(s, set) == {Line(cmdlog, k).at : k \in LinesOf(s, Len(cmdlog))} = set
SinceSnapshot(s) == {i \in snap.taken + 1 .. Len(accepted) : accepted[i].sym = s}

\* What the snapshot has of s, and what the engine in service has.
AtSnapshot(s) ==
    snap.of.cfg = EngineCfg /\ BookOf(snap.of, s) = IdealIn(accepted, s, snap.taken).book
InService(s) ==
    engine.cfg = EngineCfg /\ \E r \in 0 .. Len(accepted) : Progress(s, r) /\ InStep(s, r)

Exactly(s) ==
    /\ AtSnapshot(s)
    /\ mode = "Replaying" => LinesAre(s, SinceSnapshot(s))
    /\ Running => InService(s)

\* The journaled events of s, and the first n of the stream.
Mine(s) == {e \in evtlog : e.sym = s}
Numbered(s, out, n) == {[sym |-> s, seq |-> i, ev |-> out[i]] : i \in 1 .. n}
Stream(s) == IdealIn(accepted, s, Len(accepted)).out

\* The first n have been journaled; those in flight follow in the stream, the first of
\* them no later than n.
Flying(s) == inflight # <<>> /\ Head(inflight).sym = s
Follows(s, n) ==
    IF Flying(s)
    THEN LET first == BookOf(engine, s).seq - Len(inflight)
         IN  /\ first >= 0 /\ BookOf(engine, s).seq <= Len(Stream(s))
             /\ first + (IF journaled THEN 1 ELSE 0) <= n
             /\ \A i \in 1 .. Len(inflight) :
                   inflight[i] = [sym |-> s, seq |-> first + i, ev |-> Stream(s)[first + i]]
    ELSE BookOf(engine, s).seq <= n
JournaledTo(s, n) ==
    /\ Mine(s) = Numbered(s, Stream(s), n)
    /\ IdealIn(accepted, s, snap.taken).book.seq <= n
    /\ Running => Follows(s, n)

Streamed(s) == ~ReplacedIn(accepted, s) => \E n \in 0 .. Len(Stream(s)) : JournaledTo(s, n)

IInv == Sound /\ \A s \in Symbols \ damaged : Exactly(s) /\ Streamed(s)


-----------------------------------------------------------------------------
(* Books and engines *)

\* A book without orders is good.
LEMMA NewBookGood ==
    ASSUME NEW cfg \in Configs
    PROVE  GoodBook(NewBook(cfg)) /\ All(NewBook(cfg).book) = <<>>
<1> DEFINE b == [side \in Sides |-> <<>>]
<1>1. /\ b["Bid"] = <<>> /\ b["Ask"] = <<>> /\ "Bid" \in Sides /\ "Ask" \in Sides
      /\ \A s \in Sides : b[s] = <<>> /\ Len(b[s]) = 0
  BY DEF Sides
<1>2. \A P : b \in [Sides -> Seq(Orders(P))]
  OBVIOUS
<1>3. OneEach(b)
  BY <1>1 DEF OneEach
<1>4. \A P : \A s \in Sides : Queue(P, s, b[s])
  <2> TAKE P
  <2> TAKE s \in Sides
  <2>1. b[s] \in Seq(Orders(P)) /\ 1 .. Len(b[s]) = {}
    BY <1>1, <1>2
  <2>. QED BY <2>1 DEF Queue
<1>5. All(b) = <<>> /\ Total(b) = 0
  BY <1>1 DEF All, Total
<1>6. NewBook(cfg) = [cfg |-> cfg, seq |-> 0, book |-> b]
  BY DEF NewBook
<1> HIDE DEF b
<1>7. \A P : BookOK(P, b)
  BY <1>2, <1>3, <1>4 DEF BookOK
<1>8. cfg.max \in Nat
  BY DEF Configs
<1>9. NewBook(cfg) \in BookForm
  BY <1>2, <1>6 DEF BookForm
<1>10. NewBook(cfg).cfg = cfg /\ NewBook(cfg).book = b
  BY <1>6
<1>11. Total(b) <= cfg.max
  BY <1>5, <1>8
<1>. QED BY <1>5, <1>7, <1>9, <1>10, <1>11 DEF GoodBook

\* The fields of a good engine.
LEMMA EngineFields ==
    ASSUME NEW eng, GoodEngine(eng)
    PROVE  /\ eng.cfg \in Configs /\ DOMAIN eng.books \subseteq Nameable
           /\ eng.books \in [DOMAIN eng.books -> BookForm]
           /\ \A s \in DOMAIN eng.books : GoodBook(eng.books[s])
           /\ eng = [cfg |-> eng.cfg, books |-> eng.books]
BY DEF GoodEngine

\* An engine put together.
LEMMA EngineMade ==
    ASSUME NEW cfg \in Configs, NEW D, D \subseteq Nameable, NEW f, f = [s \in D |-> f[s]],
           \A s \in D : GoodBook(f[s])
    PROVE  GoodEngine([cfg |-> cfg, books |-> f])
<1> DEFINE e == [cfg |-> cfg, books |-> f]
<1>1. DOMAIN f = D
  OBVIOUS
<1>2. f \in [D -> BookForm]
  BY DEF GoodBook
<1>3. e.cfg = cfg /\ e.books = f /\ e \in [cfg : Configs, books : [D -> BookForm]]
  BY <1>2
<1> HIDE DEF e
<1>4. GoodEngine(e)
  BY <1>1, <1>3 DEF GoodEngine
<1>. QED BY <1>4 DEF e

\* A new engine is good.
LEMMA NewEngineGood ==
    ASSUME NEW cfg \in Configs
    PROVE  /\ GoodEngine(NewEngine(cfg)) /\ NewEngine(cfg).cfg = cfg
           /\ DOMAIN NewEngine(cfg).books = {}
           /\ \A s : BookOf(NewEngine(cfg), s) = NewBook(cfg)
<1> DEFINE f == [s \in {} |-> NewBook(cfg)]
<1>1. NewEngine(cfg) = [cfg |-> cfg, books |-> f]
  BY DEF NewEngine
<1>2. f = [s \in {} |-> f[s]] /\ DOMAIN f = {}
  OBVIOUS
<1> HIDE DEF f
<1>3. GoodEngine([cfg |-> cfg, books |-> f])
  <2>1. {} \subseteq Nameable /\ \A s \in {} : GoodBook(f[s])
    OBVIOUS
  <2>. QED BY <1>2, <2>1, EngineMade
<1>4. NewEngine(cfg).cfg = cfg /\ NewEngine(cfg).books = f
  BY <1>1
<1>. QED BY <1>1, <1>2, <1>3, <1>4 DEF BookOf

\* So is the book of any symbol.
LEMMA BookOfGood ==
    ASSUME NEW eng, GoodEngine(eng), NEW s
    PROVE  GoodBook(BookOf(eng, s))
BY EngineFields, NewBookGood DEF BookOf

\* Symbols are numbers, and there are finitely many that a book can have.
LEMMA SymbolFacts ==
    /\ Symbols \subseteq Nameable /\ Nameable \subseteq Nat /\ IsFiniteSet(Nameable)
    /\ \A s \in Nameable : 0 .. s \subseteq Nameable
<1> DEFINE f == [s \in Symbols |-> 0 .. s]
           R == {f[s] : s \in Symbols}
<1>1. Symbols \subseteq Nat /\ IsFiniteSet(Symbols)
  BY EntriesAssumption DEF Symbols
<1>2. Nameable = UNION R
  BY DEF Nameable
<1>3. \A s \in Symbols : s \in 0 .. s /\ 0 .. s \in R /\ 0 .. s \subseteq Nat
  BY <1>1
<1>4. Symbols \subseteq Nameable /\ Nameable \subseteq Nat
  BY <1>2, <1>3
<1>5. ASSUME NEW s \in Nameable PROVE 0 .. s \subseteq Nameable
  <2>1. PICK x \in Symbols : s \in 0 .. x
    BY DEF Nameable
  <2>2. 0 .. s \subseteq 0 .. x
    BY <1>1, <2>1
  <2>. QED BY <1>2, <1>3, <2>2
<1>6. IsFiniteSet(Nameable)
  <2>1. ASSUME NEW r \in R PROVE IsFiniteSet(r)
    <3>1. PICK s \in Symbols : r = 0 .. s
      OBVIOUS
    <3>. QED BY <1>1, <3>1, FS_Interval
  <2>2. IsFiniteSet(R)
    <3>1. f \in [Symbols -> R] /\ \A r \in R : \E s \in Symbols : f[s] = r
      OBVIOUS
    <3> HIDE DEF f, R
    <3>2. f \in Surjection(Symbols, R)
      BY <3>1 DEF Surjection
    <3>. QED BY <1>1, <3>2, FS_Surjection
  <2> HIDE DEF R
  <2>. QED BY <1>2, <2>1, <2>2, FS_UNION
<1>. QED BY <1>4, <1>5, <1>6

\* Putting one book in leaves the others.
LEMMA WithBookFacts ==
    ASSUME NEW eng, GoodEngine(eng), NEW s \in Symbols, NEW b, GoodBook(b)
    PROVE  /\ GoodEngine(WithBook(eng, s, b)) /\ WithBook(eng, s, b).cfg = eng.cfg
           /\ DOMAIN WithBook(eng, s, b).books = DOMAIN eng.books \cup {s}
           /\ BookOf(WithBook(eng, s, b), s) = b
           /\ \A x : x # s => BookOf(WithBook(eng, s, b), x) = BookOf(eng, x)
<1> DEFINE D == DOMAIN eng.books
           E == D \cup {s}
           f == [x \in E |-> IF x = s THEN b ELSE eng.books[x]]
<1>1. eng.cfg \in Configs /\ D \subseteq Nameable /\ eng = [cfg |-> eng.cfg, books |-> eng.books]
      /\ \A x \in D : GoodBook(eng.books[x])
  BY EngineFields
<1>2. WithBook(eng, s, b) = [cfg |-> eng.cfg, books |-> f]
  <2>1. WithBook(eng, s, b) = [eng EXCEPT !.books = f]
    BY DEF WithBook
  <2> DEFINE c == eng.cfg
             g == eng.books
  <2>2. eng = [cfg |-> c, books |-> g]
    BY <1>1
  <2> HIDE DEF c, g, f
  <2>3. [eng EXCEPT !.books = f] = [cfg |-> c, books |-> f]
    BY <2>2
  <2>. QED BY <2>1, <2>3 DEF c
<1>3. f = [x \in E |-> f[x]] /\ DOMAIN f = E /\ f[s] = b
      /\ \A x \in D : x # s => f[x] = eng.books[x]
  OBVIOUS
<1>4. \A x \in E : GoodBook(f[x])
  BY <1>1
<1>5. E \subseteq Nameable
  BY <1>1, SymbolFacts
<1>6. E = D \cup {s} /\ s \in E
  OBVIOUS
<1> HIDE DEF f, E
<1>7. GoodEngine([cfg |-> eng.cfg, books |-> f])
  BY <1>1, <1>3, <1>4, <1>5, EngineMade
<1>8. WithBook(eng, s, b).cfg = eng.cfg /\ WithBook(eng, s, b).books = f
  BY <1>2
<1>9. GoodEngine(WithBook(eng, s, b))
  BY <1>2, <1>7
<1>10. BookOf(WithBook(eng, s, b), s) = b
  BY <1>3, <1>6, <1>8 DEF BookOf
<1>11. ASSUME NEW x, x # s PROVE BookOf(WithBook(eng, s, b), x) = BookOf(eng, x)
  <2>1. x \in E <=> x \in D
    BY <1>6, <1>11
  <2>. QED BY <1>3, <1>8, <1>11, <2>1 DEF BookOf
<1>. QED BY <1>3, <1>6, <1>8, <1>9, <1>10, <1>11

\* A command served leaves the book good, with as many more in its sequence number as
\* there are events.
LEMMA ServedGood ==
    ASSUME NEW b, GoodBook(b), NEW cmd \in Requests
    PROVE  /\ GoodBook(Served(b, cmd)) /\ Served(b, cmd).cfg = b.cfg
           /\ IsSeq(AnswerOf(b, cmd).out)
           /\ Served(b, cmd).seq = b.seq + Len(AnswerOf(b, cmd).out)
<1> DEFINE a == AnswerOf(b, cmd)
           c == b.cfg
           q == b.seq
           k == b.book
           n == Len(a.out)
<1>1. b \in BookForm /\ c \in Configs /\ q \in Nat /\ BookOK(Int, k) /\ Total(k) <= c.max
      /\ b = [cfg |-> c, seq |-> q, book |-> k]
  BY DEF GoodBook, BookForm
<1>2. c.prices \subseteq Int /\ c.max \in Nat
  BY <1>1 DEF Configs
<1>3. a = Answer(c, k, cmd)
  BY DEF AnswerOf
<1>4. Served(b, cmd) = [b EXCEPT !.book = a.book, !.seq = @ + n]
  BY DEF Served
<1>5. b.cfg.index = "Ladder" => BookOK(c.prices, k)
  BY DEF GoodBook
<1> HIDE DEF a, c, q, k
<1>6. AnswerOK(Int, c.max, a)
  BY <1>1, <1>2, <1>3, AnswerFacts
<1>7. b.cfg.index = "Ladder" => AnswerOK(c.prices, c.max, a)
  BY <1>1, <1>2, <1>3, <1>5, AnswerFacts
<1>8. n \in Nat /\ IsSeq(a.out)
  <2>1. IsSeq(a.out)
    BY <1>6 DEF AnswerOK
  <2>. QED BY <2>1 DEF IsSeq
<1> DEFINE r == [cfg |-> c, seq |-> q + n, book |-> a.book]
<1>9. Served(b, cmd) = r
  BY <1>1, <1>4
<1>10. a.book \in [Sides -> Seq(Orders(Int))] /\ BookOK(Int, a.book) /\ Total(a.book) <= c.max
  BY <1>6 DEF AnswerOK, BookOK
<1>11. r \in BookForm
  <2> HIDE DEF n
  <2>. QED BY <1>1, <1>8, <1>10 DEF BookForm
<1>12. r.cfg = c /\ r.seq = q + n /\ r.book = a.book /\ b.cfg = c /\ b.seq = q
  BY DEF c, q
<1> HIDE DEF r, n
<1>13. c.index = "Ladder" => BookOK(c.prices, a.book)
  BY <1>7, <1>12 DEF AnswerOK
<1>14. GoodBook(r)
  BY <1>10, <1>11, <1>12, <1>13 DEF GoodBook
<1>. QED BY <1>8, <1>9, <1>12, <1>14 DEF a, n

-----------------------------------------------------------------------------
(* The history *)

\* A good place goes on to a good place, and its stream only grows unless the book is new.
LEMMA MadeGood ==
    ASSUME NEW x, IdealGood(x), NEW cmd, Told(cmd)
    PROVE  /\ IdealGood(Made(x, cmd))
           /\ cmd \in Requests =>
                 /\ Made(x, cmd).book = Served(x.book, cmd)
                 /\ Made(x, cmd).out = x.out \o AnswerOf(x.book, cmd).out
           /\ cmd.kind = "AddSymbol" => Made(x, cmd) = [book |-> NewBook(cmd.cfg), out |-> <<>>]
<1>1. CASE cmd \in Requests
  <2>1. cmd.kind # "AddSymbol"
    BY <1>1 DEF Requests
  <2> DEFINE b == Served(x.book, cmd)
             o == AnswerOf(x.book, cmd).out
             out == x.out \o o
  <2>2. Made(x, cmd) = [book |-> b, out |-> out]
    BY <2>1 DEF Made
  <2>3. GoodBook(b) /\ IsSeq(o) /\ b.seq = x.book.seq + Len(o)
    BY <1>1, ServedGood DEF IdealGood
  <2>4. IsSeq(out) /\ Len(out) = Len(x.out) + Len(o)
    <3> HIDE DEF o
    <3>. QED BY <2>3, ConcatIsSeq DEF IdealGood
  <2>5. b.seq = Len(out)
    BY <2>3, <2>4 DEF IdealGood
  <2> HIDE DEF b, out
  <2>6. Made(x, cmd).book = b /\ Made(x, cmd).out = out
    BY <2>2
  <2>7. IdealGood(Made(x, cmd))
    BY <2>3, <2>4, <2>5, <2>6 DEF IdealGood
  <2>. QED BY <2>1, <2>6, <2>7 DEF b, out
<1>2. CASE cmd.kind = "AddSymbol" /\ cmd.cfg \in Configs
  <2>1. cmd \notin Requests
    BY <1>2 DEF Requests
  <2> DEFINE b == NewBook(cmd.cfg)
             e == <<>>
  <2>2. Made(x, cmd) = [book |-> b, out |-> e]
    BY <1>2 DEF Made
  <2>3. b.seq = 0 /\ Len(e) = 0
    BY DEF NewBook
  <2>4. IsSeq(e)
    BY DEF IsSeq
  <2>5. GoodBook(b)
    BY <1>2, NewBookGood
  <2> HIDE DEF b, e
  <2>6. Made(x, cmd).book = b /\ Made(x, cmd).out = e
    BY <2>2
  <2>7. IdealGood(Made(x, cmd))
    BY <2>3, <2>4, <2>5, <2>6 DEF IdealGood
  <2>. QED BY <2>1, <2>2, <2>7 DEF b, e
<1>. QED BY <1>1, <1>2 DEF Told

\* The place of a symbol is its last command among the first n.
Places(acc, s, n) == {i \in 1 .. n : acc[i].sym = s}
LastOf(acc, s, n, m) == m \in Places(acc, s, n) /\ \A i \in Places(acc, s, n) : i <= m

\* There is one if there is any command.
LEMMA PlaceOf ==
    ASSUME NEW acc, NEW s, NEW n \in Nat
    PROVE  \/ /\ Places(acc, s, n) = {}
              /\ IdealIn(acc, s, n) = [book |-> NewBook(EngineCfg), out |-> <<>>]
           \/ \E m \in 1 .. n : LastOf(acc, s, n, m) /\ IdealIn(acc, s, n) = acc[m].after
<1> DEFINE P == Places(acc, s, n)
<1>1. IdealIn(acc, s, n) = IF P = {} THEN [book |-> NewBook(EngineCfg), out |-> <<>>]
                          ELSE acc[Max(P)].after
  BY DEF IdealIn, Places
<1>2. P \subseteq 1 .. n
  BY DEF Places
<1>3. CASE P = {}
  BY <1>1, <1>3
<1>4. CASE P # {}
  <2>1. P \subseteq Int /\ n \in Int /\ \A x \in P : x <= n
    BY <1>2
  <2> HIDE DEF P
  <2>2. Max(P) \in P /\ \A x \in P : x <= Max(P)
    BY <1>4, <2>1, MaxFacts
  <2>. QED BY <1>1, <1>2, <1>4, <2>2 DEF LastOf, P
<1>. QED BY <1>3, <1>4

\* Only one, which nothing after it changes.
LEMMA IdealAt ==
    ASSUME NEW acc, NEW s, NEW n \in Nat, NEW m \in 1 .. n, acc[m].sym = s,
           \A i \in (m + 1) .. n : acc[i].sym # s
    PROVE  IdealIn(acc, s, n) = acc[m].after
<1>1. m \in Places(acc, s, n)
  BY DEF Places
<1>2. ASSUME NEW k \in 1 .. n, LastOf(acc, s, n, k) PROVE k = m
  <2>1. m <= k /\ acc[k].sym = s
    BY <1>1, <1>2 DEF LastOf, Places
  <2>. QED BY <2>1
<1>. QED BY <1>1, <1>2, PlaceOf

\* Commands of other symbols change nothing.
LEMMA IdealSame ==
    ASSUME NEW acc, NEW s, NEW n \in Nat, NEW m \in 0 .. n,
           \A i \in (m + 1) .. n : acc[i].sym # s
    PROVE  IdealIn(acc, s, n) = IdealIn(acc, s, m)
<1>1. Places(acc, s, n) = Places(acc, s, m)
  BY DEF Places
<1>. QED BY <1>1 DEF IdealIn, Places

\* Nor do later ones.
LEMMA IdealEarlier ==
    ASSUME NEW acc, IsSeq(acc), NEW x, NEW s, NEW n \in 0 .. Len(acc)
    PROVE  IdealIn(Append(acc, x), s, n) = IdealIn(acc, s, n)
<1>1. Len(acc) \in Nat /\ \A i \in 1 .. n : Append(acc, x)[i] = acc[i]
  BY AppendIsSeq DEF IsSeq
<1>2. Places(Append(acc, x), s, n) = Places(acc, s, n)
  BY <1>1 DEF Places
<1>3. IdealIn(Append(acc, x), s, n) = IF Places(acc, s, n) = {}
                                      THEN [book |-> NewBook(EngineCfg), out |-> <<>>]
                                      ELSE Append(acc, x)[Max(Places(acc, s, n))].after
  BY <1>2 DEF IdealIn, Places
<1>4. CASE Places(acc, s, n) = {}
  BY <1>3, <1>4 DEF IdealIn, Places
<1>5. CASE Places(acc, s, n) # {}
  <2> DEFINE P == Places(acc, s, n)
  <2>1. P \subseteq 1 .. n /\ P \subseteq Int /\ n \in Int /\ \A i \in P : i <= n
    BY DEF Places
  <2>2. IdealIn(acc, s, n) = acc[Max(P)].after
    BY <1>5 DEF IdealIn, Places
  <2> HIDE DEF P
  <2>3. Max(P) \in P
    BY <1>5, <2>1, MaxFacts DEF P
  <2>. QED BY <1>1, <1>3, <1>5, <2>1, <2>2, <2>3 DEF P
<1>. QED BY <1>4, <1>5

\* Every place of the history is good.
LEMMA IdealIsGood ==
    ASSUME NEW acc, HistoryOK(acc), NEW s, NEW n \in 0 .. Len(acc)
    PROVE  IdealGood(IdealIn(acc, s, n))
<1>1. Len(acc) \in Nat /\ n \in Nat
  BY DEF HistoryOK, IsSeq
<1> DEFINE e == [book |-> NewBook(EngineCfg), out |-> <<>>]
<1>2. IdealGood(e)
  <2>1. GoodBook(NewBook(EngineCfg))
    BY ConfigAssumption, NewBookGood
  <2>2. NewBook(EngineCfg).seq = 0 /\ Len(<<>>) = 0
    BY DEF NewBook
  <2>3. IsSeq(<<>>)
    BY DEF IsSeq
  <2>. QED BY <2>1, <2>2, <2>3 DEF IdealGood
<1>3. \A m \in 1 .. n : IdealGood(acc[m].after)
  BY <1>1 DEF HistoryOK
<1> HIDE DEF e
<1>. QED BY <1>1, <1>2, <1>3, PlaceOf DEF e

\* The entry that Accept adds.
Entry(acc, s, cmd) ==
    [sym |-> s, cmd |-> cmd, after |-> Made(IdealIn(acc, s, Len(acc)), cmd)]

\* more is the history acc with a command of s added.
Grown(acc, more, s, cmd) ==
    /\ HistoryOK(more) /\ Len(acc) \in Nat /\ Len(more) = Len(acc) + 1
    /\ \A i \in 1 .. Len(acc) : more[i] = acc[i]
    /\ more[Len(acc) + 1].sym = s /\ more[Len(acc) + 1].cmd = cmd
    /\ more[Len(acc) + 1].after = Made(IdealIn(acc, s, Len(acc)), cmd)
    /\ \A x : \A n \in 0 .. Len(acc) : IdealIn(more, x, n) = IdealIn(acc, x, n)
    /\ \A x : x # s => IdealIn(more, x, Len(more)) = IdealIn(acc, x, Len(acc))
    /\ IdealIn(more, s, Len(more)) = Made(IdealIn(acc, s, Len(acc)), cmd)

\* With the entry the history is still right.
LEMMA HistoryGrows ==
    ASSUME NEW acc, HistoryOK(acc), NEW s \in Symbols, NEW cmd, Told(cmd)
    PROVE  Grown(acc, Append(acc, Entry(acc, s, cmd)), s, cmd)
<1> DEFINE e == Entry(acc, s, cmd)
           more == Append(acc, e)
           n == Len(acc)
<1>1. IsSeq(acc) /\ n \in Nat
  BY DEF HistoryOK, IsSeq
<1>2. e.sym = s /\ e.cmd = cmd /\ e.after = Made(IdealIn(acc, s, n), cmd)
  BY DEF Entry
<1> HIDE DEF e
<1>3. IsSeq(more) /\ Len(more) = n + 1 /\ more[n + 1] = e
      /\ \A i \in 1 .. n : more[i] = acc[i]
  BY <1>1, AppendIsSeq
<1>4. \A x : \A k \in 0 .. n : IdealIn(more, x, k) = IdealIn(acc, x, k)
  BY <1>1, IdealEarlier
<1> HIDE DEF more, n
<1>5. HistoryOK(more)
  <2>1. ASSUME NEW i \in 1 .. Len(more)
        PROVE  /\ more[i].sym \in Symbols /\ Told(more[i].cmd)
               /\ more[i].after = Made(IdealIn(more, more[i].sym, i - 1), more[i].cmd)
               /\ IdealGood(more[i].after)
    <3>1. CASE i \in 1 .. n
      <4>1. more[i] = acc[i] /\ i - 1 \in 0 .. n
        BY <1>1, <1>3, <3>1
      <4>2. IdealIn(more, more[i].sym, i - 1) = IdealIn(acc, acc[i].sym, i - 1)
        BY <1>4, <4>1
      <4>. QED BY <3>1, <4>1, <4>2 DEF HistoryOK, n
    <3>2. CASE i = n + 1
      <4>1. more[i] = e /\ i - 1 = n /\ n \in 0 .. n
        BY <1>1, <1>3, <3>2
      <4>2. IdealIn(more, s, n) = IdealIn(acc, s, n) /\ IdealGood(IdealIn(acc, s, n))
        BY <1>4, <4>1, IdealIsGood DEF n
      <4>3. IdealGood(Made(IdealIn(acc, s, n), cmd))
        BY <4>2, MadeGood
      <4>. QED BY <1>2, <4>1, <4>2, <4>3
    <3>. QED BY <1>1, <1>3, <3>1, <3>2
  <2>. QED BY <1>3, <2>1 DEF HistoryOK
<1>6. ASSUME NEW x, x # s PROVE IdealIn(more, x, n + 1) = IdealIn(acc, x, n)
  <2>1. n \in 0 .. (n + 1) /\ n + 1 \in Nat /\ \A i \in (n + 1) .. (n + 1) : i = n + 1
    BY <1>1
  <2>2. \A i \in (n + 1) .. (n + 1) : more[i].sym # x
    BY <1>2, <1>3, <1>6, <2>1
  <2>3. IdealIn(more, x, n + 1) = IdealIn(more, x, n)
    BY <2>1, <2>2, IdealSame
  <2>. QED BY <1>1, <1>4, <2>3
<1>7. IdealIn(more, s, n + 1) = e.after
  <2>1. n + 1 \in Nat /\ n + 1 \in 1 .. (n + 1) /\ (n + 1 + 1) .. (n + 1) = {}
    BY <1>1
  <2>2. more[n + 1].sym = s
    BY <1>2, <1>3
  <2>. QED BY <1>3, <2>1, <2>2, IdealAt
<1>. QED BY <1>1, <1>2, <1>3, <1>4, <1>5, <1>6, <1>7 DEF more, n, e, Grown

\* The beginning of a beginning is one.
LEMMA BeforeFacts ==
    /\ \A p : Len(p) \in Nat => Before(p, p)
    /\ \A p, q, r : Before(p, q) /\ Before(q, r) /\ Len(p) \in Nat /\ Len(q) \in Nat
                       /\ Len(r) \in Nat => Before(p, r)
    /\ \A p, q : IsSeq(p) /\ IsSeq(q) => Before(p, p \o q)
    /\ \A q : Len(q) \in Nat => Before(<<>>, q)
<1>1. ASSUME NEW p, NEW q, IsSeq(p), IsSeq(q) PROVE Before(p, p \o q)
  <2>1. Len(q) \in Nat /\ Len(p) \in Nat
    BY <1>1 DEF IsSeq
  <2>2. Len(p \o q) = Len(p) + Len(q) /\ \A i \in 1 .. Len(p) : (p \o q)[i] = p[i]
    BY <1>1, ConcatIsSeq
  <2>. QED BY <2>1, <2>2 DEF Before
<1>2. ASSUME NEW p, NEW q, NEW r, Before(p, q), Before(q, r), Len(p) \in Nat, Len(q) \in Nat,
             Len(r) \in Nat
      PROVE  Before(p, r)
  BY <1>2 DEF Before
<1>3. \A q : Len(q) \in Nat => Before(<<>>, q)
  BY DEF Before
<1>4. \A p : Len(p) \in Nat => Before(p, p)
  BY DEF Before
<1>. QED BY <1>1, <1>2, <1>3, <1>4

\* In a history without a new book for s the streams of s only grow.
LEMMA StreamBefore ==
    ASSUME NEW acc, HistoryOK(acc), StreamsOK(acc), NEW s, ~ReplacedIn(acc, s),
           NEW n \in 0 .. Len(acc), NEW m \in 0 .. n
    PROVE  Before(IdealIn(acc, s, m).out, IdealIn(acc, s, n).out)
<1> DEFINE p == IdealIn(acc, s, m)
           q == IdealIn(acc, s, n)
           e == [book |-> NewBook(EngineCfg), out |-> <<>>]
<1>1. Len(acc) \in Nat /\ n \in Nat /\ m \in Nat /\ m \in 0 .. Len(acc) /\ m <= n
  BY DEF HistoryOK, IsSeq
<1>2. IdealGood(p) /\ IdealGood(q)
  BY <1>1, IdealIsGood
<1>3. Len(p.out) \in Nat /\ Len(q.out) \in Nat
  BY <1>2 DEF IdealGood, IsSeq
<1>4. \/ Places(acc, s, m) = {} /\ p = e
      \/ \E i \in 1 .. m : LastOf(acc, s, m, i) /\ p = acc[i].after
  BY <1>1, PlaceOf
<1>5. \/ Places(acc, s, n) = {} /\ q = e
      \/ \E i \in 1 .. n : LastOf(acc, s, n, i) /\ q = acc[i].after
  BY <1>1, PlaceOf
<1>6. Places(acc, s, m) \subseteq Places(acc, s, n)
  BY <1>1 DEF Places
<1>7. e.out = <<>>
  OBVIOUS
<1> SUFFICES Before(p.out, q.out)
  OBVIOUS
<1> HIDE DEF p, q, e
<1>8. CASE p = e
  BY <1>3, <1>7, <1>8, BeforeFacts
<1>9. CASE \E i \in 1 .. m : LastOf(acc, s, m, i) /\ p = acc[i].after
  <2>1. PICK i \in 1 .. m : LastOf(acc, s, m, i) /\ p = acc[i].after
    BY <1>9
  <2>2. i \in Places(acc, s, n)
    BY <1>6, <2>1 DEF LastOf
  <2>3. PICK j \in 1 .. n : LastOf(acc, s, n, j) /\ q = acc[j].after
    BY <1>5, <2>2
  <2>4. i <= j /\ acc[i].sym = s /\ acc[j].sym = s
    BY <2>2, <2>3 DEF LastOf, Places
  <2>5. CASE i = j
    BY <1>3, <2>1, <2>3, <2>5, BeforeFacts
  <2>6. CASE i < j
    <3>1. i \in 1 .. Len(acc) /\ j \in 1 .. Len(acc)
      BY <1>1
    <3>. QED BY <2>1, <2>3, <2>4, <2>6, <3>1 DEF StreamsOK
  <2>. QED BY <2>4, <2>5, <2>6
<1>. QED BY <1>4, <1>8, <1>9

\* Streams still only grow when a command is added.
LEMMA StreamsGrow ==
    ASSUME NEW acc, HistoryOK(acc), StreamsOK(acc), NEW more, NEW s, NEW cmd, Told(cmd),
           Grown(acc, more, s, cmd)
    PROVE  /\ StreamsOK(more)
           /\ \A x : ~ReplacedIn(more, x) => ~ReplacedIn(acc, x)
<1> DEFINE n == Len(acc)
<1>1. n \in Nat /\ Len(more) = n + 1 /\ \A i \in 1 .. n : more[i] = acc[i]
  BY DEF Grown
<1>2. ASSUME NEW x, ReplacedIn(acc, x) PROVE ReplacedIn(more, x)
  <2>1. PICK i, j \in 1 .. n :
            i < j /\ acc[i].sym = x /\ acc[j].sym = x /\ acc[j].cmd.kind = "AddSymbol"
    BY <1>2 DEF ReplacedIn
  <2>2. i \in 1 .. Len(more) /\ j \in 1 .. Len(more) /\ more[i] = acc[i] /\ more[j] = acc[j]
    BY <1>1
  <2>. QED BY <2>1, <2>2 DEF ReplacedIn
<1>3. ASSUME NEW i \in 1 .. Len(more), NEW j \in 1 .. Len(more), i < j,
             more[i].sym = more[j].sym, ~ReplacedIn(more, more[i].sym)
      PROVE  Before(more[i].after.out, more[j].after.out)
  <2>1. i \in 1 .. n /\ more[i] = acc[i] /\ ~ReplacedIn(acc, acc[i].sym)
    BY <1>1, <1>2, <1>3
  <2>2. CASE j \in 1 .. n
    <3>1. more[j] = acc[j]
      BY <1>1, <2>2
    <3>. QED BY <1>3, <2>1, <2>2, <3>1 DEF StreamsOK
  <2>3. CASE j = n + 1
    <3> DEFINE w == IdealIn(acc, s, n)
               v == IdealIn(acc, s, i)
    <3>1. more[j].sym = s /\ more[j].cmd = cmd /\ more[j].after = Made(w, cmd)
      BY <2>3 DEF Grown
    <3>2. acc[i].sym = s
      BY <1>3, <2>1, <3>1
    <3>3. cmd.kind # "AddSymbol"
      BY <1>3, <2>1, <3>1, <3>2 DEF ReplacedIn
    <3>4. cmd \in Requests
      BY <3>3 DEF Told
    <3>5. IdealGood(w) /\ n \in 0 .. n /\ i \in 0 .. n
      BY <1>1, <2>1, IdealIsGood
    <3>6. Made(w, cmd).out = w.out \o AnswerOf(w.book, cmd).out
      BY <3>4, <3>5, MadeGood
    <3>7. v = acc[i].after
      <4>1. i \in Nat /\ i \in 1 .. i /\ (i + 1) .. i = {}
        BY <2>1
      <4>. QED BY <3>2, <4>1, IdealAt
    <3>8. Before(v.out, w.out)
      BY <2>1, <3>2, <3>5, StreamBefore
    <3>9. IsSeq(AnswerOf(w.book, cmd).out)
      BY <3>4, <3>5, ServedGood DEF IdealGood
    <3>10. IdealGood(v) /\ IdealGood(Made(w, cmd))
      BY <3>5, MadeGood, IdealIsGood
    <3> HIDE DEF w, v
    <3>11. Before(w.out, Made(w, cmd).out)
      BY <3>5, <3>6, <3>9, BeforeFacts DEF IdealGood
    <3>12. Len(v.out) \in Nat /\ Len(w.out) \in Nat /\ Len(Made(w, cmd).out) \in Nat
      BY <3>5, <3>10 DEF IdealGood, IsSeq
    <3>. QED BY <2>1, <3>1, <3>7, <3>8, <3>11, <3>12, BeforeFacts
  <2>. QED BY <1>1, <2>2, <2>3
<1>. QED BY <1>2, <1>3 DEF StreamsOK

-----------------------------------------------------------------------------
(* Where the records of a snapshot are *)

BookRecs == [rec : {"book"}, sym : Nameable, seq : Nat]
OrderRecs == [rec : {"order"}, sym : Nameable, order : Orders(Int)]

OrdersOf(eng, s) == All(eng.books[s].book)
Size(eng, s) == Len(OrdersOf(eng, s))
BookRec(eng, s) == [rec |-> "book", sym |-> s, seq |-> eng.books[s].seq]
OrderRec(eng, s, k) == [rec |-> "order", sym |-> s, order |-> OrdersOf(eng, s)[k]]

\* The records of one book: its own, then those of its orders.
Block(eng, s, recs) ==
    /\ recs \in Seq(BookRecs \cup OrderRecs) /\ IsSeq(recs)
    /\ Size(eng, s) \in Nat /\ Len(recs) = Size(eng, s) + 1
    /\ recs[1] = BookRec(eng, s)
    /\ \A k \in 1 .. Size(eng, s) : recs[k + 1] = OrderRec(eng, s, k)

\* The listing of a good book.
LEMMA ListingOf ==
    ASSUME NEW eng, GoodEngine(eng), NEW s \in DOMAIN eng.books
    PROVE  /\ OrdersOf(eng, s) \in Seq(Orders(Int)) /\ Size(eng, s) \in Nat
           /\ ListOK(Int, OrdersOf(eng, s))
           /\ Size(eng, s) <= eng.books[s].cfg.max
           /\ eng.books[s].seq \in Nat /\ s \in Nat /\ s \in Nameable
           /\ \A k \in 1 .. Size(eng, s) : OrdersOf(eng, s)[k] \in Orders(Int)
<1>1. GoodBook(eng.books[s]) /\ s \in Nameable
  BY EngineFields
<1>2. BookOK(Int, eng.books[s].book) /\ Total(eng.books[s].book) <= eng.books[s].cfg.max
      /\ eng.books[s].seq \in Nat
  BY <1>1 DEF GoodBook, BookForm
<1>3. Listed(Int, eng.books[s].book) /\ ListOK(Int, OrdersOf(eng, s))
  BY <1>2, AllFacts, ListingOK DEF OrdersOf
<1>4. OrdersOf(eng, s) \in Seq(Orders(Int)) /\ Size(eng, s) = Total(eng.books[s].book)
  BY <1>3 DEF Listed, OrdersOf, Size
<1>5. \A k \in 1 .. Size(eng, s) : OrdersOf(eng, s)[k] \in Orders(Int)
  BY <1>4 DEF Size
<1>. QED BY <1>1, <1>2, <1>3, <1>4, <1>5, SymbolFacts DEF Size

\* BookRecords makes them.
LEMMA BlockOf ==
    ASSUME NEW eng, GoodEngine(eng), NEW s \in DOMAIN eng.books
    PROVE  Block(eng, s, BookRecords(eng, s))
<1> DEFINE n == Size(eng, s)
           X == BookRecs \cup OrderRecs
           os == OrdersOf(eng, s)
           p == <<BookRec(eng, s)>>
           q == [i \in 1 .. n |-> OrderRec(eng, s, i)]
<1>1. n \in Nat /\ s \in Nameable /\ eng.books[s].seq \in Nat /\ \A k \in 1 .. n : os[k] \in Orders(Int)
  BY ListingOf
<1>2. BookRecords(eng, s) = p \o q
  BY DEF BookRecords, BookRec, OrderRec, OrdersOf, Size
<1>3. BookRec(eng, s) \in X
  BY <1>1 DEF BookRec, BookRecs
<1>4. \A i \in 1 .. n : OrderRec(eng, s, i) \in X
  BY <1>1 DEF OrderRec, OrderRecs
<1> HIDE DEF n, X
<1>5. p \in Seq(X) /\ Len(p) = 1 /\ p[1] = BookRec(eng, s)
  BY <1>3
<1>6. q \in Seq(X) /\ Len(q) = n /\ \A i \in 1 .. n : q[i] = OrderRec(eng, s, i)
  BY <1>1, <1>4
<1> HIDE DEF p, q
<1>7. IsSeq(p) /\ IsSeq(q)
  BY <1>5, <1>6, SeqIsSeq
<1>8. p \o q \in Seq(X)
  BY <1>5, <1>6
<1>9. /\ Len(p \o q) = n + 1
      /\ (p \o q)[1] = BookRec(eng, s)
      /\ \A k \in 1 .. n : (p \o q)[1 + k] = OrderRec(eng, s, k)
  <2>1. /\ Len(p \o q) = Len(p) + Len(q)
        /\ \A i \in 1 .. Len(p) : (p \o q)[i] = p[i]
        /\ \A i \in 1 .. Len(q) : (p \o q)[Len(p) + i] = q[i]
    BY <1>7, ConcatIsSeq
  <2>. QED BY <1>1, <1>5, <1>6, <2>1
<1>10. IsSeq(p \o q)
  BY <1>7, ConcatIsSeq
<1>11. \A k \in 1 .. n : k + 1 = 1 + k
  BY <1>1
<1>. QED BY <1>1, <1>2, <1>8, <1>9, <1>10, <1>11 DEF Block, n, X

\* From lo on, recs are the blocks of the symbols of S, that of x from at[x] on.
InBlock(eng, at, x, i) == i \in at[x] .. (at[x] + Size(eng, x))
Laid(recs, eng, S, at, lo) ==
    /\ IsSeq(recs) /\ Len(recs) \in Nat /\ at \in [S -> Nat]
    /\ \A x \in S :
          /\ Size(eng, x) \in Nat /\ lo <= at[x] /\ at[x] + Size(eng, x) <= Len(recs)
          /\ recs[at[x]] = BookRec(eng, x)
          /\ \A k \in 1 .. Size(eng, x) : recs[at[x] + k] = OrderRec(eng, x, k)
    /\ \A i \in lo .. Len(recs) : \E x \in S : InBlock(eng, at, x, i)

\* Records put in front move the blocks.
Moved(at, S, n) == [x \in S |-> n + at[x]]

\* They keep their order.
LEMMA LaidBehind ==
    ASSUME NEW recs, NEW eng, NEW S, NEW at, Laid(recs, eng, S, at, 1), NEW p, IsSeq(p)
    PROVE  Laid(p \o recs, eng, S, Moved(at, S, Len(p)), Len(p) + 1)
<1> DEFINE n == Len(p)
           r == p \o recs
           m == Moved(at, S, n)
<1>1. n \in Nat /\ Len(recs) \in Nat /\ IsSeq(recs)
  BY DEF Laid, IsSeq
<1>2. IsSeq(r) /\ Len(r) = n + Len(recs) /\ \A i \in 1 .. Len(recs) : r[n + i] = recs[i]
  BY <1>1, ConcatIsSeq
<1>3. m \in [S -> Nat] /\ \A x \in S : m[x] = n + at[x]
  BY <1>1 DEF Laid, Moved
<1> HIDE DEF n, r, m
<1>4. ASSUME NEW x \in S
      PROVE  /\ Size(eng, x) \in Nat /\ n + 1 <= m[x] /\ m[x] + Size(eng, x) <= Len(r)
             /\ r[m[x]] = BookRec(eng, x)
             /\ \A k \in 1 .. Size(eng, x) : r[m[x] + k] = OrderRec(eng, x, k)
  <2>1. /\ Size(eng, x) \in Nat /\ 1 <= at[x] /\ at[x] + Size(eng, x) <= Len(recs)
        /\ at[x] \in Nat /\ recs[at[x]] = BookRec(eng, x)
        /\ \A k \in 1 .. Size(eng, x) : recs[at[x] + k] = OrderRec(eng, x, k)
    BY DEF Laid
  <2>2. at[x] \in 1 .. Len(recs) /\ \A k \in 1 .. Size(eng, x) : at[x] + k \in 1 .. Len(recs)
    BY <1>1, <2>1
  <2>3. m[x] = n + at[x] /\ \A k \in 1 .. Size(eng, x) : m[x] + k = n + (at[x] + k)
    BY <1>1, <1>3, <2>1
  <2>4. \A k \in 1 .. Size(eng, x) : r[m[x] + k] = recs[at[x] + k]
    BY <1>2, <2>2, <2>3
  <2>5. r[m[x]] = recs[at[x]]
    BY <1>2, <2>2, <2>3
  <2>6. n + 1 <= m[x] /\ m[x] + Size(eng, x) <= Len(r)
    BY <1>1, <1>2, <2>1, <2>3
  <2>. QED BY <2>1, <2>4, <2>5, <2>6
<1>5. ASSUME NEW i \in (n + 1) .. Len(r) PROVE \E x \in S : InBlock(eng, m, x, i)
  <2>1. i - n \in 1 .. Len(recs) /\ i = n + (i - n)
    BY <1>1, <1>2
  <2>2. PICK x \in S : InBlock(eng, at, x, i - n)
    BY <2>1 DEF Laid
  <2>3. at[x] \in Nat /\ Size(eng, x) \in Nat /\ m[x] = n + at[x]
    BY <1>3 DEF Laid
  <2>4. InBlock(eng, m, x, i)
    BY <1>1, <2>1, <2>2, <2>3 DEF InBlock
  <2>. QED BY <2>4
<1>6. Laid(r, eng, S, m, n + 1)
  BY <1>1, <1>2, <1>3, <1>4, <1>5 DEF Laid
<1>. QED BY <1>6 DEF n, r, m

\* And a block in front is a block more.
LEMMA LaidMore ==
    ASSUME NEW recs, NEW eng, NEW S, NEW at, Laid(recs, eng, S, at, 1), NEW s, s \notin S,
           NEW p, Block(eng, s, p)
    PROVE  \E a : Laid(p \o recs, eng, S \cup {s}, a, 1)
<1> DEFINE n == Len(p)
           r == p \o recs
           m == Moved(at, S, n)
           a == [x \in S \cup {s} |-> IF x = s THEN 1 ELSE m[x]]
<1>0. IsSeq(p) /\ IsSeq(recs)
  BY DEF Block, Laid
<1>1. Laid(r, eng, S, m, n + 1) /\ IsSeq(p) /\ IsSeq(recs)
  BY <1>0, LaidBehind
<1>2. /\ Size(eng, s) \in Nat /\ n = Size(eng, s) + 1 /\ p[1] = BookRec(eng, s)
      /\ \A k \in 1 .. Size(eng, s) : p[k + 1] = OrderRec(eng, s, k)
  BY DEF Block
<1>3. Len(r) = n + Len(recs) /\ \A i \in 1 .. n : r[i] = p[i]
  BY <1>1, ConcatIsSeq
<1>4. Len(recs) \in Nat
  BY DEF Laid
<1>5. m \in [S -> Nat]
  BY <1>1 DEF Laid
<1>6. a \in [S \cup {s} -> Nat] /\ a[s] = 1 /\ \A x \in S : a[x] = m[x]
  BY <1>5
<1> HIDE DEF n, r, m, a
<1>7. ASSUME NEW x \in S \cup {s}
      PROVE  /\ Size(eng, x) \in Nat /\ 1 <= a[x] /\ a[x] + Size(eng, x) <= Len(r)
             /\ r[a[x]] = BookRec(eng, x)
             /\ \A k \in 1 .. Size(eng, x) : r[a[x] + k] = OrderRec(eng, x, k)
  <2>1. CASE x \in S
    <3>1. a[x] = m[x] /\ m[x] \in Nat
      BY <1>5, <1>6, <2>1
    <3>2. n + 1 <= m[x] /\ n \in Nat
      <4>1. n + 1 <= m[x]
        BY <1>1, <2>1 DEF Laid
      <4>. QED BY <1>2, <4>1
    <3>3. 1 <= a[x]
      BY <3>1, <3>2
    <3>. QED BY <1>1, <2>1, <3>1, <3>3 DEF Laid
  <2>2. CASE x = s
    <3>1. 1 \in 1 .. n /\ \A k \in 1 .. Size(eng, s) : k + 1 \in 1 .. n /\ 1 + k = k + 1
      BY <1>2
    <3>2. r[1] = p[1] /\ \A k \in 1 .. Size(eng, s) : r[1 + k] = p[k + 1]
      BY <1>3, <3>1
    <3>3. 1 + Size(eng, s) <= Len(r)
      BY <1>2, <1>3, <1>4
    <3>. QED BY <1>2, <1>6, <2>2, <3>2, <3>3
  <2>. QED BY <2>1, <2>2
<1>8. ASSUME NEW i \in 1 .. Len(r) PROVE \E x \in S \cup {s} : InBlock(eng, a, x, i)
  <2>1. CASE i <= n
    <3>1. InBlock(eng, a, s, i)
      BY <1>2, <1>6, <2>1 DEF InBlock
    <3>. QED BY <3>1
  <2>2. CASE ~(i <= n)
    <3>1. i \in (n + 1) .. Len(r)
      BY <1>2, <2>2
    <3>2. PICK x \in S : InBlock(eng, m, x, i)
      BY <1>1, <3>1 DEF Laid
    <3>3. InBlock(eng, a, x, i)
      BY <1>6, <3>2 DEF InBlock
    <3>. QED BY <3>3
  <2>. QED BY <2>1, <2>2
<1>9. Laid(r, eng, S \cup {s}, a, 1)
  <2>1. IsSeq(r) /\ Len(r) \in Nat
    BY <1>1 DEF Laid
  <2>. QED BY <1>6, <1>7, <1>8, <2>1 DEF Laid
<1>. QED BY <1>9 DEF r

\* WriteEngine lays them out in ascending order behind the header.
LEMMA WriteLays ==
    ASSUME NEW eng, GoodEngine(eng)
    PROVE  /\ \E at : Laid(WriteEngine(eng), eng, DOMAIN eng.books, at, 2)
           /\ WriteEngine(eng)[1] = [rec |-> "meta", cfg |-> eng.cfg]
           /\ Len(WriteEngine(eng)) \in Nat /\ Len(WriteEngine(eng)) > 0
<1> DEFINE D == DOMAIN eng.books
           P == SUBSET D
           X == BookRecs \cup OrderRecs
           V == Seq(X)
           base == [d \in P |-> <<>>]
           step == [a \in P \X V |-> IF a[1] = {} THEN <<>>
                                     ELSE BookRecords(eng, FirstOf(a[1])) \o a[2]]
           rest == [d \in P |-> d \ {FirstOf(d)}]
           size == [d \in P |-> Cardinality(d)]
           IsBooks(f) == f = [d \in P |-> IF d = {} THEN <<>>
                                          ELSE BookRecords(eng, FirstOf(d)) \o f[d \ {FirstOf(d)}]]
           books == CHOOSE f : IsBooks(f)
           head == <<[rec |-> "meta", cfg |-> eng.cfg]>>
<1>1. D \subseteq Nat /\ IsFiniteSet(D)
  BY EngineFields, SymbolFacts, FS_Subset
<1>2. ASSUME NEW d \in P
      PROVE  IsFiniteSet(d) /\ Cardinality(d) \in Nat /\ (d # {} => FirstOf(d) \in d)
  <2>1. IsFiniteSet(d)
    BY <1>1, FS_Subset
  <2>2. d \subseteq Int /\ 0 \in Int /\ \A x \in d : 0 <= x
    BY <1>1
  <2>3. d # {} => Min(d) \in d
    BY <2>2, MinFacts
  <2>. QED BY <2>1, <2>3, FS_CardinalityType DEF FirstOf
<1>3. ASSUME NEW s \in D PROVE Block(eng, s, BookRecords(eng, s)) /\ BookRecords(eng, s) \in V
  BY BlockOf DEF Block
<1>4. base \in [P -> V]
  OBVIOUS
<1>5. step \in [P \X V -> V]
  <2>1. ASSUME NEW a \in P \X V
        PROVE  (IF a[1] = {} THEN <<>> ELSE BookRecords(eng, FirstOf(a[1])) \o a[2]) \in V
    <3>1. a[1] \in P /\ a[2] \in V /\ <<>> \in V
      OBVIOUS
    <3>2. a[1] # {} => BookRecords(eng, FirstOf(a[1])) \in V
      BY <1>2, <1>3, <3>1
    <3> HIDE DEF X
    <3>3. \A u, w \in V : u \o w \in V
      OBVIOUS
    <3>. QED BY <3>1, <3>2, <3>3
  <2>. QED BY <2>1
<1>6. GoesDown(P, {{}}, rest, size)
  <2>1. size \in [P -> Nat]
    BY <1>2
  <2>2. ASSUME NEW d \in P, d \notin {{}} PROVE rest[d] \in P /\ size[rest[d]] < size[d]
    <3>1. rest[d] = d \ {FirstOf(d)} /\ rest[d] \in P /\ FirstOf(d) \in d
      BY <1>2, <2>2
    <3>2. Cardinality(d \ {FirstOf(d)}) = Cardinality(d) - 1
      BY <1>2, <3>1, FS_RemoveElement
    <3>. QED BY <1>2, <3>1, <3>2
  <2>. QED BY <2>1, <2>2 DEF GoesDown
<1>7. PICK f : Recurs(f, P, V, {{}}, base, step, rest)
  <2> HIDE DEF P, V, base, step, rest, size
  <2>. QED BY <1>4, <1>5, <1>6, Recursion
<1>8. IsBooks(f)
  <2>1. f \in [P -> V] /\ f = [d \in P |-> IF d \in {{}} THEN base[d] ELSE step[<<d, f[rest[d]]>>]]
    BY <1>7 DEF Recurs
  <2> DEFINE G == [d \in P |-> IF d = {} THEN <<>>
                               ELSE BookRecords(eng, FirstOf(d)) \o f[d \ {FirstOf(d)}]]
  <2>2. ASSUME NEW d \in P PROVE f[d] = G[d]
    <3>1. f[d] = IF d \in {{}} THEN base[d] ELSE step[<<d, f[rest[d]]>>]
      BY <2>1
    <3>2. rest[d] = d \ {FirstOf(d)} /\ rest[d] \in P
      OBVIOUS
    <3>3. f[rest[d]] \in V
      BY <2>1, <3>2
    <3>4. step[<<d, f[rest[d]]>>] = IF d = {} THEN <<>> ELSE BookRecords(eng, FirstOf(d)) \o f[rest[d]]
      <4> HIDE DEF V, P, rest
      <4>. QED BY <3>3
    <3>. QED BY <3>1, <3>2, <3>4
  <2>3. f = [d \in P |-> f[d]] /\ G = [d \in P |-> G[d]]
    BY <2>1
  <2> HIDE DEF G
  <2>4. f = G
    BY <2>2, <2>3
  <2>. QED BY <2>4 DEF G
<1>9. IsBooks(books)
  BY <1>8
<1>10. WriteEngine(eng) = head \o books[D]
  BY DEF WriteEngine
<1> HIDE DEF books
<1>11. \A d \in P : books[d] = IF d = {} THEN <<>>
                               ELSE BookRecords(eng, FirstOf(d)) \o books[d \ {FirstOf(d)}]
  BY <1>9
<1> DEFINE Bad == {d \in P : ~\E at : Laid(books[d], eng, d, at, 1)}
<1>12. Bad = {}
  <2>1. SUFFICES ASSUME Bad # {} PROVE FALSE
    OBVIOUS
  <2>2. \A d \in Bad : IsFiniteSet(d)
    BY <1>2
  <2>3. PICK d \in Bad : \A x \in d : d \ {x} \notin Bad
    <3> HIDE DEF Bad
    <3>. QED BY <2>1, <2>2, SmallestSet
  <2>4. CASE d = {}
    <3> DEFINE at == [x \in {} |-> 0]
    <3>1. books[d] = <<>> /\ Len(<<>>) = 0
      BY <1>11, <2>4
    <3>2. IsSeq(<<>>) /\ 1 .. 0 = {} /\ at \in [{} -> Nat]
      BY DEF IsSeq
    <3>3. Laid(<<>>, eng, {}, at, 1)
      <4> HIDE DEF at
      <4>. QED BY <3>1, <3>2 DEF Laid
    <3>. QED BY <2>4, <3>1, <3>3
  <2>5. CASE d # {}
    <3> DEFINE x == FirstOf(d)
               e == d \ {x}
    <3>1. d \in P /\ x \in d /\ x \in D
      BY <1>2, <2>5
    <3>2. e \in P /\ e \notin Bad /\ d = e \cup {x} /\ x \notin e
      BY <2>3, <3>1
    <3>3. PICK at : Laid(books[e], eng, e, at, 1)
      BY <3>2
    <3>4. books[d] = BookRecords(eng, x) \o books[e]
      BY <1>11, <2>5, <3>1
    <3>5. Block(eng, x, BookRecords(eng, x))
      BY <1>3, <3>1
    <3> HIDE DEF x, e
    <3>6. \E a : Laid(books[d], eng, d, a, 1)
      <4>1. \E a : Laid(BookRecords(eng, x) \o books[e], eng, e \cup {x}, a, 1)
        BY <3>2, <3>3, <3>5, LaidMore
      <4>. QED BY <3>2, <3>4, <4>1
    <3>. QED BY <3>6
  <2>. QED BY <2>4, <2>5
<1>13. PICK at : Laid(books[D], eng, D, at, 1)
  <2>1. D \in P /\ D \notin Bad
    BY <1>12
  <2>. QED BY <2>1
<1>14. IsSeq(head) /\ Len(head) = 1 /\ head[1] = [rec |-> "meta", cfg |-> eng.cfg]
  <2> DEFINE r == [rec |-> "meta", cfg |-> eng.cfg]
  <2>1. head \in Seq({r}) /\ Len(head) = 1 /\ head[1] = r
    OBVIOUS
  <2>. QED BY <2>1, SeqIsSeq
<1> HIDE DEF head, D
<1>15. Laid(head \o books[D], eng, D, Moved(at, D, 1), 1 + 1)
  BY <1>13, <1>14, LaidBehind
<1>16. (head \o books[D])[1] = head[1] /\ Len(head \o books[D]) = 1 + Len(books[D])
       /\ Len(books[D]) \in Nat
  <2>1. IsSeq(books[D]) /\ Len(books[D]) \in Nat
    BY <1>13 DEF Laid
  <2>2. IsSeq(head) /\ 1 \in 1 .. Len(head)
    BY <1>14
  <2>3. /\ Len(head \o books[D]) = Len(head) + Len(books[D])
        /\ \A i \in 1 .. Len(head) : (head \o books[D])[i] = head[i]
    BY <2>1, <2>2, ConcatIsSeq
  <2>. QED BY <1>14, <2>1, <2>2, <2>3
<1>. QED BY <1>10, <1>14, <1>15, <1>16 DEF D

-----------------------------------------------------------------------------
(* What the parser makes of the records *)

MetaRecs == [rec : {"meta"}, cfg : Configs]
CutRecs == [rec : {"cut"}]
AllRecs == BookRecs \cup OrderRecs \cup MetaRecs \cup CutRecs

ParsedBooks == [sym : Nameable, seq : Nat, orders : Seq(Orders(Int))]
ParsedForm == [cfg : Configs, books : Seq(ParsedBooks)]

\* An order goes to the last book.
OrderRead(p, q, o) ==
    /\ q \in ParsedForm /\ q.cfg = p.cfg /\ Len(q.books) = Len(p.books)
    /\ \A i \in 1 .. Len(p.books) :
          /\ q.books[i].sym = p.books[i].sym /\ q.books[i].seq = p.books[i].seq
          /\ q.books[i].orders = IF i = Len(p.books) THEN Append(p.books[i].orders, o)
                                 ELSE p.books[i].orders

\* A book follows those there are.
BookRead(p, q, r) ==
    /\ q \in ParsedForm /\ q.cfg = p.cfg /\ Len(q.books) = Len(p.books) + 1
    /\ \A i \in 1 .. Len(p.books) : q.books[i] = p.books[i]
    /\ q.books[Len(p.books) + 1] = [sym |-> r.sym, seq |-> r.seq, orders |-> <<>>]

\* The fields of what has been parsed.
LEMMA ParsedFields ==
    ASSUME NEW p \in ParsedForm
    PROVE  /\ p.cfg \in Configs /\ p.books \in Seq(ParsedBooks) /\ Len(p.books) \in Nat
           /\ p = [cfg |-> p.cfg, books |-> p.books]
           /\ \A i \in 1 .. Len(p.books) :
                 /\ p.books[i] \in ParsedBooks
                 /\ p.books[i].sym \in Nameable /\ p.books[i].seq \in Nat
                 /\ p.books[i].orders \in Seq(Orders(Int)) /\ Len(p.books[i].orders) \in Nat
<1>1. p.cfg \in Configs /\ p.books \in Seq(ParsedBooks) /\ p = [cfg |-> p.cfg, books |-> p.books]
  BY DEF ParsedForm
<1>2. Len(p.books) \in Nat /\ \A i \in 1 .. Len(p.books) : p.books[i] \in ParsedBooks
  BY <1>1
<1>3. \A b \in ParsedBooks : b.sym \in Nameable /\ b.seq \in Nat /\ b.orders \in Seq(Orders(Int))
                             /\ Len(b.orders) \in Nat
  BY DEF ParsedBooks
<1>. QED BY <1>1, <1>2, <1>3

\* The record of an order.
LEMMA ReadOrder ==
    ASSUME NEW p \in ParsedForm, NEW r \in OrderRecs
    PROVE  OrderRead(p, ReadRecord(p, r), r.order)
<1> DEFINE n == Len(p.books)
           c == p.cfg
           bs == p.books
           q == [i \in 1 .. n |-> IF i = n THEN [bs[i] EXCEPT !.orders = Append(@, r.order)]
                                  ELSE bs[i]]
<1>1. c \in Configs /\ bs \in Seq(ParsedBooks) /\ n \in Nat /\ p = [cfg |-> c, books |-> bs]
  BY ParsedFields
<1>2. r.rec = "order" /\ r.order \in Orders(Int)
  BY DEF OrderRecs
<1>3. ReadRecord(p, r) = [p EXCEPT !.books[n].orders = Append(@, r.order)]
  BY <1>2 DEF ReadRecord
<1>4. bs = [i \in 1 .. n |-> bs[i]]
  BY <1>1
<1>5. ReadRecord(p, r) = [cfg |-> c, books |-> [bs EXCEPT ![n] = [bs[n] EXCEPT !.orders = Append(@, r.order)]]]
  <2> HIDE DEF n, c, bs
  <2>. QED BY <1>1, <1>3
<1>6. [bs EXCEPT ![n] = [bs[n] EXCEPT !.orders = Append(@, r.order)]] = q
  <2> DEFINE x == [bs[n] EXCEPT !.orders = Append(@, r.order)]
             y == [i \in 1 .. n |-> IF i = n THEN x ELSE bs[i]]
  <2>1. y = q
    OBVIOUS
  <2> HIDE DEF n, bs, x, q
  <2>2. [bs EXCEPT ![n] = x] = y
    BY <1>4
  <2>. QED BY <2>1, <2>2 DEF x
<1>7. ASSUME NEW i \in 1 .. n
      PROVE  /\ q[i] \in ParsedBooks /\ q[i].sym = bs[i].sym /\ q[i].seq = bs[i].seq
             /\ q[i].orders = IF i = n THEN Append(bs[i].orders, r.order) ELSE bs[i].orders
  <2> DEFINE b == bs[i]
  <2>1. b \in ParsedBooks
    BY <1>1
  <2>2. b.sym \in Nameable /\ b.seq \in Nat /\ b.orders \in Seq(Orders(Int))
        /\ b = [sym |-> b.sym, seq |-> b.seq, orders |-> b.orders]
    BY <2>1 DEF ParsedBooks
  <2>3. q[i] = IF i = n THEN [b EXCEPT !.orders = Append(@, r.order)] ELSE b
    OBVIOUS
  <2> DEFINE s == b.sym
             k == b.seq
             os == b.orders
             more == Append(os, r.order)
  <2>4. more \in Seq(Orders(Int))
    BY <1>2, <2>2
  <2>5. [b EXCEPT !.orders = Append(@, r.order)] = [sym |-> s, seq |-> k, orders |-> more]
    <3>1. b = [sym |-> s, seq |-> k, orders |-> os]
      BY <2>2
    <3> HIDE DEF b, s, k, os
    <3>. QED BY <3>1
  <2> HIDE DEF q, b, n, more
  <2>6. i # n => q[i] = b
    BY <2>3
  <2>7. CASE i = n
    <3>1. q[i] = [sym |-> s, seq |-> k, orders |-> more]
      BY <2>3, <2>5, <2>7
    <3>2. q[i] \in ParsedBooks
      BY <2>2, <2>4, <3>1 DEF ParsedBooks
    <3>. QED BY <2>7, <3>1, <3>2 DEF more, b
  <2>. QED BY <2>1, <2>6, <2>7 DEF b
<1>8. q \in Seq(ParsedBooks) /\ Len(q) = n
  <2> HIDE DEF n
  <2>1. \A i \in 1 .. n : q[i] \in ParsedBooks
    BY <1>7
  <2>2. q = [i \in 1 .. n |-> q[i]]
    OBVIOUS
  <2> HIDE DEF q
  <2>. QED BY <1>1, <2>1, <2>2
<1> HIDE DEF q, c
<1>9. ReadRecord(p, r) = [cfg |-> c, books |-> q]
  BY <1>5, <1>6
<1>10. ReadRecord(p, r) \in ParsedForm /\ ReadRecord(p, r).cfg = c /\ ReadRecord(p, r).books = q
  BY <1>1, <1>8, <1>9 DEF ParsedForm
<1>. QED BY <1>7, <1>8, <1>10 DEF OrderRead, c

\* The record of a book.
LEMMA ReadBook ==
    ASSUME NEW p \in ParsedForm, NEW r \in BookRecs
    PROVE  BookRead(p, ReadRecord(p, r), r)
<1> DEFINE c == p.cfg
           bs == p.books
           b == [sym |-> r.sym, seq |-> r.seq, orders |-> <<>>]
<1>1. c \in Configs /\ bs \in Seq(ParsedBooks) /\ Len(bs) \in Nat /\ p = [cfg |-> c, books |-> bs]
  BY ParsedFields
<1>2. r.rec = "book" /\ b \in ParsedBooks
  BY DEF BookRecs, ParsedBooks
<1>3. ReadRecord(p, r) = [p EXCEPT !.books = Append(@, b)]
  BY <1>2 DEF ReadRecord
<1> HIDE DEF c, bs, b
<1>4. ReadRecord(p, r) = [cfg |-> c, books |-> Append(bs, b)]
  BY <1>1, <1>3
<1>5. /\ Append(bs, b) \in Seq(ParsedBooks) /\ Len(Append(bs, b)) = Len(bs) + 1
      /\ \A i \in 1 .. Len(bs) : Append(bs, b)[i] = bs[i]
      /\ Append(bs, b)[Len(bs) + 1] = b
  BY <1>1, <1>2, AppendProperties
<1>6. /\ ReadRecord(p, r) \in ParsedForm /\ ReadRecord(p, r).cfg = c
      /\ ReadRecord(p, r).books = Append(bs, b)
  BY <1>1, <1>4, <1>5 DEF ParsedForm
<1>. QED BY <1>5, <1>6 DEF BookRead, c, bs, b

\* A header, whole or cut.
LEMMA ReadMeta ==
    ASSUME NEW p \in ParsedForm, NEW r \in MetaRecs \cup CutRecs
    PROVE  /\ ReadRecord(p, r) \in ParsedForm /\ ReadRecord(p, r).books = p.books
           /\ r \in MetaRecs => ReadRecord(p, r).cfg = r.cfg
<1> DEFINE c == p.cfg
           bs == p.books
<1>1. c \in Configs /\ bs \in Seq(ParsedBooks) /\ p = [cfg |-> c, books |-> bs]
  BY ParsedFields
<1>2. CASE r \in MetaRecs
  <2>1. r.rec = "meta" /\ r.cfg \in Configs
    BY <1>2 DEF MetaRecs
  <2>2. ReadRecord(p, r) = [p EXCEPT !.cfg = r.cfg]
    BY <2>1 DEF ReadRecord
  <2> HIDE DEF c, bs
  <2>3. ReadRecord(p, r) = [cfg |-> r.cfg, books |-> bs]
    BY <1>1, <2>2
  <2>. QED BY <1>1, <2>1, <2>3 DEF ParsedForm, bs
<1>3. CASE r \in CutRecs
  <2>1. r.rec = "cut"
    BY <1>3 DEF CutRecs
  <2>2. r \notin MetaRecs
    BY <2>1 DEF MetaRecs
  <2>3. ReadRecord(p, r) = [p EXCEPT !.cfg = ResetConfig(@)]
    BY <2>1 DEF ReadRecord
  <2>4. ResetConfig(c) \in Configs
    <3> DEFINE ps == c.prices
               m == c.max
               x == c.index
    <3>1. ps \subseteq Int /\ x \in {"Ladder", "Tree"} /\ c = [prices |-> ps, max |-> m, index |-> x]
      BY <1>1 DEF Configs
    <3>2. ResetConfig(c) = [c EXCEPT !.max = 0, !.prices = IF x = "Ladder" THEN {0} ELSE @]
      BY DEF ResetConfig
    <3> DEFINE z == IF x = "Ladder" THEN {0} ELSE ps
    <3>3. z \subseteq Int
      BY <3>1
    <3> HIDE DEF c, ps, m, x
    <3>4. ResetConfig(c) = [prices |-> z, max |-> 0, index |-> x]
      BY <3>1, <3>2
    <3> HIDE DEF z
    <3>5. [prices |-> z, max |-> 0, index |-> x] \in Configs
      BY <3>1, <3>3 DEF Configs
    <3>. QED BY <3>4, <3>5 DEF c
  <2> HIDE DEF c, bs
  <2>5. ReadRecord(p, r) = [cfg |-> ResetConfig(c), books |-> bs]
    BY <1>1, <2>3
  <2>. QED BY <1>1, <2>2, <2>4, <2>5 DEF ParsedForm, bs
<1>. QED BY <1>2, <1>3

\* All of them leave something that can go on.
LEMMA ReadTyped ==
    ASSUME NEW p \in ParsedForm, NEW r \in AllRecs
    PROVE  ReadRecord(p, r) \in ParsedForm
<1>1. r \in BookRecs => ReadRecord(p, r) \in ParsedForm
  BY ReadBook DEF BookRead
<1>2. r \in OrderRecs => ReadRecord(p, r) \in ParsedForm
  BY ReadOrder DEF OrderRead
<1>3. r \in MetaRecs \cup CutRecs => ReadRecord(p, r) \in ParsedForm
  BY ReadMeta
<1>. QED BY <1>1, <1>2, <1>3 DEF AllRecs

\* f is what has been parsed after so many records of recs.
Parses(f, recs) ==
    /\ f \in [0 .. Len(recs) -> ParsedForm]
    /\ f[0] = [cfg |-> LibraryCfg, books |-> <<>>]
    /\ \A k \in 1 .. Len(recs) : f[k] = ReadRecord(f[k - 1], recs[k])

\* ParseSnapshot goes through them one after the other.
LEMMA ParseRuns ==
    ASSUME Readable \in Seq(AllRecs)
    PROVE  \E f : Parses(f, Readable) /\ ParseSnapshot = f[Len(Readable)]
<1> DEFINE n == Len(Readable)
           V == ParsedForm
           base == [cfg |-> LibraryCfg, books |-> <<>>]
           step == [a \in (1 .. n) \X V |-> ReadRecord(a[2], Readable[a[1]])]
           IsParsed(f) == f = [k \in 0 .. Len(Readable) |->
                                 IF k = 0 THEN [cfg |-> LibraryCfg, books |-> <<>>]
                                 ELSE ReadRecord(f[k - 1], Readable[k])]
           parsed == CHOOSE f : IsParsed(f)
<1>1. n \in Nat /\ \A k \in 1 .. n : Readable[k] \in AllRecs
  OBVIOUS
<1>2. base \in V
  <2>1. <<>> \in Seq(ParsedBooks)
    OBVIOUS
  <2>. QED BY <2>1, ConfigAssumption DEF ParsedForm
<1>3. step \in [(1 .. n) \X V -> V]
  <2>1. ASSUME NEW a \in (1 .. n) \X V PROVE ReadRecord(a[2], Readable[a[1]]) \in V
    <3>1. a[1] \in 1 .. n /\ a[2] \in V
      OBVIOUS
    <3>. QED BY <1>1, <3>1, ReadTyped
  <2>. QED BY <2>1
<1> HIDE DEF n, base
<1>4. PICK f : Steps(f, n, V, base, step)
  <2> HIDE DEF step, V
  <2>. QED BY <1>1, <1>2, <1>3, StepsExist
<1>5. f \in [0 .. n -> V] /\ f[0] = base
  BY <1>4 DEF Steps
<1>6. ASSUME NEW k \in 1 .. n PROVE f[k] = ReadRecord(f[k - 1], Readable[k])
  <2>1. k - 1 \in 0 .. n
    BY <1>1
  <2>2. f[k - 1] \in V /\ <<k, f[k - 1]>> \in (1 .. n) \X V
    BY <1>5, <2>1
  <2>3. f[k] = step[<<k, f[k - 1]>>]
    BY <1>4 DEF Steps
  <2>. QED BY <2>2, <2>3
<1>7. IsParsed(f)
  <2> DEFINE G == [k \in 0 .. n |-> IF k = 0 THEN base ELSE ReadRecord(f[k - 1], Readable[k])]
  <2>1. \A k \in 0 .. n : k = 0 \/ k \in 1 .. n
    BY <1>1
  <2>2. ASSUME NEW k \in 0 .. n PROVE f[k] = G[k]
    <3>1. CASE k = 0
      BY <1>5, <3>1
    <3>2. CASE k \in 1 .. n
      BY <1>1, <1>6, <3>2
    <3>. QED BY <2>1, <3>1, <3>2
  <2>3. f = [k \in 0 .. n |-> f[k]] /\ G = [k \in 0 .. n |-> G[k]]
    BY <1>5
  <2> HIDE DEF G
  <2>4. f = G
    BY <2>2, <2>3
  <2>. QED BY <2>4 DEF G, n, base
<1>8. IsParsed(parsed)
  BY <1>7
<1>9. ParseSnapshot = parsed[n]
  BY DEF ParseSnapshot, n
<1> HIDE DEF parsed
<1>10. parsed = [k \in 0 .. n |-> IF k = 0 THEN base ELSE ReadRecord(parsed[k - 1], Readable[k])]
  BY <1>8 DEF n, base
<1>11. parsed[0] = base /\ \A k \in 1 .. n : parsed[k] = ReadRecord(parsed[k - 1], Readable[k])
  <2>1. 0 \in 0 .. n /\ \A k \in 1 .. n : k \in 0 .. n /\ k # 0
    BY <1>1
  <2>. QED BY <1>10, <2>1
<1>12. \A k \in 0 .. n : parsed[k] \in V
  <2> DEFINE Good == {k \in 0 .. n : parsed[k] \in V}
  <2>1. 0 \in Good
    BY <1>1, <1>2, <1>11
  <2>2. ASSUME NEW k \in 1 .. n, k - 1 \in Good PROVE k \in Good
    <3>1. parsed[k - 1] \in V /\ k \in 0 .. n
      BY <1>1, <2>2
    <3>2. parsed[k] \in V
      BY <1>1, <1>11, <3>1, ReadTyped
    <3>. QED BY <3>1, <3>2
  <2> HIDE DEF Good
  <2>3. \A k \in 0 .. n : k \in Good
    BY <1>1, <2>1, <2>2, CountUp
  <2>. QED BY <2>3 DEF Good
<1>13. parsed \in [0 .. n -> V]
  BY <1>10, <1>12
<1>14. Parses(parsed, Readable)
  BY <1>11, <1>13 DEF Parses, n, base
<1>. QED BY <1>9, <1>14 DEF n

-----------------------------------------------------------------------------
(* How far the parser has come with the books of eng *)

\* The header is the first record, the blocks follow.
LaidOut(recs, eng, at) ==
    /\ Laid(recs, eng, DOMAIN eng.books, at, 2)
    /\ recs[1] = [rec |-> "meta", cfg |-> eng.cfg] /\ Len(recs) > 0

\* A record is in one block only, as its book or as one of its orders.
LEMMA RecordAt ==
    ASSUME NEW recs, NEW eng, NEW at, LaidOut(recs, eng, at), NEW x \in DOMAIN eng.books, NEW i,
           InBlock(eng, at, x, i)
    PROVE  /\ at[x] \in Nat /\ Size(eng, x) \in Nat /\ i \in Nat /\ at[x] <= i /\ 2 <= at[x]
           /\ i <= at[x] + Size(eng, x) /\ i \in 2 .. Len(recs) /\ Len(recs) \in Nat
           /\ recs[i].sym = x
           /\ i = at[x] => recs[i] = BookRec(eng, x)
           /\ i # at[x] => /\ i - at[x] \in 1 .. Size(eng, x)
                           /\ recs[i] = OrderRec(eng, x, i - at[x])
           /\ \A y \in DOMAIN eng.books : InBlock(eng, at, y, i) => y = x
<1>1. ASSUME NEW y \in DOMAIN eng.books, InBlock(eng, at, y, i)
      PROVE  /\ at[y] \in Nat /\ Size(eng, y) \in Nat /\ i \in Nat /\ at[y] <= i /\ 2 <= at[y]
             /\ i <= at[y] + Size(eng, y) /\ i \in 2 .. Len(recs) /\ Len(recs) \in Nat
             /\ recs[i].sym = y
             /\ i = at[y] => recs[i] = BookRec(eng, y)
             /\ i # at[y] => /\ i - at[y] \in 1 .. Size(eng, y)
                             /\ recs[i] = OrderRec(eng, y, i - at[y])
  <2>1. /\ Len(recs) \in Nat /\ at[y] \in Nat /\ Size(eng, y) \in Nat /\ 2 <= at[y]
        /\ at[y] + Size(eng, y) <= Len(recs) /\ recs[at[y]] = BookRec(eng, y)
        /\ \A k \in 1 .. Size(eng, y) : recs[at[y] + k] = OrderRec(eng, y, k)
    BY DEF LaidOut, Laid
  <2>2. i \in at[y] .. (at[y] + Size(eng, y))
    BY <1>1 DEF InBlock
  <2>3. i \in Nat /\ at[y] <= i /\ i <= at[y] + Size(eng, y) /\ i \in 2 .. Len(recs)
    BY <2>1, <2>2
  <2>4. i # at[y] => i - at[y] \in 1 .. Size(eng, y) /\ at[y] + (i - at[y]) = i
    BY <2>1, <2>3
  <2>5. i # at[y] => recs[i] = OrderRec(eng, y, i - at[y])
    BY <2>1, <2>4
  <2>6. i = at[y] => recs[i] = BookRec(eng, y)
    BY <2>1
  <2>7. recs[i].sym = y
    BY <2>5, <2>6 DEF OrderRec, BookRec
  <2>. QED BY <2>1, <2>3, <2>4, <2>5, <2>6, <2>7
<1>2. \A y \in DOMAIN eng.books : InBlock(eng, at, y, i) => recs[i].sym = y
  BY <1>1
<1>. QED BY <1>1, <1>2

\* A book as far as the records up to k give it.
EntryTo(e, eng, at, k) ==
    /\ e.sym \in DOMAIN eng.books /\ at[e.sym] <= k /\ e.seq = eng.books[e.sym].seq
    /\ Len(e.orders) = IF k - at[e.sym] <= Size(eng, e.sym) THEN k - at[e.sym]
                       ELSE Size(eng, e.sym)
    /\ \A j \in 1 .. Len(e.orders) : e.orders[j] = OrdersOf(eng, e.sym)[j]

ParsedTo(p, eng, at, k) ==
    /\ p \in ParsedForm
    /\ k > 0 => p.cfg = eng.cfg
    /\ \A i \in 1 .. Len(p.books) : EntryTo(p.books[i], eng, at, k)
    /\ \A i, j \in 1 .. Len(p.books) : p.books[i].sym = p.books[j].sym => i = j
    /\ \A x \in DOMAIN eng.books :
          at[x] <= k => \E i \in 1 .. Len(p.books) : p.books[i].sym = x
    /\ \A x \in DOMAIN eng.books :
          InBlock(eng, at, x, k) => Len(p.books) > 0 /\ p.books[Len(p.books)].sym = x

\* The others stay as they are while a block is read.
LEMMA EntryStays ==
    ASSUME NEW recs, NEW eng, NEW at, LaidOut(recs, eng, at), NEW k \in Nat \ {0},
           NEW e, EntryTo(e, eng, at, k - 1), ~InBlock(eng, at, e.sym, k)
    PROVE  EntryTo(e, eng, at, k)
<1> DEFINE a == at[e.sym]
           n == Size(eng, e.sym)
<1>1. a \in Nat /\ n \in Nat /\ a <= k - 1
  BY DEF EntryTo, LaidOut, Laid
<1>2. ~(k \in a .. (a + n))
  BY DEF InBlock
<1>3. Len(e.orders) = IF k - 1 - a <= n THEN k - 1 - a ELSE n
  BY DEF EntryTo
<1> HIDE DEF a, n
<1>4. a <= k /\ Len(e.orders) = IF k - a <= n THEN k - a ELSE n
  BY <1>1, <1>2, <1>3
<1>. QED BY <1>4 DEF EntryTo, a, n

\* The header.
LEMMA HeaderParsed ==
    ASSUME NEW recs, NEW eng, GoodEngine(eng), NEW at, LaidOut(recs, eng, at), NEW p,
           ParsedTo(p, eng, at, 0)
    PROVE  ParsedTo(ReadRecord(p, recs[1]), eng, at, 1)
<1> DEFINE q == ReadRecord(p, recs[1])
<1>1. recs[1] = [rec |-> "meta", cfg |-> eng.cfg] /\ eng.cfg \in Configs
  BY EngineFields DEF LaidOut
<1>2. recs[1] \in MetaRecs /\ recs[1].cfg = eng.cfg
  BY <1>1 DEF MetaRecs
<1>3. q \in ParsedForm /\ q.books = p.books /\ q.cfg = eng.cfg
  BY <1>2, ReadMeta DEF ParsedTo
<1> HIDE DEF q
<1>4. \A x \in DOMAIN eng.books : at[x] \in Nat /\ 2 <= at[x]
  BY DEF LaidOut, Laid
<1>5. \A i \in 1 .. Len(p.books) : FALSE
  <2> TAKE i \in 1 .. Len(p.books)
  <2>1. EntryTo(p.books[i], eng, at, 0)
    BY DEF ParsedTo
  <2>2. p.books[i].sym \in DOMAIN eng.books /\ at[p.books[i].sym] <= 0
    BY <2>1 DEF EntryTo
  <2>. QED BY <1>4, <2>2
<1>6. \A x \in DOMAIN eng.books : ~(at[x] <= 1) /\ ~InBlock(eng, at, x, 1)
  BY <1>4 DEF InBlock
<1>7. ParsedTo(q, eng, at, 1)
  BY <1>3, <1>5, <1>6 DEF ParsedTo
<1>. QED BY <1>7 DEF q

\* The record of a book.
LEMMA BookParsed ==
    ASSUME NEW recs, NEW eng, GoodEngine(eng), NEW at, LaidOut(recs, eng, at),
           NEW k \in 2 .. Len(recs), NEW p, ParsedTo(p, eng, at, k - 1),
           NEW x \in DOMAIN eng.books, InBlock(eng, at, x, k), k = at[x]
    PROVE  ParsedTo(ReadRecord(p, recs[k]), eng, at, k)
<1> DEFINE q == ReadRecord(p, recs[k])
           r == recs[k]
           n == Len(p.books)
           e == [sym |-> x, seq |-> eng.books[x].seq, orders |-> <<>>]
<1>1. r = BookRec(eng, x) /\ k \in Nat /\ k \in Nat \ {0} /\ Size(eng, x) \in Nat /\ at[x] \in Nat
      /\ \A y \in DOMAIN eng.books : InBlock(eng, at, y, k) => y = x
  BY RecordAt
<1>2. x \in Nameable /\ eng.books[x].seq \in Nat
  BY ListingOf
<1>3. r \in BookRecs /\ r.sym = x /\ r.seq = eng.books[x].seq
  BY <1>1, <1>2 DEF BookRec, BookRecs
<1>4. p \in ParsedForm /\ n \in Nat
  BY ParsedFields DEF ParsedTo
<1>5. /\ q \in ParsedForm /\ q.cfg = p.cfg /\ Len(q.books) = n + 1
      /\ \A i \in 1 .. n : q.books[i] = p.books[i]
      /\ q.books[n + 1] = e
  <2>1. BookRead(p, q, r)
    BY <1>3, <1>4, ReadBook
  <2>. QED BY <1>3, <2>1 DEF BookRead
<1> HIDE DEF q, r, n
<1>6. \A i \in 1 .. n : EntryTo(p.books[i], eng, at, k - 1) /\ p.books[i].sym # x
  <2> TAKE i \in 1 .. n
  <2>1. EntryTo(p.books[i], eng, at, k - 1)
    BY DEF ParsedTo, n
  <2>2. at[p.books[i].sym] <= k - 1
    BY <2>1 DEF EntryTo
  <2>. QED BY <1>1, <2>1, <2>2
<1>7. \A i \in 1 .. n : EntryTo(q.books[i], eng, at, k)
  <2> TAKE i \in 1 .. n
  <2>1. EntryTo(p.books[i], eng, at, k - 1) /\ p.books[i].sym # x
    BY <1>6
  <2>2. ~InBlock(eng, at, p.books[i].sym, k)
    BY <1>1, <2>1 DEF EntryTo
  <2>3. EntryTo(p.books[i], eng, at, k)
    BY <1>1, <2>1, <2>2, EntryStays
  <2>. QED BY <1>5, <2>3
<1>8. EntryTo(e, eng, at, k)
  <2>1. e.sym = x /\ e.seq = eng.books[x].seq /\ e.orders = <<>> /\ Len(e.orders) = 0
    OBVIOUS
  <2> HIDE DEF e
  <2>2. k - at[e.sym] = 0 /\ at[e.sym] <= k
    BY <1>1, <2>1
  <2>3. 1 .. Len(e.orders) = {}
    BY <2>1
  <2>. QED BY <1>1, <2>1, <2>2, <2>3 DEF EntryTo
<1>9. e.sym = x
  OBVIOUS
<1> HIDE DEF e
<1>10. \A i \in 1 .. (n + 1) : EntryTo(q.books[i], eng, at, k)
  BY <1>4, <1>5, <1>7, <1>8
<1>11. \A i, j \in 1 .. (n + 1) : q.books[i].sym = q.books[j].sym => i = j
  <2> TAKE i, j \in 1 .. (n + 1)
  <2> HAVE q.books[i].sym = q.books[j].sym
  <2>1. CASE i \in 1 .. n /\ j \in 1 .. n
    BY <1>5, <2>1 DEF ParsedTo, n
  <2>2. CASE i = n + 1 /\ j \in 1 .. n
    BY <1>5, <1>6, <1>9, <2>2
  <2>3. CASE i \in 1 .. n /\ j = n + 1
    BY <1>5, <1>6, <1>9, <2>3
  <2>. QED BY <1>4, <2>1, <2>2, <2>3
<1>12. ASSUME NEW y \in DOMAIN eng.books, at[y] <= k
       PROVE  \E i \in 1 .. (n + 1) : q.books[i].sym = y
  <2>1. CASE y = x
    <3>1. n + 1 \in 1 .. (n + 1)
      BY <1>4
    <3>. QED BY <1>5, <1>9, <2>1, <3>1
  <2>2. CASE y # x
    <3>1. ~InBlock(eng, at, y, k) /\ at[y] \in Nat /\ Size(eng, y) \in Nat
      BY <1>1, <2>2 DEF LaidOut, Laid
    <3>2. at[y] <= k - 1
      BY <1>1, <1>12, <3>1 DEF InBlock
    <3>3. PICK i \in 1 .. n : p.books[i].sym = y
      BY <3>2 DEF ParsedTo, n
    <3>4. i \in 1 .. (n + 1) /\ q.books[i].sym = y
      BY <1>4, <1>5, <3>3
    <3>. QED BY <3>4
  <2>. QED BY <2>1, <2>2
<1>13. q.cfg = eng.cfg
  <2>1. k - 1 > 0
    BY <1>1
  <2>. QED BY <1>5, <2>1 DEF ParsedTo
<1>14. ParsedTo(q, eng, at, k)
  <2>1. Len(q.books) > 0 /\ q.books[Len(q.books)].sym = x
    BY <1>4, <1>5, <1>9
  <2>. QED BY <1>1, <1>5, <1>10, <1>11, <1>12, <1>13, <2>1 DEF ParsedTo
<1>. QED BY <1>14 DEF q

\* The record of an order.
LEMMA OrderParsed ==
    ASSUME NEW recs, NEW eng, GoodEngine(eng), NEW at, LaidOut(recs, eng, at),
           NEW k \in 2 .. Len(recs), NEW p, ParsedTo(p, eng, at, k - 1),
           NEW x \in DOMAIN eng.books, InBlock(eng, at, x, k), k # at[x]
    PROVE  ParsedTo(ReadRecord(p, recs[k]), eng, at, k)
<1> DEFINE q == ReadRecord(p, recs[k])
           r == recs[k]
           n == Len(p.books)
           d == k - at[x]
<1>1. /\ r = OrderRec(eng, x, d) /\ d \in 1 .. Size(eng, x) /\ k \in Nat /\ k \in Nat \ {0}
      /\ Size(eng, x) \in Nat /\ at[x] \in Nat /\ at[x] <= k /\ k <= at[x] + Size(eng, x)
      /\ \A y \in DOMAIN eng.books : InBlock(eng, at, y, k) => y = x
  BY RecordAt
<1>2. x \in Nameable /\ OrdersOf(eng, x)[d] \in Orders(Int)
  BY <1>1, ListingOf
<1>3. r \in OrderRecs /\ r.order = OrdersOf(eng, x)[d]
  BY <1>1, <1>2 DEF OrderRec, OrderRecs
<1>4. p \in ParsedForm /\ n \in Nat
  BY ParsedFields DEF ParsedTo
<1>5. OrderRead(p, q, OrdersOf(eng, x)[d])
  <2>1. OrderRead(p, q, r.order)
    BY <1>3, <1>4, ReadOrder
  <2>. QED BY <1>3, <2>1
<1> HIDE DEF q, r
<1>6. q \in ParsedForm /\ q.cfg = p.cfg /\ Len(q.books) = n
      /\ \A i \in 1 .. n : q.books[i].sym = p.books[i].sym /\ q.books[i].seq = p.books[i].seq
  BY <1>5 DEF OrderRead
<1>7. InBlock(eng, at, x, k - 1)
  BY <1>1 DEF InBlock
<1>8. n > 0 /\ n \in 1 .. n /\ p.books[n].sym = x
  BY <1>4, <1>7 DEF ParsedTo
<1>9. ASSUME NEW i \in 1 .. n PROVE EntryTo(q.books[i], eng, at, k)
  <2> DEFINE e == p.books[i]
             g == q.books[i]
  <2>1. EntryTo(e, eng, at, k - 1)
    BY DEF ParsedTo
  <2>2. CASE i = n
    <3>1. /\ e.sym = x /\ e.seq = eng.books[x].seq
          /\ Len(e.orders) = IF k - 1 - at[x] <= Size(eng, x) THEN k - 1 - at[x] ELSE Size(eng, x)
          /\ \A j \in 1 .. Len(e.orders) : e.orders[j] = OrdersOf(eng, x)[j]
      BY <1>8, <2>1, <2>2 DEF EntryTo
    <3>2. g.sym = x /\ g.seq = eng.books[x].seq /\ g.orders = Append(e.orders, OrdersOf(eng, x)[d])
      BY <1>5, <1>8, <2>2, <3>1 DEF OrderRead
    <3>3. e.orders \in Seq(Orders(Int))
      BY <1>4, ParsedFields
    <3> HIDE DEF e, g
    <3>4. Len(e.orders) = d - 1
      BY <1>1, <3>1
    <3> HIDE DEF d
    <3>5. Len(g.orders) = d /\ \A j \in 1 .. d : g.orders[j] = OrdersOf(eng, x)[j]
      <4>1. /\ Len(g.orders) = Len(e.orders) + 1
            /\ \A j \in 1 .. Len(e.orders) : g.orders[j] = e.orders[j]
            /\ g.orders[Len(e.orders) + 1] = OrdersOf(eng, x)[d]
        BY <1>2, <3>2, <3>3, AppendProperties
      <4>2. d \in Nat /\ Len(e.orders) + 1 = d
        BY <1>1, <3>4
      <4>3. \A j \in 1 .. d : j = d \/ j \in 1 .. Len(e.orders)
        BY <4>2, <3>4
      <4>4. \A j \in 1 .. Len(e.orders) : g.orders[j] = OrdersOf(eng, x)[j]
        BY <3>1, <4>1
      <4>. QED BY <4>1, <4>2, <4>3, <4>4
    <3>6. k - at[x] <= Size(eng, x)
      BY <1>1
    <3>7. EntryTo(g, eng, at, k)
      BY <1>1, <3>2, <3>5, <3>6 DEF EntryTo, d
    <3>. QED BY <3>7 DEF g
  <2>3. CASE i # n
    <3>1. e.sym # x
      BY <1>8, <2>3 DEF ParsedTo
    <3>2. ~InBlock(eng, at, e.sym, k)
      BY <1>1, <2>1, <3>1 DEF EntryTo
    <3>3. EntryTo(e, eng, at, k)
      BY <1>1, <2>1, <3>2, EntryStays
    <3>4. g.sym = e.sym /\ g.seq = e.seq /\ g.orders = e.orders
      BY <1>5, <2>3 DEF OrderRead
    <3> HIDE DEF e, g
    <3>5. EntryTo(g, eng, at, k)
      BY <3>3, <3>4 DEF EntryTo
    <3>. QED BY <3>5 DEF g
  <2>. QED BY <2>2, <2>3
<1>10. \A i, j \in 1 .. n : q.books[i].sym = q.books[j].sym => i = j
  BY <1>6 DEF ParsedTo
<1>11. ASSUME NEW y \in DOMAIN eng.books, at[y] <= k
       PROVE  \E i \in 1 .. n : q.books[i].sym = y
  <2>1. CASE y = x
    BY <1>6, <1>8, <2>1
  <2>2. CASE y # x
    <3>1. ~InBlock(eng, at, y, k) /\ at[y] \in Nat /\ Size(eng, y) \in Nat
      BY <1>1, <2>2 DEF LaidOut, Laid
    <3>2. at[y] <= k - 1
      BY <1>1, <1>11, <3>1 DEF InBlock
    <3>3. PICK i \in 1 .. n : p.books[i].sym = y
      BY <3>2 DEF ParsedTo
    <3>. QED BY <1>6, <3>3
  <2>. QED BY <2>1, <2>2
<1>12. q.cfg = eng.cfg
  <2>1. k - 1 > 0
    BY <1>1
  <2>. QED BY <1>6, <2>1 DEF ParsedTo
<1>13. q.books[n].sym = x
  BY <1>6, <1>8
<1>14. ParsedTo(q, eng, at, k)
  <2> HIDE DEF n
  <2>. QED BY <1>1, <1>6, <1>8, <1>9, <1>10, <1>11, <1>12, <1>13 DEF ParsedTo
<1>. QED BY <1>14 DEF q

\* So as far as the whole records go the books are those of eng.
LEMMA ParseFollows ==
    ASSUME NEW recs, NEW eng, GoodEngine(eng), NEW at, LaidOut(recs, eng, at), NEW f, NEW read,
           Parses(f, read), NEW n \in 0 .. Len(recs), Len(read) \in Nat, n <= Len(read),
           \A i \in 1 .. n : read[i] = recs[i]
    PROVE  \A k \in 0 .. n : ParsedTo(f[k], eng, at, k)
<1> DEFINE Good == {k \in 0 .. n : ParsedTo(f[k], eng, at, k)}
<1>1. Len(recs) \in Nat /\ n \in Nat
  BY DEF LaidOut, Laid
<1>2. 0 \in Good
  <2>1. f[0] = [cfg |-> LibraryCfg, books |-> <<>>] /\ 0 \in 0 .. Len(read)
    BY DEF Parses
  <2>2. f[0] \in ParsedForm
    BY <2>1 DEF Parses
  <2>3. f[0].books = <<>> /\ Len(<<>>) = 0
    BY <2>1
  <2>4. \A x \in DOMAIN eng.books : at[x] \in Nat /\ 2 <= at[x]
    BY DEF LaidOut, Laid
  <2>5. \A x \in DOMAIN eng.books : ~(at[x] <= 0) /\ ~InBlock(eng, at, x, 0)
    BY <2>4 DEF InBlock
  <2>6. ParsedTo(f[0], eng, at, 0)
    BY <2>2, <2>3, <2>5 DEF ParsedTo
  <2>. QED BY <1>1, <2>6
<1>3. ASSUME NEW k \in 1 .. n, k - 1 \in Good PROVE k \in Good
  <2>1. ParsedTo(f[k - 1], eng, at, k - 1)
    BY <1>3
  <2>2. f[k] = ReadRecord(f[k - 1], recs[k])
    <3>1. k \in 1 .. Len(read) /\ read[k] = recs[k]
      BY <1>1
    <3>. QED BY <3>1 DEF Parses
  <2>3. CASE k = 1
    <3>1. ParsedTo(f[0], eng, at, 0)
      BY <2>1, <2>3
    <3>2. f[1] = ReadRecord(f[0], recs[1])
      BY <2>2, <2>3
    <3>3. ParsedTo(f[1], eng, at, 1)
      BY <3>1, <3>2, HeaderParsed
    <3>. QED BY <2>3, <3>3
  <2>4. CASE k # 1
    <3>1. k \in 2 .. Len(recs)
      BY <1>1, <2>4
    <3>2. PICK x \in DOMAIN eng.books : InBlock(eng, at, x, k)
      BY <3>1 DEF LaidOut, Laid
    <3>3. ParsedTo(ReadRecord(f[k - 1], recs[k]), eng, at, k)
      BY <2>1, <3>1, <3>2, BookParsed, OrderParsed
    <3>4. k \in 0 .. n
      BY <1>1
    <3>. QED BY <2>2, <3>3, <3>4
  <2>. QED BY <2>3, <2>4
<1> HIDE DEF Good
<1>4. \A k \in 0 .. n : k \in Good
  BY <1>1, <1>2, <1>3, CountUp
<1>. QED BY <1>4 DEF Good

-----------------------------------------------------------------------------
(* What the parser makes of the snapshot *)

\* Orders that differ in quantity only are listed alike.
LEMMA ListAlike ==
    ASSUME NEW prices, NEW os, ListOK(prices, os), NEW hs \in Seq(Orders(prices)),
           Len(hs) = Len(os),
           \A i \in 1 .. Len(os) : hs[i].id = os[i].id /\ hs[i].side = os[i].side
                                   /\ hs[i].price = os[i].price
    PROVE  ListOK(prices, hs)
<1>1. ASSUME NEW i \in 1 .. Len(os), NEW j \in 1 .. Len(os), i < j
      PROVE  /\ hs[i].id # hs[j].id
             /\ ~(hs[i].side = "Ask" /\ hs[j].side = "Bid")
             /\ hs[i].side = hs[j].side => ~Better(hs[i].side, hs[j].price, hs[i].price)
  <2>1. /\ os[i].id # os[j].id
        /\ ~(os[i].side = "Ask" /\ os[j].side = "Bid")
        /\ os[i].side = os[j].side => ~Better(os[i].side, os[j].price, os[i].price)
    BY <1>1 DEF ListOK
  <2>. QED BY <2>1
<1>. QED BY <1>1 DEF ListOK

\* The orders of a book as far as they have been read are the first of its listing.
LEMMA EntryList ==
    ASSUME NEW eng, GoodEngine(eng), NEW recs, NEW at, LaidOut(recs, eng, at), NEW k \in Nat,
           NEW e \in ParsedBooks, EntryTo(e, eng, at, k)
    PROVE  /\ Len(e.orders) \in 0 .. Size(eng, e.sym)
           /\ e.orders = SubSeq(OrdersOf(eng, e.sym), 1, Len(e.orders))
           /\ ListOK(Int, e.orders)
<1> DEFINE os == OrdersOf(eng, e.sym)
           n == Len(e.orders)
           a == at[e.sym]
<1>1. e.sym \in DOMAIN eng.books /\ a <= k /\ \A j \in 1 .. n : e.orders[j] = os[j]
  BY DEF EntryTo
<1>2. os \in Seq(Orders(Int)) /\ Size(eng, e.sym) \in Nat /\ ListOK(Int, os)
      /\ Len(os) = Size(eng, e.sym)
  BY <1>1, ListingOf DEF Size
<1>3. a \in Nat
  BY <1>1 DEF LaidOut, Laid
<1>4. n = IF k - a <= Size(eng, e.sym) THEN k - a ELSE Size(eng, e.sym)
  BY DEF EntryTo
<1>5. e.orders \in Seq(Orders(Int))
  BY DEF ParsedBooks
<1> HIDE DEF os, a
<1>6. n \in 0 .. Size(eng, e.sym)
  BY <1>1, <1>2, <1>3, <1>4
<1> DEFINE ps == SubSeq(os, 1, n)
<1>7. ps \in Seq(Orders(Int)) /\ Len(ps) = n /\ \A j \in 1 .. n : ps[j] = os[j]
  BY <1>2, <1>6
<1>8. ListOK(Int, ps)
  BY <1>2, <1>6, ListPrefix
<1> HIDE DEF ps
<1>9. e.orders = ps
  <2>1. IsSeq(e.orders) /\ IsSeq(ps)
    BY <1>5, <1>7, SeqIsSeq
  <2>. QED BY <1>1, <1>7, <2>1, SameSeq
<1>. QED BY <1>6, <1>8, <1>9 DEF os, ps

\* h is what the parser makes of r when a number of it is cut: a book loses digits of its
\* sequence number, or of its symbol and then all of its sequence number; an order loses
\* digits of its quantity.
CutOf(r, h) ==
    \/ r \in BookRecs /\ h \in BookRecs /\ (h.sym = r.sym \/ h.seq = 0)
    \/ /\ r \in OrderRecs /\ h \in OrderRecs /\ h.sym = r.sym /\ h.order \in Orders(Int)
       /\ h.order.id = r.order.id /\ h.order.side = r.order.side
       /\ h.order.price = r.order.price

\* TornAs gives nothing else but a header and a panic.
LEMMA CutFacts ==
    ASSUME NEW r \in MetaRecs \cup BookRecs \cup OrderRecs, NEW h \in TornAs(r)
    PROVE  \/ h = [rec |-> "cut"]
           \/ h = [rec |-> "panic"]
           \/ CutOf(r, h) /\ r \notin MetaRecs /\ h.rec # "panic" /\ h.rec # "cut"
<1>0. ASSUME NEW n, NEW m \in CutOff(n) PROVE m \in 0 .. n
  BY DEF CutOff
<1>1. CASE r \in MetaRecs
  <2>1. r.rec = "meta"
    BY <1>1 DEF MetaRecs
  <2>. QED BY <2>1 DEF TornAs
<1>2. CASE r \in BookRecs
  <2> DEFINE s == r.sym
             k == r.seq
  <2>1. s \in Nameable /\ k \in Nat /\ r = [rec |-> "book", sym |-> s, seq |-> k]
        /\ r.rec = "book"
    BY <1>2 DEF BookRecs
  <2>2. \/ h = [rec |-> "cut"]
        \/ \E m \in CutOff(k) : h = [r EXCEPT !.seq = m]
        \/ \E m \in CutOff(s) : h = [r EXCEPT !.sym = m, !.seq = 0]
    BY <2>1 DEF TornAs
  <2>3. r \notin MetaRecs
    BY <2>1 DEF MetaRecs
  <2> HIDE DEF s, k
  <2>4. ASSUME NEW m \in CutOff(k), h = [r EXCEPT !.seq = m] PROVE CutOf(r, h) /\ h.rec = "book"
    <3>1. h = [rec |-> "book", sym |-> s, seq |-> m]
      BY <2>1, <2>4
    <3>2. m \in Nat
      BY <1>0, <2>1
    <3>3. h \in BookRecs /\ h.sym = s /\ h.rec = "book"
      BY <2>1, <3>1, <3>2 DEF BookRecs
    <3>. QED BY <1>2, <3>3 DEF CutOf, s
  <2>5. ASSUME NEW m \in CutOff(s), h = [r EXCEPT !.sym = m, !.seq = 0]
        PROVE  CutOf(r, h) /\ h.rec = "book"
    <3>1. h = [rec |-> "book", sym |-> m, seq |-> 0]
      BY <2>1, <2>5
    <3>2. m \in Nameable
      <4>1. m \in 0 .. s
        BY <1>0
      <4>. QED BY <2>1, <4>1, SymbolFacts
    <3>3. h \in BookRecs /\ h.seq = 0 /\ h.rec = "book"
      BY <3>1, <3>2 DEF BookRecs
    <3>. QED BY <1>2, <3>3 DEF CutOf
  <2>. QED BY <2>2, <2>3, <2>4, <2>5
<1>3. CASE r \in OrderRecs
  <2> DEFINE s == r.sym
             o == r.order
  <2>1. s \in Nameable /\ o \in Orders(Int) /\ r = [rec |-> "order", sym |-> s, order |-> o]
        /\ r.rec = "order"
    BY <1>3 DEF OrderRecs
  <2>2. \/ h = [rec |-> "cut"]
        \/ h = [rec |-> "panic"]
        \/ \E m \in CutOff(o.qty) \ {0} : h = [r EXCEPT !.order.qty = m]
    BY <2>1 DEF TornAs
  <2>3. r \notin MetaRecs
    BY <2>1 DEF MetaRecs
  <2>4. ASSUME NEW m \in CutOff(o.qty) \ {0}, h = [r EXCEPT !.order.qty = m]
        PROVE  CutOf(r, h) /\ h.rec = "order"
    <3> DEFINE i == o.id
               d == o.side
               p == o.price
               q == o.qty
               t == o.tif
               g == [o EXCEPT !.qty = m]
    <3>1. i \in Nat /\ d \in Sides /\ p \in Int /\ q \in Nat /\ t \in Tifs
          /\ o = [id |-> i, side |-> d, price |-> p, qty |-> q, tif |-> t]
      BY <2>1 DEF Orders
    <3>2. m \in Nat \ {0}
      <4>1. m \in 0 .. q /\ m # 0
        BY <1>0
      <4>. QED BY <3>1, <4>1
    <3>3. h = [r EXCEPT !.order = g]
      BY <2>4
    <3> HIDE DEF o, i, d, p, q, t
    <3>4. g = [id |-> i, side |-> d, price |-> p, qty |-> m, tif |-> t]
      BY <3>1
    <3>5. g \in Orders(Int) /\ g.id = i /\ g.side = d /\ g.price = p
      BY <3>1, <3>2, <3>4 DEF Orders
    <3> HIDE DEF s, g
    <3>6. h = [rec |-> "order", sym |-> s, order |-> g]
      BY <2>1, <3>3
    <3>7. h \in OrderRecs /\ h.order = g /\ h.sym = s /\ h.rec = "order"
      BY <2>1, <3>5, <3>6 DEF OrderRecs
    <3>. QED BY <1>3, <3>5, <3>7 DEF CutOf, i, d, p, o, s
  <2>. QED BY <2>2, <2>3, <2>4
<1>. QED BY <1>1, <1>2, <1>3

SameBook(a, b) == a.sym = b.sym /\ a.seq = b.seq /\ a.orders = b.orders
Ordered(p) == \A i \in 1 .. Len(p.books) : ListOK(Int, p.books[i].orders)

\* Such a record changes the book it belongs to and no other.
OnlyTouches(p, q, x) ==
    /\ q \in ParsedForm /\ q.cfg = p.cfg /\ Ordered(q)
    /\ \A i \in 1 .. Len(q.books) : q.books[i].sym # x =>
          i \in 1 .. Len(p.books) /\ SameBook(q.books[i], p.books[i])
    /\ \A i \in 1 .. Len(p.books) : p.books[i].sym # x =>
          i \in 1 .. Len(q.books) /\ SameBook(q.books[i], p.books[i])
    /\ \A i \in 1 .. Len(q.books) : q.books[i].sym = x \/ i \in 1 .. Len(p.books)

\* What has been parsed of whole records is in order.
LEMMA ParsedOrdered ==
    ASSUME NEW eng, GoodEngine(eng), NEW recs, NEW at, LaidOut(recs, eng, at), NEW k \in Nat,
           NEW p, ParsedTo(p, eng, at, k)
    PROVE  Ordered(p)
<1>1. \A i \in 1 .. Len(p.books) : p.books[i] \in ParsedBooks /\ EntryTo(p.books[i], eng, at, k)
  BY ParsedFields DEF ParsedTo
<1>. QED BY <1>1, EntryList DEF Ordered

\* After them a record with a number that is cut.
LEMMA ShortParsed ==
    ASSUME NEW eng, GoodEngine(eng), NEW recs, NEW at, LaidOut(recs, eng, at), NEW k \in Nat,
           k + 1 \in 2 .. Len(recs), NEW p, ParsedTo(p, eng, at, k), NEW h, CutOf(recs[k + 1], h)
    PROVE  OnlyTouches(p, ReadRecord(p, h), h.sym)
<1> DEFINE m == k + 1
           r == recs[m]
           q == ReadRecord(p, h)
           y == h.sym
           n == Len(p.books)
<1>1. PICK x \in DOMAIN eng.books : InBlock(eng, at, x, m)
  BY DEF LaidOut, Laid
<1>2. /\ r.sym = x /\ at[x] \in Nat /\ Size(eng, x) \in Nat /\ at[x] <= m
      /\ m <= at[x] + Size(eng, x)
      /\ m = at[x] => r = BookRec(eng, x)
      /\ m # at[x] => m - at[x] \in 1 .. Size(eng, x) /\ r = OrderRec(eng, x, m - at[x])
  BY <1>1, RecordAt
<1>3. p \in ParsedForm /\ n \in Nat /\ Ordered(p)
  BY ParsedFields, ParsedOrdered DEF ParsedTo
<1>4. \/ r \in BookRecs /\ h \in BookRecs
      \/ /\ r \in OrderRecs /\ h \in OrderRecs /\ h.sym = x /\ h.order \in Orders(Int)
         /\ h.order.id = r.order.id /\ h.order.side = r.order.side
         /\ h.order.price = r.order.price
  BY <1>2 DEF CutOf
<1>5. CASE r \in BookRecs /\ h \in BookRecs
  <2>1. BookRead(p, q, h)
    BY <1>3, <1>5, ReadBook
  <2> HIDE DEF q, r, m
  <2>2. /\ q \in ParsedForm /\ q.cfg = p.cfg /\ Len(q.books) = n + 1
        /\ \A i \in 1 .. n : q.books[i] = p.books[i]
        /\ q.books[n + 1].sym = y /\ q.books[n + 1].orders = <<>>
    BY <1>5, <2>1 DEF BookRead
  <2> HIDE DEF y
  <2>3. ListOK(Int, <<>>)
    BY DEF ListOK
  <2> HIDE DEF n
  <2>4. \A i \in 1 .. Len(q.books) : i = n + 1 \/ i \in 1 .. n
    BY <1>3, <2>2
  <2>5. \A i \in 1 .. n : i \in 1 .. Len(q.books) /\ SameBook(q.books[i], p.books[i])
    BY <1>3, <2>2 DEF SameBook
  <2>6. Ordered(q)
    BY <1>3, <2>2, <2>3, <2>4 DEF Ordered, n
  <2>7. OnlyTouches(p, q, y)
    BY <2>2, <2>4, <2>5, <2>6 DEF OnlyTouches, n
  <2>. QED BY <2>7 DEF q, y
<1>6. CASE /\ r \in OrderRecs /\ h \in OrderRecs /\ h.sym = x /\ h.order \in Orders(Int)
           /\ h.order.id = r.order.id /\ h.order.side = r.order.side
           /\ h.order.price = r.order.price
  <2> DEFINE d == m - at[x]
             os == OrdersOf(eng, x)
  <2>1. OrderRead(p, q, h.order)
    BY <1>3, <1>6, ReadOrder
  <2>2. m # at[x]
    <3>1. r.rec = "order"
      BY <1>6 DEF OrderRecs
    <3>. QED BY <1>2, <3>1 DEF BookRec
  <2>3. r.order = os[d] /\ d \in 1 .. Size(eng, x)
    BY <1>2, <2>2 DEF OrderRec
  <2>4. InBlock(eng, at, x, k)
    BY <1>2, <2>2 DEF InBlock
  <2>5. n > 0 /\ n \in 1 .. n /\ p.books[n].sym = x
    BY <1>3, <2>4 DEF ParsedTo
  <2> HIDE DEF q, r
  <2>6. /\ q \in ParsedForm /\ q.cfg = p.cfg /\ Len(q.books) = n
        /\ \A i \in 1 .. n : i # n => SameBook(q.books[i], p.books[i])
        /\ q.books[n].sym = x /\ q.books[n].orders = Append(p.books[n].orders, h.order)
    BY <2>1, <2>5 DEF OrderRead, SameBook
  <2>7. ListOK(Int, q.books[n].orders)
    <3> DEFINE e == p.books[n]
               more == Append(e.orders, h.order)
               ps == SubSeq(os, 1, d)
    <3>1. e \in ParsedBooks /\ e.orders \in Seq(Orders(Int)) /\ EntryTo(e, eng, at, k)
      BY <1>3, <2>5, ParsedFields DEF ParsedTo
    <3>2. Len(e.orders) = IF k - at[x] <= Size(eng, x) THEN k - at[x] ELSE Size(eng, x)
      BY <2>5, <3>1 DEF EntryTo
    <3>3. \A j \in 1 .. Len(e.orders) : e.orders[j] = os[j]
      BY <2>5, <3>1 DEF EntryTo
    <3>4. Len(e.orders) + 1 = d
      <4> DEFINE l == Len(e.orders)
                 a == at[x]
                 z == Size(eng, x)
      <4>1. a \in Nat /\ z \in Nat /\ a < k + 1 /\ k + 1 <= a + z /\ d = k + 1 - a
        BY <1>2, <2>2
      <4>2. l = IF k - a <= z THEN k - a ELSE z
        BY <3>2
      <4> SUFFICES l + 1 = d
        OBVIOUS
      <4> HIDE DEF l, a, z, d
      <4>. QED BY <4>1, <4>2
    <3>5. os \in Seq(Orders(Int)) /\ Len(os) = Size(eng, x) /\ ListOK(Int, os)
      BY ListingOf DEF Size
    <3> HIDE DEF d, os, e, n
    <3>6. ps \in Seq(Orders(Int)) /\ Len(ps) = d /\ \A j \in 1 .. d : ps[j] = os[j]
      BY <1>2, <2>3, <3>5
    <3>7. ListOK(Int, ps)
      <4>1. d \in 0 .. Len(os)
        BY <1>2, <2>3, <3>5
      <4>. QED BY <3>5, <4>1, ListPrefix
    <3> HIDE DEF ps
    <3>8. /\ more \in Seq(Orders(Int)) /\ Len(more) = d
          /\ \A j \in 1 .. Len(e.orders) : more[j] = e.orders[j]
          /\ more[d] = h.order
      BY <1>6, <3>1, <3>4, AppendProperties
    <3>9. d \in Nat /\ \A j \in 1 .. d : j = d \/ j \in 1 .. Len(e.orders)
      BY <1>2, <2>3, <3>4
    <3>10. \A j \in 1 .. d : more[j].id = ps[j].id /\ more[j].side = ps[j].side
                             /\ more[j].price = ps[j].price
      <4> TAKE j \in 1 .. d
      <4>1. CASE j = d
        BY <1>6, <2>3, <3>6, <3>8, <4>1
      <4>2. CASE j \in 1 .. Len(e.orders)
        BY <3>3, <3>6, <3>8, <4>2
      <4>. QED BY <3>9, <4>1, <4>2
    <3> HIDE DEF more
    <3>11. ListOK(Int, more)
      BY <3>6, <3>7, <3>8, <3>10, ListAlike
    <3>. QED BY <2>6, <3>11 DEF more, e
  <2>8. Ordered(q)
    <3>1. \A i \in 1 .. n : i # n => q.books[i].orders = p.books[i].orders
      BY <2>6 DEF SameBook
    <3>. QED BY <1>3, <2>6, <2>7, <3>1 DEF Ordered
  <2>9. OnlyTouches(p, q, x)
    <3> HIDE DEF n
    <3>1. \A i \in 1 .. n : p.books[i].sym # x => i # n
      BY <2>5
    <3>2. \A i \in 1 .. n : q.books[i].sym # x => i # n
      BY <2>6
    <3>. QED BY <2>6, <2>8, <3>1, <3>2 DEF OnlyTouches, n
  <2>. QED BY <1>6, <2>9 DEF q
<1>. QED BY <1>4, <1>5, <1>6

\* The records are what the parser knows.
LEMMA RecordsTyped ==
    ASSUME NEW eng, GoodEngine(eng), NEW recs, NEW at, LaidOut(recs, eng, at)
    PROVE  /\ recs \in Seq(AllRecs) /\ Len(recs) \in Nat /\ recs[1] \in MetaRecs
           /\ \A i \in 2 .. Len(recs) : recs[i] \in BookRecs \cup OrderRecs
<1>1. IsSeq(recs) /\ Len(recs) \in Nat
  BY DEF LaidOut, Laid
<1>2. recs[1] \in MetaRecs
  BY EngineFields DEF LaidOut, MetaRecs
<1>3. ASSUME NEW i \in 2 .. Len(recs) PROVE recs[i] \in BookRecs \cup OrderRecs
  <2>1. PICK x \in DOMAIN eng.books : InBlock(eng, at, x, i)
    BY DEF LaidOut, Laid
  <2>2. /\ i = at[x] => recs[i] = BookRec(eng, x)
        /\ i # at[x] => i - at[x] \in 1 .. Size(eng, x) /\ recs[i] = OrderRec(eng, x, i - at[x])
    BY <2>1, RecordAt
  <2>3. x \in Nameable /\ eng.books[x].seq \in Nat
        /\ \A k \in 1 .. Size(eng, x) : OrdersOf(eng, x)[k] \in Orders(Int)
    BY ListingOf
  <2>4. BookRec(eng, x) \in BookRecs
    BY <2>3 DEF BookRec, BookRecs
  <2>5. \A k \in 1 .. Size(eng, x) : OrderRec(eng, x, k) \in OrderRecs
    BY <2>3 DEF OrderRec, OrderRecs
  <2>. QED BY <2>2, <2>4, <2>5
<1>4. recs \in Seq(AllRecs)
  <2>1. recs \in Seq({recs[i] : i \in 1 .. Len(recs)})
    BY <1>1 DEF IsSeq
  <2>2. ASSUME NEW i \in 1 .. Len(recs) PROVE recs[i] \in AllRecs
    <3>1. i = 1 \/ i \in 2 .. Len(recs)
      BY <1>1
    <3>. QED BY <1>2, <1>3, <3>1 DEF AllRecs
  <2>3. recs = [i \in 1 .. Len(recs) |-> recs[i]]
    BY <2>1
  <2>. QED BY <1>1, <2>2, <2>3
<1>. QED BY <1>1, <1>2, <1>3, <1>4

\* What is in the file: whole records, then perhaps one that was cut.
Tail3(recs, read, k) ==
    \/ (snap.torn = <<>> \/ Panics) /\ Len(read) = k
    \/ snap.torn = <<[rec |-> "cut"]>> /\ Len(read) = k + 1 /\ read[k + 1] \in CutRecs
    \/ \E h : /\ snap.torn = <<h>> /\ Len(read) = k + 1 /\ k + 1 \in 2 .. Len(recs)
              /\ CutOf(recs[k + 1], h) /\ read[k + 1] = h
Readably(recs, read, k) ==
    /\ read \in Seq(AllRecs) /\ Len(read) \in Nat /\ k <= Len(read)
    /\ \A i \in 1 .. k : read[i] = recs[i]
    /\ Tail3(recs, read, k)

\* Readable says so.
LEMMA ReadableFacts ==
    ASSUME SnapOK, NEW at, LaidOut(Records, snap.of, at)
    PROVE  Readably(Records, Readable, snap.kept)
<1> DEFINE recs == Records
           k == snap.kept
           front == SubSeq(recs, 1, k)
<1>1. GoodEngine(snap.of) /\ k \in 0 .. Len(recs) /\ TornOf(recs, k, snap.torn)
  BY DEF SnapOK
<1>2. recs \in Seq(AllRecs) /\ Len(recs) \in Nat /\ recs[1] \in MetaRecs
      /\ \A i \in 2 .. Len(recs) : recs[i] \in BookRecs \cup OrderRecs
  BY <1>1, RecordsTyped
<1>3. Readable = front \o (IF Panics THEN <<>> ELSE snap.torn)
  BY DEF Readable
<1> HIDE DEF recs, k
<1>4. front \in Seq(AllRecs) /\ Len(front) = k /\ \A i \in 1 .. k : front[i] = recs[i]
  BY <1>1, <1>2
<1>5. k \in Nat /\ k <= k + 1
  BY <1>1, <1>2
<1> HIDE DEF front
<1>6. CASE snap.torn = <<>> \/ Panics
  <2>1. Readable = front
    BY <1>3, <1>4, <1>6
  <2>. QED BY <1>1, <1>2, <1>4, <1>5, <1>6, <2>1 DEF Readably, Tail3, recs, k
<1>7. CASE snap.torn # <<>> /\ ~Panics
  <2>1. k < Len(recs) /\ \E h \in TornAs(recs[k + 1]) : snap.torn = <<h>>
    BY <1>1, <1>7 DEF TornOf
  <2>2. PICK h \in TornAs(recs[k + 1]) : snap.torn = <<h>>
    BY <2>1
  <2>3. recs[k + 1] \in MetaRecs \cup BookRecs \cup OrderRecs
        /\ (recs[k + 1] \notin MetaRecs => k + 1 \in 2 .. Len(recs))
    <3>1. k + 1 = 1 \/ k + 1 \in 2 .. Len(recs)
      BY <1>2, <1>5, <2>1
    <3>. QED BY <1>2, <3>1
  <2>4. h # [rec |-> "panic"]
    BY <1>7, <2>2 DEF Panics
  <2>5. \/ h = [rec |-> "cut"]
        \/ CutOf(recs[k + 1], h) /\ k + 1 \in 2 .. Len(recs)
    BY <2>2, <2>3, <2>4, CutFacts
  <2>6. h \in AllRecs /\ (h = [rec |-> "cut"] => h \in CutRecs)
    BY <2>5 DEF CutOf, AllRecs, CutRecs
  <2>7. Readable = Append(front, h)
    <3>1. front \o <<h>> = Append(front, h)
      BY <1>4, <2>6
    <3>. QED BY <1>3, <1>7, <2>2, <3>1
  <2>8. /\ Readable \in Seq(AllRecs) /\ Len(Readable) = k + 1 /\ Readable[k + 1] = h
        /\ \A i \in 1 .. k : Readable[i] = recs[i]
    BY <1>4, <2>6, <2>7, AppendProperties
  <2>9. Tail3(recs, Readable, k)
    BY <2>2, <2>5, <2>6, <2>8 DEF Tail3
  <2>. QED BY <1>5, <2>8, <2>9 DEF Readably, recs, k
<1>. QED BY <1>6, <1>7

\* e is the book of s as eng had it, empty if it had none.
HeldAs(e, eng, s) ==
    IF s \in DOMAIN eng.books THEN e.seq = eng.books[s].seq /\ e.orders = OrdersOf(eng, s)
    ELSE e.seq = 0 /\ e.orders = <<>>

\* What is parsed has the book of s as eng had it.
HoldsIn(p, eng, s) ==
    /\ p.cfg = eng.cfg
    /\ s \in DOMAIN eng.books => \E i \in 1 .. Len(p.books) : p.books[i].sym = s
    /\ \A i \in 1 .. Len(p.books) : p.books[i].sym = s => HeldAs(p.books[i], eng, s)

\* Every book has orders the engine had.
OrdersIn(p, eng) ==
    /\ p.cfg = eng.cfg
    /\ \A i \in 1 .. Len(p.books) :
          /\ p.books[i].sym \in DOMAIN eng.books
          /\ \E n \in 0 .. Size(eng, p.books[i].sym) :
                p.books[i].orders = SubSeq(OrdersOf(eng, p.books[i].sym), 1, n)

\* The records that are there whole hold the books that are there whole.
LEMMA WholeHolds ==
    ASSUME NEW eng, GoodEngine(eng), NEW recs, NEW at, LaidOut(recs, eng, at),
           NEW k \in 1 .. Len(recs), NEW p, ParsedTo(p, eng, at, k), NEW s,
           \A i \in 1 .. Len(recs) : recs[i].rec # "meta" /\ recs[i].sym = s => i <= k
    PROVE  HoldsIn(p, eng, s)
<1>1. p \in ParsedForm /\ k \in Nat /\ k > 0 /\ p.cfg = eng.cfg
  BY DEF ParsedTo
<1>2. ASSUME s \in DOMAIN eng.books
      PROVE  at[s] \in Nat /\ Size(eng, s) \in Nat /\ at[s] + Size(eng, s) <= k
  <2> DEFINE z == at[s] + Size(eng, s)
  <2>1. at[s] \in Nat /\ Size(eng, s) \in Nat
    BY <1>2 DEF LaidOut, Laid
  <2>2. InBlock(eng, at, s, z)
    BY <2>1 DEF InBlock
  <2>3. /\ z \in 2 .. Len(recs) /\ recs[z].sym = s
        /\ z = at[s] => recs[z] = BookRec(eng, s)
        /\ z # at[s] => recs[z] = OrderRec(eng, s, z - at[s])
    BY <1>2, <2>2, RecordAt
  <2>4. recs[z].rec # "meta"
    BY <2>3 DEF BookRec, OrderRec
  <2>5. z \in 1 .. Len(recs)
    BY <2>3
  <2>. QED BY <2>1, <2>3, <2>4, <2>5
<1>3. ASSUME s \in DOMAIN eng.books
      PROVE  \E i \in 1 .. Len(p.books) : p.books[i].sym = s
  <2>1. at[s] <= k
    BY <1>1, <1>2, <1>3
  <2>. QED BY <1>3, <2>1 DEF ParsedTo
<1>4. ASSUME NEW i \in 1 .. Len(p.books), p.books[i].sym = s
      PROVE  /\ s \in DOMAIN eng.books
             /\ p.books[i].seq = eng.books[s].seq /\ p.books[i].orders = OrdersOf(eng, s)
  <2> DEFINE e == p.books[i]
  <2>1. EntryTo(e, eng, at, k) /\ e \in ParsedBooks
    BY <1>1, ParsedFields DEF ParsedTo
  <2>0. e.sym = s
    BY <1>4
  <2> HIDE DEF e
  <2>2. s \in DOMAIN eng.books /\ e.seq = eng.books[s].seq
        /\ Len(e.orders) = (IF k - at[s] <= Size(eng, s) THEN k - at[s] ELSE Size(eng, s))
        /\ \A j \in 1 .. Len(e.orders) : e.orders[j] = OrdersOf(eng, s)[j]
    <3>1. /\ e.sym \in DOMAIN eng.books /\ e.seq = eng.books[e.sym].seq
          /\ Len(e.orders) = IF k - at[e.sym] <= Size(eng, e.sym) THEN k - at[e.sym]
                             ELSE Size(eng, e.sym)
          /\ \A j \in 1 .. Len(e.orders) : e.orders[j] = OrdersOf(eng, e.sym)[j]
      BY <2>1 DEF EntryTo
    <3>. QED BY <2>0, <3>1
  <2>3. Len(e.orders) = Size(eng, s)
    <3> DEFINE a == at[s]
               z == Size(eng, s)
    <3>1. a \in Nat /\ z \in Nat /\ a + z <= k
      BY <1>2, <2>2
    <3>2. Len(e.orders) = IF k - a <= z THEN k - a ELSE z
      BY <2>2
    <3> SUFFICES Len(e.orders) = z
      OBVIOUS
    <3> HIDE DEF a, z
    <3>. QED BY <1>1, <3>1, <3>2
  <2>4. IsSeq(e.orders) /\ IsSeq(OrdersOf(eng, s))
    <3>1. e.orders \in Seq(Orders(Int)) /\ OrdersOf(eng, s) \in Seq(Orders(Int))
      BY <2>1, <2>2, ListingOf DEF ParsedBooks
    <3>. QED BY <3>1, SeqIsSeq
  <2>5. e.orders = OrdersOf(eng, s)
    <3>1. Len(e.orders) = Len(OrdersOf(eng, s))
      BY <2>3 DEF Size
    <3>. QED BY <2>2, <2>4, <3>1, SameSeq
  <2>. QED BY <2>2, <2>5 DEF e
<1>. QED BY <1>1, <1>3, <1>4 DEF HoldsIn, HeldAs

\* What ParseSnapshot makes of the file.
LEMMA SnapParsed ==
    ASSUME SnapOK
    PROVE  /\ ParseSnapshot \in ParsedForm /\ Ordered(ParseSnapshot)
           /\ \A s : snap.file /\ SnapshotHolds(s) => HoldsIn(ParseSnapshot, snap.of, s)
           /\ snap.file /\ snap.kept = Len(Records) => OrdersIn(ParseSnapshot, snap.of)
           /\ ~snap.file => Len(ParseSnapshot.books) = 0
<1> DEFINE eng == snap.of
           recs == Records
           read == Readable
           k == snap.kept
           ps == ParseSnapshot
<1>1. GoodEngine(eng) /\ k \in 0 .. Len(recs)
  BY DEF SnapOK
<1>2. PICK at : LaidOut(recs, eng, at)
  <2>1. recs = WriteEngine(eng)
    BY DEF Records
  <2>. QED BY <1>1, <2>1, WriteLays DEF LaidOut
<1>3. Readably(recs, read, k)
  BY <1>2, ReadableFacts
<1>4. PICK f : Parses(f, read) /\ ps = f[Len(read)]
  BY <1>3, ParseRuns DEF Readably
<1>5. Len(recs) \in Nat /\ k \in Nat
  BY <1>1, <1>2 DEF LaidOut, Laid
<1> DEFINE p == f[k]
<1> SUFFICES /\ ps \in ParsedForm /\ Ordered(ps)
             /\ \A s : snap.file /\ SnapshotHolds(s) => HoldsIn(ps, eng, s)
             /\ snap.file /\ k = Len(recs) => OrdersIn(ps, eng)
             /\ ~snap.file => Len(ps.books) = 0
  OBVIOUS
<1>6. /\ snap.torn # <<>> => k < Len(recs)
      /\ ~snap.file => snap.torn = <<>> /\ k = 0
      /\ \A s : snap.file /\ SnapshotHolds(s) =>
            /\ k > 0 /\ snap.torn # <<[rec |-> "cut"]>>
            /\ \A i \in 1 .. Len(recs) : recs[i].rec # "meta" /\ recs[i].sym = s =>
                  i <= k /\ ~ReadAsBookOf(s)
  BY DEF SnapOK, TornOf, NoSnapshot, SnapshotHolds
<1> HIDE DEF eng, recs, read, k, ps
<1>7. ParsedTo(p, eng, at, k)
  <2>1. k \in 0 .. Len(recs) /\ k <= Len(read) /\ Len(read) \in Nat /\ k \in 0 .. k
        /\ \A i \in 1 .. k : read[i] = recs[i]
    BY <1>1, <1>3, <1>5 DEF Readably
  <2>2. \A j \in 0 .. k : ParsedTo(f[j], eng, at, j)
    BY <1>1, <1>2, <1>4, <2>1, ParseFollows
  <2>. QED BY <2>1, <2>2
<1>8. p \in ParsedForm /\ Ordered(p)
  BY <1>1, <1>2, <1>5, <1>7, ParsedOrdered DEF ParsedTo
<1>9. \A s : snap.file /\ SnapshotHolds(s) => HoldsIn(p, eng, s)
  <2> TAKE s
  <2> HAVE snap.file /\ SnapshotHolds(s)
  <2>1. k \in 1 .. Len(recs)
    BY <1>1, <1>5, <1>6
  <2>2. \A i \in 1 .. Len(recs) : recs[i].rec # "meta" /\ recs[i].sym = s => i <= k
    BY <1>6
  <2> HIDE DEF p
  <2>. QED BY <1>1, <1>2, <1>7, <2>1, <2>2, WholeHolds
<1>10. Len(read) = k + 1 => ps = ReadRecord(p, read[k + 1])
  <2> SUFFICES ASSUME Len(read) = k + 1 PROVE ps = ReadRecord(p, read[k + 1])
    OBVIOUS
  <2>1. k + 1 \in 1 .. Len(read) /\ (k + 1) - 1 = k
    BY <1>5
  <2>2. f[k + 1] = ReadRecord(f[(k + 1) - 1], read[k + 1])
    BY <1>4, <2>1 DEF Parses
  <2>. QED BY <1>4, <2>1, <2>2
<1>11. Len(read) = k => ps = p
  BY <1>4
<1>12. p.books \in Seq(ParsedBooks) /\ Len(p.books) \in Nat
       /\ \A i \in 1 .. Len(p.books) : p.books[i] \in ParsedBooks
                                       /\ EntryTo(p.books[i], eng, at, k)
  BY <1>7, <1>8, ParsedFields DEF ParsedTo
<1>13. k > 0 => p.cfg = eng.cfg
  BY <1>7 DEF ParsedTo
<1>14. k = 0 => p = [cfg |-> LibraryCfg, books |-> <<>>]
  BY <1>4 DEF Parses
<1> HIDE DEF p
<1>15. CASE (snap.torn = <<>> \/ Panics) /\ Len(read) = k
  <2>1. ps = p
    BY <1>11, <1>15
  <2>2. snap.file /\ k = Len(recs) => OrdersIn(p, eng)
    <3> SUFFICES ASSUME k = Len(recs) PROVE OrdersIn(p, eng)
      OBVIOUS
    <3>1. k > 0
      BY <1>2 DEF LaidOut
    <3>2. ASSUME NEW i \in 1 .. Len(p.books)
          PROVE  /\ p.books[i].sym \in DOMAIN eng.books
                 /\ \E n \in 0 .. Size(eng, p.books[i].sym) :
                       p.books[i].orders = SubSeq(OrdersOf(eng, p.books[i].sym), 1, n)
      <4>1. p.books[i] \in ParsedBooks /\ EntryTo(p.books[i], eng, at, k)
        BY <1>12
      <4>2. /\ Len(p.books[i].orders) \in 0 .. Size(eng, p.books[i].sym)
            /\ p.books[i].orders
                 = SubSeq(OrdersOf(eng, p.books[i].sym), 1, Len(p.books[i].orders))
        BY <1>1, <1>2, <1>5, <4>1, EntryList
      <4>. QED BY <4>1, <4>2 DEF EntryTo
    <3>. QED BY <1>13, <3>1, <3>2 DEF OrdersIn
  <2>3. ~snap.file => Len(p.books) = 0
    BY <1>6, <1>14
  <2>. QED BY <1>8, <1>9, <2>1, <2>2, <2>3
<1>16. CASE snap.torn = <<[rec |-> "cut"]>> /\ Len(read) = k + 1 /\ read[k + 1] \in CutRecs
  <2>1. ps \in ParsedForm /\ ps.books = p.books
    BY <1>8, <1>10, <1>16, ReadMeta
  <2>2. Ordered(ps)
    BY <1>8, <2>1 DEF Ordered
  <2>3. k # Len(recs) /\ snap.file
    BY <1>5, <1>6, <1>16
  <2>. QED BY <1>6, <1>16, <2>1, <2>2, <2>3
<1>17. CASE \E h : /\ snap.torn = <<h>> /\ Len(read) = k + 1 /\ k + 1 \in 2 .. Len(recs)
                    /\ CutOf(recs[k + 1], h) /\ read[k + 1] = h
  <2>0. PICK h : /\ snap.torn = <<h>> /\ Len(read) = k + 1 /\ k + 1 \in 2 .. Len(recs)
                 /\ CutOf(recs[k + 1], h) /\ read[k + 1] = h
    BY <1>17
  <2> DEFINE x == h.sym
  <2>1. OnlyTouches(p, ps, x)
    BY <1>1, <1>2, <1>5, <1>7, <1>10, <2>0, ShortParsed
  <2>2. k # Len(recs) /\ snap.file
    BY <1>5, <1>6, <2>0
  <2>3. ASSUME NEW s, SnapshotHolds(s), x # s PROVE HoldsIn(ps, eng, s)
    <3>1. HoldsIn(p, eng, s)
      BY <1>9, <2>2, <2>3
    <3>4. x # s
      BY <2>3
    <3> HIDE DEF x
    <3>5. ps.cfg = eng.cfg
      BY <2>1, <3>1 DEF OnlyTouches, HoldsIn
    <3>6. ASSUME s \in DOMAIN eng.books
          PROVE  \E i \in 1 .. Len(ps.books) : ps.books[i].sym = s
      <4>1. PICK i \in 1 .. Len(p.books) : p.books[i].sym = s
        BY <3>1, <3>6 DEF HoldsIn
      <4>2. i \in 1 .. Len(ps.books) /\ SameBook(ps.books[i], p.books[i])
        BY <2>1, <3>4, <4>1 DEF OnlyTouches
      <4>. QED BY <4>1, <4>2 DEF SameBook
    <3>7. ASSUME NEW i \in 1 .. Len(ps.books), ps.books[i].sym = s
          PROVE  HeldAs(ps.books[i], eng, s)
      <4>1. i \in 1 .. Len(p.books) /\ SameBook(ps.books[i], p.books[i])
        BY <2>1, <3>4, <3>7 DEF OnlyTouches
      <4>2. p.books[i].sym = s
        BY <3>7, <4>1 DEF SameBook
      <4>. QED BY <3>1, <4>1, <4>2 DEF HoldsIn, HeldAs, SameBook
    <3>. QED BY <3>5, <3>6, <3>7 DEF HoldsIn
  <2>4. ASSUME NEW s, SnapshotHolds(s), x = s PROVE HoldsIn(ps, eng, s)
    <3>1. HoldsIn(p, eng, s)
      BY <1>9, <2>2, <2>4
    <3>2. recs[k + 1] \in BookRecs \cup OrderRecs /\ k + 1 \in 1 .. Len(recs)
      BY <1>1, <1>2, <2>0, RecordsTyped
    <3>3. recs[k + 1].rec # "meta"
      BY <3>2 DEF BookRecs, OrderRecs
    <3>4. recs[k + 1].sym # s
      <4>1. recs[k + 1].sym = s => k + 1 <= k
        BY <1>6, <2>2, <2>4, <3>2, <3>3
      <4>. QED BY <1>5, <4>1
    <3>5. h \in BookRecs /\ h.seq = 0 /\ h.rec = "book"
      BY <2>0, <2>4, <3>4 DEF CutOf, BookRecs
    <3>6. ReadAsBookOf(s)
      <4>1. ToSet(<<h>>) = {h}
        BY DEF ToSet
      <4>. QED BY <2>0, <2>4, <3>5, <4>1 DEF ReadAsBookOf
    <3>7. s \notin DOMAIN eng.books
      <4> SUFFICES ASSUME s \in DOMAIN eng.books PROVE FALSE
        OBVIOUS
      <4>1. at[s] \in Nat /\ Size(eng, s) \in Nat
        BY <1>2 DEF LaidOut, Laid
      <4>2. InBlock(eng, at, s, at[s])
        BY <4>1 DEF InBlock
      <4>3. at[s] \in 2 .. Len(recs) /\ recs[at[s]].sym = s /\ recs[at[s]] = BookRec(eng, s)
        BY <1>1, <1>2, <4>2, RecordAt
      <4>4. at[s] \in 1 .. Len(recs) /\ recs[at[s]].rec # "meta"
        BY <1>5, <4>3 DEF BookRec
      <4>. QED BY <1>6, <2>2, <2>4, <3>6, <4>3, <4>4
    <3>8. BookRead(p, ps, h)
      BY <1>8, <1>10, <2>0, <3>5, ReadBook
    <3>9. /\ ps.cfg = p.cfg /\ Len(ps.books) = Len(p.books) + 1
          /\ \A i \in 1 .. Len(p.books) : ps.books[i] = p.books[i]
          /\ ps.books[Len(p.books) + 1] = [sym |-> h.sym, seq |-> h.seq, orders |-> <<>>]
      BY <3>8 DEF BookRead
    <3>10. ASSUME NEW i \in 1 .. Len(ps.books), ps.books[i].sym = s
           PROVE  HeldAs(ps.books[i], eng, s)
      <4>1. i \in 1 .. Len(p.books) \/ i = Len(p.books) + 1
        BY <1>12, <3>9
      <4>2. CASE i \in 1 .. Len(p.books)
        BY <3>1, <3>9, <3>10, <4>2 DEF HoldsIn
      <4>3. CASE i = Len(p.books) + 1
        BY <3>5, <3>7, <3>9, <4>3 DEF HeldAs
      <4>. QED BY <4>1, <4>2, <4>3
    <3>. QED BY <3>1, <3>7, <3>9, <3>10 DEF HoldsIn
  <2>5. ps \in ParsedForm /\ Ordered(ps)
    BY <2>1 DEF OnlyTouches
  <2>. QED BY <2>2, <2>3, <2>4, <2>5
<1>. QED BY <1>3, <1>15, <1>16, <1>17 DEF Readably, Tail3

-----------------------------------------------------------------------------
(* Putting the orders back *)

\* One more of a listing.
LEMMA PutOne ==
    ASSUME NEW prices, prices \subseteq Int, NEW os, ListOK(prices, os), NEW k \in 1 .. Len(os),
           NEW b, BookOK(prices, b), All(b) = SubSeq(os, 1, k - 1)
    PROVE  BookOK(prices, Insert(b, os[k])) /\ All(Insert(b, os[k])) = SubSeq(os, 1, k)
<1>1. os \in Seq(Orders(prices)) /\ Len(os) \in Nat
  BY DEF ListOK
<1>2. os[k] \in Orders(prices) /\ k \in 0 .. Len(os)
  BY <1>1
<1>3. Append(SubSeq(os, 1, k - 1), os[k]) = SubSeq(os, 1, k)
  <2> DEFINE p == SubSeq(os, 1, k - 1)
             q == SubSeq(os, 1, k)
             r == Append(p, os[k])
  <2>1. p \in Seq(Orders(prices)) /\ Len(p) = k - 1 /\ \A i \in 1 .. (k - 1) : p[i] = os[i]
    BY <1>1
  <2>2. q \in Seq(Orders(prices)) /\ Len(q) = k /\ \A i \in 1 .. k : q[i] = os[i]
    BY <1>1
  <2> HIDE DEF p, q
  <2>3. /\ r \in Seq(Orders(prices)) /\ Len(r) = Len(p) + 1
        /\ \A i \in 1 .. Len(p) : r[i] = p[i]
        /\ r[Len(p) + 1] = os[k]
    BY <1>2, <2>1, AppendProperties
  <2>4. Len(r) = k /\ \A i \in 1 .. k : r[i] = os[i]
    BY <1>1, <2>1, <2>3
  <2>5. IsSeq(r) /\ IsSeq(q)
    BY <2>2, <2>3, SeqIsSeq
  <2> HIDE DEF r
  <2>6. r = q
    BY <2>2, <2>4, <2>5, SameSeq
  <2>. QED BY <2>6 DEF r, p, q
<1>4. ListOK(prices, Append(All(b), os[k]))
  BY <1>2, <1>3, ListPrefix
<1>. QED BY <1>2, <1>3, <1>4, InsertLast

\* PutBack makes of a listing the book it lists.
LEMMA PutBackFacts ==
    ASSUME NEW prices, prices \subseteq Int, NEW os, ListOK(prices, os)
    PROVE  BookOK(prices, PutBack(os)) /\ All(PutBack(os)) = os
<1> DEFINE n == Len(os)
           empty == [side \in Sides |-> <<>>]
           V == {b \in [Sides -> Seq(Orders(prices))] : BookOK(prices, b)}
           step == [a \in (1 .. n) \X V |->
                      IF BookOK(prices, Insert(a[2], os[a[1]])) THEN Insert(a[2], os[a[1]]) ELSE a[2]]
           IsPut(f) == f = [k \in 0 .. Len(os) |-> IF k = 0 THEN [side \in Sides |-> <<>>]
                                                   ELSE Insert(f[k - 1], os[k])]
           put == CHOOSE f : IsPut(f)
           Right(b, k) == BookOK(prices, b) /\ All(b) = SubSeq(os, 1, k)
<1>1. n \in Nat /\ os \in Seq(Orders(prices))
  BY DEF ListOK
<1>2. \A P : BookOK(P, empty)
  <2>1. empty \in [Sides -> Seq({})] /\ \A P : empty \in [Sides -> Seq(Orders(P))]
    OBVIOUS
  <2>2. \A s \in Sides : Len(empty[s]) = 0 /\ empty[s] = <<>>
    OBVIOUS
  <2>3. OneEach(empty)
    BY <2>2 DEF OneEach
  <2>4. \A P : \A s \in Sides : Queue(P, s, empty[s])
    <3> TAKE P
    <3> TAKE s \in Sides
    <3>1. empty[s] \in Seq(Orders(P)) /\ 1 .. Len(empty[s]) = {}
      BY <2>2, <2>1
    <3>. QED BY <3>1 DEF Queue
  <2> HIDE DEF empty
  <2>. QED BY <2>1, <2>3, <2>4 DEF BookOK
<1>3. All(empty) = <<>> /\ SubSeq(os, 1, 0) = <<>>
  <2>1. empty["Bid"] = <<>> /\ empty["Ask"] = <<>>
    BY DEF Sides
  <2>. QED BY <1>1, <2>1 DEF All
<1> HIDE DEF empty, n
<1>4. Right(empty, 0)
  BY <1>2, <1>3
<1>5. \A k \in 1 .. n : \A b : Right(b, k - 1) => Right(Insert(b, os[k]), k)
  <2> TAKE k \in 1 .. n
  <2> TAKE b
  <2> HAVE Right(b, k - 1)
  <2>. QED BY PutOne DEF n
<1>6. \A b \in V : BookOK(prices, b)
  OBVIOUS
<1>7. step \in [(1 .. n) \X V -> V]
  <2>1. ASSUME NEW a \in (1 .. n) \X V
        PROVE  (IF BookOK(prices, Insert(a[2], os[a[1]])) THEN Insert(a[2], os[a[1]]) ELSE a[2]) \in V
    <3>1. a[2] \in V
      OBVIOUS
    <3>2. BookOK(prices, Insert(a[2], os[a[1]])) => Insert(a[2], os[a[1]]) \in V
      BY DEF BookOK
    <3>. QED BY <3>1, <3>2
  <2>. QED BY <2>1
<1>8. empty \in V
  BY <1>2 DEF BookOK
<1>9. PICK f : Steps(f, n, V, empty, step)
  <2> HIDE DEF step, V
  <2>. QED BY <1>1, <1>7, <1>8, StepsExist
<1>10. f \in [0 .. n -> V] /\ f[0] = empty
  BY <1>9 DEF Steps
<1>11. \A k \in 1 .. n : f[k] = IF BookOK(prices, Insert(f[k - 1], os[k])) THEN Insert(f[k - 1], os[k])
                               ELSE f[k - 1]
  <2> TAKE k \in 1 .. n
  <2>1. k - 1 \in 0 .. n
    BY <1>1
  <2>2. f[k - 1] \in V /\ <<k, f[k - 1]>> \in (1 .. n) \X V
    BY <1>10, <2>1
  <2>3. f[k] = step[<<k, f[k - 1]>>]
    BY <1>9 DEF Steps
  <2> HIDE DEF V
  <2>. QED BY <2>2, <2>3
<1> HIDE DEF V, step
<1>12. \A k \in 0 .. n : Right(f[k], k)
  <2> DEFINE Good == {k \in 0 .. n : Right(f[k], k)}
  <2>1. 0 \in Good
    BY <1>1, <1>4, <1>10
  <2>2. ASSUME NEW k \in 1 .. n, k - 1 \in Good PROVE k \in Good
    <3>1. Right(f[k - 1], k - 1) /\ k \in 0 .. n
      BY <1>1, <2>2
    <3>2. Right(Insert(f[k - 1], os[k]), k)
      BY <1>5, <3>1
    <3>3. f[k] = Insert(f[k - 1], os[k])
      BY <1>11, <3>2
    <3>. QED BY <3>1, <3>2, <3>3
  <2> HIDE DEF Good
  <2>3. \A k \in 0 .. n : k \in Good
    BY <1>1, <2>1, <2>2, CountUp
  <2>. QED BY <2>3 DEF Good
<1>13. IsPut(f)
  <2> DEFINE G == [k \in 0 .. n |-> IF k = 0 THEN empty ELSE Insert(f[k - 1], os[k])]
  <2>1. ASSUME NEW k \in 1 .. n PROVE f[k] = Insert(f[k - 1], os[k])
    <3>1. Right(f[k - 1], k - 1)
      <4>1. k - 1 \in 0 .. n
        BY <1>1
      <4>. QED BY <1>12, <4>1
    <3>2. Right(Insert(f[k - 1], os[k]), k)
      BY <1>5, <3>1
    <3>. QED BY <1>11, <3>2
  <2>2. ASSUME NEW k \in 0 .. n PROVE f[k] = G[k]
    <3>1. k = 0 \/ k \in 1 .. n
      BY <1>1
    <3>. QED BY <1>10, <2>1, <3>1
  <2>3. f = [k \in 0 .. n |-> f[k]] /\ G = [k \in 0 .. n |-> G[k]]
    BY <1>10
  <2> HIDE DEF G
  <2>4. f = G
    BY <2>2, <2>3
  <2>. QED BY <2>4 DEF G, n, empty
<1>14. IsPut(put)
  BY <1>13
<1>15. PutBack(os) = put[n]
  BY DEF PutBack, n
<1> HIDE DEF put
<1>16. put = [k \in 0 .. n |-> IF k = 0 THEN empty ELSE Insert(put[k - 1], os[k])]
  BY <1>14 DEF n, empty
<1>17. put[0] = empty /\ \A k \in 1 .. n : put[k] = Insert(put[k - 1], os[k])
  <2>1. 0 \in 0 .. n /\ \A k \in 1 .. n : k \in 0 .. n /\ k # 0
    BY <1>1
  <2>. QED BY <1>16, <2>1
<1>18. \A k \in 0 .. n : Right(put[k], k)
  <2> DEFINE Good == {k \in 0 .. n : Right(put[k], k)}
  <2>1. 0 \in Good
    <3>1. 0 \in 0 .. n
      BY <1>1
    <3>2. Right(put[0], 0)
      BY <1>4, <1>17
    <3>. QED BY <3>1, <3>2
  <2>2. ASSUME NEW k \in 1 .. n, k - 1 \in Good PROVE k \in Good
    <3>1. Right(put[k - 1], k - 1) /\ k \in 0 .. n
      BY <1>1, <2>2
    <3>2. Right(Insert(put[k - 1], os[k]), k)
      BY <1>5, <3>1
    <3>3. put[k] = Insert(put[k - 1], os[k])
      BY <1>17
    <3>. QED BY <3>1, <3>2, <3>3
  <2> HIDE DEF Good
  <2>3. \A k \in 0 .. n : k \in Good
    BY <1>1, <2>1, <2>2, CountUp
  <2>. QED BY <2>3 DEF Good
<1>19. Right(put[n], n)
  <2>1. n \in 0 .. n
    BY <1>1
  <2>. QED BY <1>18, <2>1
<1>20. SubSeq(os, 1, n) = os
  <2>1. SubSeq(os, 1, n) \in Seq(Orders(prices)) /\ Len(SubSeq(os, 1, n)) = n
        /\ \A i \in 1 .. n : SubSeq(os, 1, n)[i] = os[i]
    BY <1>1 DEF n
  <2>2. IsSeq(SubSeq(os, 1, n)) /\ IsSeq(os)
    BY <1>1, <2>1, SeqIsSeq
  <2>. QED BY <2>1, <2>2, SameSeq DEF n
<1>. QED BY <1>15, <1>19, <1>20

\* A book restored: as many orders as its limit allows.
RestoredBook(b, cfg, seq, orders) ==
    /\ GoodBook(b) /\ b.cfg = cfg /\ b.seq = seq
    /\ All(b.book) = Restorable(cfg, orders)
    /\ Len(orders) <= cfg.max => All(b.book) = orders

\* Restore does that if the ladder has the levels.
LEMMA RestoreFacts ==
    ASSUME NEW cfg \in Configs, NEW seq \in Nat, NEW orders, ListOK(Int, orders),
           cfg.index = "Ladder" =>
               \A i \in 1 .. Len(Restorable(cfg, orders)) :
                   Restorable(cfg, orders)[i].price \in cfg.prices
    PROVE  RestoredBook(Restore(cfg, seq, orders), cfg, seq, orders)
<1> DEFINE n == Min({cfg.max, Len(orders)})
           os == Restorable(cfg, orders)
           book == PutBack(os)
           b == [cfg |-> cfg, seq |-> seq, book |-> book]
<1>1. orders \in Seq(Orders(Int)) /\ Len(orders) \in Nat /\ cfg.max \in Nat /\ cfg.prices \subseteq Int
  BY DEF ListOK, Configs
<1>2. n \in 0 .. Len(orders) /\ n <= cfg.max /\ (Len(orders) <= cfg.max => n = Len(orders))
  <2>1. cfg.max \in Int /\ Len(orders) \in Int
    BY <1>1
  <2>2. /\ n = cfg.max \/ n = Len(orders)
        /\ n <= cfg.max /\ n <= Len(orders)
    BY <2>1, MinOfTwo
  <2> HIDE DEF n
  <2>. QED BY <1>1, <2>2
<1>3. os = SubSeq(orders, 1, n)
  BY DEF Restorable
<1> HIDE DEF n
<1>4. ListOK(Int, os)
  BY <1>2, <1>3, ListPrefix
<1>5. Len(os) = n /\ os \in Seq(Orders(Int)) /\ (Len(orders) <= cfg.max => os = orders)
  <2>1. Len(os) = n /\ os \in Seq(Orders(Int)) /\ \A i \in 1 .. n : os[i] = orders[i]
    BY <1>1, <1>2, <1>3
  <2>2. IsSeq(os) /\ IsSeq(orders)
    BY <1>1, <2>1, SeqIsSeq
  <2> HIDE DEF os
  <2>3. n = Len(orders) => os = orders
    BY <2>1, <2>2, SameSeq
  <2>. QED BY <1>2, <2>1, <2>3
<1>6. Restore(cfg, seq, orders) = b
  BY DEF Restore
<1>7. cfg.index = "Ladder" => \A i \in 1 .. Len(os) : os[i].price \in cfg.prices
  OBVIOUS
<1> HIDE DEF os
<1>8. BookOK(Int, book) /\ All(book) = os
  BY <1>4, PutBackFacts
<1>9. cfg.index = "Ladder" => BookOK(cfg.prices, book)
  <2> SUFFICES ASSUME cfg.index = "Ladder" PROVE BookOK(cfg.prices, book)
    OBVIOUS
  <2>1. \A i \in 1 .. Len(os) : os[i] \in Orders(cfg.prices)
    <3> TAKE i \in 1 .. Len(os)
    <3>1. os[i] \in Orders(Int) /\ os[i].price \in cfg.prices
      BY <1>5, <1>7
    <3>. QED BY <3>1 DEF Orders
  <2>2. os \in Seq(Orders(cfg.prices))
    BY <1>5, <2>1
  <2>3. ListOK(cfg.prices, os)
    BY <1>4, <2>2 DEF ListOK
  <2>. QED BY <1>1, <2>3, PutBackFacts
<1> HIDE DEF book
<1>10. Total(book) <= cfg.max
  <2>1. Total(book) = Len(All(book))
    BY <1>8, AllFacts DEF Listed
  <2>. QED BY <1>2, <1>5, <1>8, <2>1
<1>11. b \in BookForm /\ b.cfg = cfg /\ b.seq = seq /\ b.book = book
  BY <1>8 DEF BookForm, BookOK
<1> HIDE DEF b
<1>12. GoodBook(b)
  BY <1>8, <1>9, <1>10, <1>11 DEF GoodBook
<1>. QED BY <1>5, <1>6, <1>8, <1>11, <1>12 DEF RestoredBook, os

\* An engine restored.
RestoredEngine(eng, p) ==
    /\ GoodEngine(eng) /\ eng.cfg = p.cfg
    /\ \A s : s \in DOMAIN eng.books <=> \E i \in 1 .. Len(p.books) : p.books[i].sym = s
    /\ \A s \in DOMAIN eng.books :
          \E i \in 1 .. Len(p.books) :
             /\ p.books[i].sym = s
             /\ RestoredBook(eng.books[s], p.cfg, p.books[i].seq, p.books[i].orders)

\* RestoreEngine does that unless it panics.
LEMMA RestoreEngineFacts ==
    ASSUME NEW p \in ParsedForm, Ordered(p), ~RestorePanics(p)
    PROVE  RestoredEngine(RestoreEngine(p), p)
<1> DEFINE D == {b.sym : b \in ToSet(p.books)}
           last(x) == p.books[Max({i \in 1 .. Len(p.books) : p.books[i].sym = x})]
           books == [x \in D |-> Restore(p.cfg, last(x).seq, last(x).orders)]
           eng == [cfg |-> p.cfg, books |-> books]
<1>1. RestoreEngine(p) = eng
  BY DEF RestoreEngine
<1>2. p.cfg \in Configs /\ p.books \in Seq(ParsedBooks) /\ Len(p.books) \in Nat
      /\ \A i \in 1 .. Len(p.books) : p.books[i].sym \in Nameable /\ p.books[i].seq \in Nat
  BY ParsedFields
<1>3. ToSet(p.books) = {p.books[i] : i \in 1 .. Len(p.books)}
  BY <1>2 DEF ToSet
<1>4. \A s : s \in D <=> \E i \in 1 .. Len(p.books) : p.books[i].sym = s
  BY <1>3
<1>5. \A i \in 1 .. Len(p.books) :
          RestoredBook(Restore(p.cfg, p.books[i].seq, p.books[i].orders), p.cfg, p.books[i].seq,
                       p.books[i].orders)
  <2> TAKE i \in 1 .. Len(p.books)
  <2> DEFINE os == p.books[i].orders
             rs == Restorable(p.cfg, os)
  <2>1. ListOK(Int, os)
    BY DEF Ordered
  <2>2. p.cfg.index = "Ladder" => \A j \in 1 .. Len(rs) : rs[j].price \in p.cfg.prices
    <3> SUFFICES ASSUME p.cfg.index = "Ladder", NEW j \in 1 .. Len(rs)
                 PROVE  rs[j].price \in p.cfg.prices
      OBVIOUS
    <3>1. p.books[i] \in ToSet(p.books)
      BY <1>3
    <3>2. rs \in Seq(Orders(Int))
      <4>1. os \in Seq(Orders(Int)) /\ Len(os) \in Nat /\ p.cfg.max \in Nat
        BY <1>2, <2>1 DEF ListOK, Configs
      <4>2. p.cfg.max \in Int /\ Len(os) \in Int
        BY <4>1
      <4>3. /\ Min({p.cfg.max, Len(os)}) = p.cfg.max \/ Min({p.cfg.max, Len(os)}) = Len(os)
            /\ Min({p.cfg.max, Len(os)}) <= Len(os)
        BY <4>2, MinOfTwo
      <4> DEFINE m == Min({p.cfg.max, Len(os)})
      <4>4. m \in 0 .. Len(os) /\ rs = SubSeq(os, 1, m)
        <5>1. rs = SubSeq(os, 1, m)
          BY DEF Restorable
        <5> HIDE DEF m, rs
        <5>2. m = p.cfg.max \/ m = Len(os)
          BY <4>3 DEF m
        <5>3. m <= Len(os)
          BY <4>3 DEF m
        <5>. QED BY <4>1, <5>1, <5>2, <5>3
      <4> HIDE DEF m, os, rs
      <4>. QED BY <4>1, <4>4
    <3>3. rs[j] \in ToSet(rs)
      BY <3>2 DEF ToSet
    <3>. QED BY <3>1, <3>3 DEF RestorePanics, OnLadder
  <2>. QED BY <1>2, <2>1, <2>2, RestoreFacts
<1>6. \A s \in D : \E i \in 1 .. Len(p.books) : p.books[i].sym = s /\ last(s) = p.books[i]
  <2> TAKE s \in D
  <2> DEFINE I == {i \in 1 .. Len(p.books) : p.books[i].sym = s}
             n == Len(p.books)
  <2>1. I # {}
    BY <1>4
  <2>2. I \subseteq Int /\ n \in Int /\ \A i \in I : i <= n
    BY <1>2
  <2>3. last(s) = p.books[Max(I)] /\ \A i \in I : i \in 1 .. n /\ p.books[i].sym = s
    OBVIOUS
  <2> HIDE DEF I, n, last
  <2>4. Max(I) \in I
    BY <2>1, <2>2, MaxFacts
  <2>. QED BY <2>3, <2>4 DEF n
<1>7. \A s \in D : books[s] = Restore(p.cfg, last(s).seq, last(s).orders)
  OBVIOUS
<1>8. books = [x \in D |-> books[x]] /\ DOMAIN books = D
  OBVIOUS
<1> HIDE DEF D, last, books
<1>9. \A s \in D : \E i \in 1 .. Len(p.books) :
          /\ p.books[i].sym = s
          /\ RestoredBook(books[s], p.cfg, p.books[i].seq, p.books[i].orders)
  <2> TAKE s \in D
  <2>1. PICK i \in 1 .. Len(p.books) : p.books[i].sym = s /\ last(s) = p.books[i]
    BY <1>6
  <2>2. books[s] = Restore(p.cfg, p.books[i].seq, p.books[i].orders)
    BY <1>7, <2>1
  <2>. QED BY <1>5, <2>1, <2>2
<1>10. \A s \in D : GoodBook(books[s])
  BY <1>9 DEF RestoredBook
<1>11. D \subseteq Nameable
  BY <1>2, <1>4
<1>12. GoodEngine(eng)
  BY <1>2, <1>8, <1>10, <1>11, EngineMade
<1>13. eng.cfg = p.cfg /\ eng.books = books
  OBVIOUS
<1> HIDE DEF eng
<1>14. RestoredEngine(eng, p)
  BY <1>4, <1>8, <1>9, <1>12, <1>13 DEF RestoredEngine
<1>. QED BY <1>1, <1>14

\* A good book is put together by its fields.
LEMMA SameGoodBook ==
    ASSUME NEW a, GoodBook(a), NEW b, GoodBook(b), a.cfg = b.cfg, a.seq = b.seq,
           All(a.book) = All(b.book)
    PROVE  a = b
<1>1. a \in BookForm /\ b \in BookForm /\ BookOK(Int, a.book) /\ BookOK(Int, b.book)
  BY DEF GoodBook
<1>2. a.book = b.book
  BY <1>1, ListingIsBook
<1>. QED BY <1>1, <1>2 DEF BookForm

\* An engine restored from what holds the book of s has it.
LEMMA RestoresBook ==
    ASSUME NEW p, NEW eng, GoodEngine(eng), NEW s, HoldsIn(p, eng, s), NEW r, RestoredEngine(r, p),
           s \in DOMAIN eng.books => eng.books[s].cfg = eng.cfg
    PROVE  BookOf(r, s) = BookOf(eng, s)
<1>1. p.cfg = eng.cfg /\ r.cfg = eng.cfg /\ GoodEngine(r)
  BY DEF HoldsIn, RestoredEngine
<1>2. CASE s \in DOMAIN eng.books
  <2>1. s \in DOMAIN r.books
    BY <1>2 DEF HoldsIn, RestoredEngine
  <2>2. PICK i \in 1 .. Len(p.books) :
            /\ p.books[i].sym = s
            /\ RestoredBook(r.books[s], p.cfg, p.books[i].seq, p.books[i].orders)
    BY <2>1 DEF RestoredEngine
  <2>3. p.books[i].seq = eng.books[s].seq /\ p.books[i].orders = OrdersOf(eng, s)
    BY <1>2, <2>2 DEF HoldsIn, HeldAs
  <2>4. RestoredBook(r.books[s], eng.books[s].cfg, eng.books[s].seq, OrdersOf(eng, s))
    BY <1>1, <1>2, <2>2, <2>3
  <2>5. Len(OrdersOf(eng, s)) <= eng.books[s].cfg.max
    BY <1>2, ListingOf DEF Size
  <2>6. All(r.books[s].book) = All(eng.books[s].book)
    BY <2>4, <2>5 DEF RestoredBook, OrdersOf
  <2>7. GoodBook(eng.books[s])
    BY <1>2, EngineFields
  <2>8. r.books[s] = eng.books[s]
    BY <2>4, <2>6, <2>7, SameGoodBook DEF RestoredBook
  <2>. QED BY <1>2, <2>1, <2>8 DEF BookOf
<1>3. CASE s \notin DOMAIN eng.books
  <2>1. BookOf(eng, s) = NewBook(eng.cfg) /\ eng.cfg \in Configs
    BY <1>3, EngineFields DEF BookOf
  <2>2. CASE s \notin DOMAIN r.books
    BY <1>1, <2>1, <2>2 DEF BookOf
  <2>3. CASE s \in DOMAIN r.books
    <3>1. PICK i \in 1 .. Len(p.books) :
              /\ p.books[i].sym = s
              /\ RestoredBook(r.books[s], p.cfg, p.books[i].seq, p.books[i].orders)
      BY <2>3 DEF RestoredEngine
    <3>2. p.books[i].seq = 0 /\ p.books[i].orders = <<>>
      BY <1>3, <3>1 DEF HoldsIn, HeldAs
    <3>3. RestoredBook(r.books[s], eng.cfg, 0, <<>>)
      BY <1>1, <3>1, <3>2
    <3>4. GoodBook(r.books[s]) /\ r.books[s].cfg = eng.cfg /\ r.books[s].seq = 0
          /\ All(r.books[s].book) = <<>>
      <4>1. Len(<<>>) <= eng.cfg.max
        BY <2>1 DEF Configs
      <4>. QED BY <3>3, <4>1 DEF RestoredBook
    <3>5. GoodBook(NewBook(eng.cfg)) /\ All(NewBook(eng.cfg).book) = <<>>
          /\ NewBook(eng.cfg).cfg = eng.cfg /\ NewBook(eng.cfg).seq = 0
      BY <2>1, NewBookGood DEF NewBook
    <3>6. r.books[s] = NewBook(eng.cfg)
      BY <3>4, <3>5, SameGoodBook
    <3>. QED BY <2>1, <2>3, <3>6 DEF BookOf
  <2>. QED BY <2>2, <2>3
<1>. QED BY <1>2, <1>3

\* The orders that Restore looks at are some of the orders.
LEMMA RestorableFacts ==
    ASSUME NEW cfg \in Configs, NEW X, NEW orders \in Seq(X), NEW o \in ToSet(Restorable(cfg, orders))
    PROVE  \E j \in 1 .. Len(orders) : o = orders[j]
<1> DEFINE n == Min({cfg.max, Len(orders)})
           os == Restorable(cfg, orders)
<1>1. cfg.max \in Nat /\ Len(orders) \in Nat
  BY DEF Configs
<1>2. cfg.max \in Int /\ Len(orders) \in Int
  BY <1>1
<1>3. (n = cfg.max \/ n = Len(orders)) /\ n <= Len(orders)
  BY <1>2, MinOfTwo
<1>4. os = SubSeq(orders, 1, n)
  BY DEF Restorable
<1>5. o \in ToSet(os)
  OBVIOUS
<1> HIDE DEF n, os
<1>6. n \in 0 .. Len(orders)
  BY <1>1, <1>3
<1>7. Len(os) = n /\ \A j \in 1 .. n : os[j] = orders[j]
  BY <1>4, <1>6
<1>8. PICK j \in 1 .. Len(os) : o = os[j]
  BY <1>5 DEF ToSet
<1>9. j \in 1 .. Len(orders)
  BY <1>6, <1>7
<1>. QED BY <1>7, <1>8, <1>9

\* Only an order of a book with another configuration has no level.
LEMMA PanicsOnlyFor ==
    ASSUME NEW p \in ParsedForm, NEW eng, GoodEngine(eng), OrdersIn(p, eng), RestorePanics(p)
    PROVE  \E s \in DOMAIN eng.books : eng.books[s].cfg # eng.cfg
<1>1. p.cfg = eng.cfg /\ p.cfg \in Configs /\ p.cfg.index = "Ladder"
  BY EngineFields DEF OrdersIn, RestorePanics
<1>2. PICK b \in ToSet(p.books) : \E o \in ToSet(Restorable(p.cfg, b.orders)) : o.price \notin p.cfg.prices
  BY DEF RestorePanics, OnLadder
<1>3. PICK o \in ToSet(Restorable(p.cfg, b.orders)) : o.price \notin p.cfg.prices
  BY <1>2
<1>4. PICK i \in 1 .. Len(p.books) : b = p.books[i]
  BY ParsedFields DEF ToSet
<1> DEFINE s == b.sym
<1>5. s \in DOMAIN eng.books /\ \E n \in 0 .. Size(eng, s) : b.orders = SubSeq(OrdersOf(eng, s), 1, n)
  BY <1>4 DEF OrdersIn
<1> HIDE DEF s
<1>6. PICK n \in 0 .. Size(eng, s) : b.orders = SubSeq(OrdersOf(eng, s), 1, n)
  BY <1>5
<1> SUFFICES ASSUME eng.books[s].cfg = eng.cfg PROVE FALSE
  BY <1>5
<1> DEFINE prices == p.cfg.prices
           os == OrdersOf(eng, s)
<1>7. os \in Seq(Orders(prices))
  <2>1. BookOK(prices, eng.books[s].book)
    BY <1>1, <1>5, EngineFields DEF GoodBook
  <2>. QED BY <2>1, AllFacts DEF Listed, OrdersOf
<1>8. Len(os) \in Nat /\ n \in 0 .. Len(os)
  BY <1>5, ListingOf DEF Size
<1> HIDE DEF os
<1>9. b.orders \in Seq(Orders(prices))
  BY <1>6, <1>7, <1>8 DEF os
<1>10. PICK j \in 1 .. Len(b.orders) : o = b.orders[j]
  BY <1>1, <1>3, <1>9, RestorableFacts
<1>11. o \in Orders(prices)
  BY <1>9, <1>10
<1>. QED BY <1>3, <1>11 DEF Orders

-----------------------------------------------------------------------------
(* What replay reads from a line *)

\* The numbers of a command pass through a float64 unchanged: none is beyond Exact, on
\* either side of 0.
ExactCommand(cmd) ==
    \A f \in DOMAIN cmd \cap {"id", "price", "qty"} : cmd[f] \in -Exact .. Exact

\* A command with other numbers is still a command; with exact ones it is the same.
LEMMA CmdFacts ==
    ASSUME NEW e, e.sym \in Symbols, e.cmd \in Requests
    PROVE  /\ Cmd(e).sym = e.sym /\ Cmd(e).cmd \in Requests
           /\ ExactCommand(e.cmd) => Cmd(e).cmd = e.cmd
<1> DEFINE c == e.cmd
           d == [f \in DOMAIN c |-> IF f \in {"id", "price", "qty"} THEN AsFloat(c[f]) ELSE c[f]]
<1>1. Cmd(e) = [sym |-> e.sym, cmd |-> d]
  BY DEF Cmd
<1>2. Cmd(e).sym = e.sym /\ Cmd(e).cmd = d
  BY <1>1
<1>3. \A n \in Nat : AsFloat(n) \in Nat
  BY ExactAssumption DEF AsFloat
<1>4. \A n \in Int : AsFloat(n) \in Int
  BY DEF AsFloat
<1>5. \A n \in -Exact .. Exact : AsFloat(n) = n
  BY DEF AsFloat
<1>6. d \in Requests
  <2>1. CASE c \in [kind : {"New"}, id : Nat, side : Sides, otype : {"Limit", "Market"},
                    price : Int, qty : Nat, tif : Tifs]
    <3>1. d = [kind |-> c.kind, id |-> AsFloat(c.id), side |-> c.side, otype |-> c.otype,
               price |-> AsFloat(c.price), qty |-> AsFloat(c.qty), tif |-> c.tif]
      BY <2>1
    <3>2. c.id \in Nat /\ c.price \in Int /\ c.qty \in Nat /\ c.kind \in {"New"} /\ c.side \in Sides
          /\ c.otype \in {"Limit", "Market"} /\ c.tif \in Tifs
      BY <2>1
    <3>3. AsFloat(c.id) \in Nat /\ AsFloat(c.price) \in Int /\ AsFloat(c.qty) \in Nat
      BY <1>3, <1>4, <3>2
    <3> HIDE DEF d, c
    <3>. QED BY <3>1, <3>2, <3>3 DEF Requests
  <2>2. CASE c \in [kind : {"Cancel"}, id : Nat]
    <3>1. d = [kind |-> c.kind, id |-> AsFloat(c.id)] /\ c.id \in Nat /\ c.kind \in {"Cancel"}
      BY <2>2
    <3>2. AsFloat(c.id) \in Nat
      BY <1>3, <3>1
    <3> HIDE DEF d, c
    <3>. QED BY <3>1, <3>2 DEF Requests
  <2>3. CASE c \in [kind : {"Replace"}, id : Nat, price : Int, qty : Nat]
    <3>1. d = [kind |-> c.kind, id |-> AsFloat(c.id), price |-> AsFloat(c.price),
               qty |-> AsFloat(c.qty)]
      BY <2>3
    <3>2. c.id \in Nat /\ c.price \in Int /\ c.qty \in Nat /\ c.kind \in {"Replace"}
      BY <2>3
    <3>3. AsFloat(c.id) \in Nat /\ AsFloat(c.price) \in Int /\ AsFloat(c.qty) \in Nat
      BY <1>3, <1>4, <3>2
    <3> HIDE DEF d, c
    <3>. QED BY <3>1, <3>2, <3>3 DEF Requests
  <2>. QED BY <2>1, <2>2, <2>3 DEF Requests
<1>7. ASSUME ExactCommand(c) PROVE d = c
  <2>1. \A f \in DOMAIN c : d[f] = c[f]
    BY <1>5, <1>7 DEF ExactCommand
  <2>2. c = [f \in DOMAIN c |-> c[f]]
    BY DEF Requests
  <2>3. d = [f \in DOMAIN c |-> d[f]]
    OBVIOUS
  <2> HIDE DEF d, c
  <2>. QED BY <2>1, <2>2, <2>3
<1>. QED BY <1>2, <1>6, <1>7

-----------------------------------------------------------------------------
(* One more command *)

\* What Accept makes of the history.
LEMMA AcceptGrows ==
    ASSUME HistoryOK(accepted), StreamsOK(accepted), NEW s \in Symbols, NEW cmd, Told(cmd)
    PROVE  /\ Grown(accepted, Accept(s, cmd), s, cmd) /\ StreamsOK(Accept(s, cmd))
           /\ \A x : ~ReplacedIn(Accept(s, cmd), x) => ~ReplacedIn(accepted, x)
<1>1. Accept(s, cmd) = Append(accepted, Entry(accepted, s, cmd))
  BY DEF Accept, Ideal, IdealAfter, Entry, IdealIn
<1>. QED BY <1>1, HistoryGrows, StreamsGrow

\* The configurations given to AddSymbol are still there.
LEMMA OwnGrows ==
    ASSUME NEW acc, NEW more, NEW s, NEW cmd, Grown(acc, more, s, cmd)
    PROVE  /\ \A cfg : OwnConfig(acc, cfg) => OwnConfig(more, cfg)
           /\ cmd.kind = "AddSymbol" => OwnConfig(more, cmd.cfg)
<1>1. /\ Len(acc) \in Nat /\ Len(more) = Len(acc) + 1
      /\ \A i \in 1 .. Len(acc) : more[i] = acc[i]
      /\ more[Len(acc) + 1].cmd = cmd
  BY DEF Grown
<1>2. ASSUME NEW cfg, OwnConfig(acc, cfg) PROVE OwnConfig(more, cfg)
  <2>1. PICK i \in 1 .. Len(acc) : acc[i].cmd.kind = "AddSymbol" /\ acc[i].cmd.cfg = cfg
    BY <1>2 DEF OwnConfig
  <2>2. i \in 1 .. Len(more) /\ more[i] = acc[i]
    BY <1>1
  <2>. QED BY <2>1, <2>2 DEF OwnConfig
<1>3. ASSUME cmd.kind = "AddSymbol" PROVE OwnConfig(more, cmd.cfg)
  <2> DEFINE i == Len(acc) + 1
  <2>1. i \in 1 .. Len(more)
    BY <1>1
  <2>2. more[i].cmd = cmd
    BY <1>1
  <2> HIDE DEF i
  <2>3. more[i].cmd.kind = "AddSymbol" /\ more[i].cmd.cfg = cmd.cfg
    BY <1>3, <2>2
  <2>. QED BY <2>1, <2>3 DEF OwnConfig
<1>. QED BY <1>2, <1>3

\* The lines are still commands of the history.
LEMMA LogGrows ==
    ASSUME NEW acc, NEW more, NEW s, NEW cmd, Grown(acc, more, s, cmd), NEW log, LogOK(log, acc)
    PROVE  LogOK(log, more)
<1>1. Len(acc) \in Nat /\ Len(more) = Len(acc) + 1 /\ \A i \in 1 .. Len(acc) : more[i] = acc[i]
  BY DEF Grown
<1>2. \A i \in 1 .. Len(acc) : i \in 1 .. Len(more)
  BY <1>1
<1>. QED BY <1>1, <1>2 DEF LogOK

\* A line that no longer parses.
LEMMA LogBroken ==
    ASSUME NEW acc, NEW log, LogOK(log, acc)
    PROVE  LogOK([log EXCEPT ![Len(log)] = <<>>], acc)
<1> DEFINE r == [log EXCEPT ![Len(log)] = <<>>]
           X == {log[k] : k \in 1 .. Len(log)} \cup {<<>>}
<1>1. IsSeq(log) /\ Len(log) \in Nat
  BY DEF LogOK, IsSeq
<1>2. log \in Seq(X) /\ <<>> \in X
  BY <1>1 DEF IsSeq
<1>3. r \in Seq(X) /\ Len(r) = Len(log)
  <2> DEFINE n == Len(log)
             g == [k \in 1 .. n |-> IF k = n THEN <<>> ELSE log[k]]
  <2>1. n \in Nat /\ DOMAIN log = 1 .. n /\ log = [k \in 1 .. n |-> log[k]]
        /\ \A k \in 1 .. n : log[k] \in X
    <3> HIDE DEF X
    <3>. QED BY <1>2
  <2> HIDE DEF X
  <2>2. r = g
    <3>1. r = [k \in 1 .. n |-> IF k = n THEN <<>> ELSE log[k]]
      BY <2>1
    <3>. QED BY <3>1
  <2>3. g \in Seq(X) /\ Len(g) = n
    BY <1>2, <2>1
  <2>. QED BY <2>2, <2>3
<1>4. \A k \in 1 .. Len(log) : r[k] = <<>> \/ r[k] = log[k]
  BY <1>2
<1> HIDE DEF r, X
<1>5. IsSeq(r)
  BY <1>3, SeqIsSeq
<1>6. \A k \in 1 .. Len(r) : r[k] # <<>> => k \in 1 .. Len(log) /\ log[k] = r[k] /\ log[k] # <<>>
  BY <1>3, <1>4
<1>7. LogOK(r, acc)
  <2>1. ASSUME NEW k \in 1 .. Len(r), r[k] # <<>>
        PROVE  /\ r[k] = <<Line(r, k)>>
               /\ [sym |-> Line(r, k).sym, cmd |-> Line(r, k).cmd] \in Entries
               /\ Line(r, k).at \in 1 .. Len(acc)
               /\ acc[Line(r, k).at].sym = Line(r, k).sym
               /\ acc[Line(r, k).at].cmd = Line(r, k).cmd
    <3>1. k \in 1 .. Len(log) /\ log[k] # <<>> /\ log[k] = r[k]
      BY <1>6, <2>1
    <3>2. Line(r, k) = Line(log, k)
      BY <3>1 DEF Line
    <3>. QED BY <3>1, <3>2 DEF LogOK
  <2>2. ASSUME NEW j \in 1 .. Len(r), NEW k \in 1 .. Len(r), j < k, r[j] # <<>>, r[k] # <<>>
        PROVE  Line(r, j).at < Line(r, k).at
    <3>1. Line(r, j) = Line(log, j) /\ Line(r, k) = Line(log, k)
      BY <1>6, <2>2 DEF Line
    <3>. QED BY <1>6, <2>2, <3>1 DEF LogOK
  <2>. QED BY <1>5, <2>1, <2>2 DEF LogOK
<1>. QED BY <1>7 DEF r

\* A line behind the others: it does not parse, or it is the command added last.
LEMMA LogAppended ==
    ASSUME NEW acc, Len(acc) \in Nat, NEW log, LogOK(log, acc), NEW x,
           \/ x = <<>>
           \/ /\ x = <<Head(x)>> /\ [sym |-> Head(x).sym, cmd |-> Head(x).cmd] \in Entries
              /\ Head(x).at \in 1 .. Len(acc)
              /\ acc[Head(x).at].sym = Head(x).sym /\ acc[Head(x).at].cmd = Head(x).cmd
              /\ \A k \in 1 .. Len(log) : log[k] # <<>> => Line(log, k).at < Head(x).at
    PROVE  LogOK(Append(log, x), acc)
<1> DEFINE r == Append(log, x)
           n == Len(log)
<1>1. IsSeq(log) /\ n \in Nat
  BY DEF LogOK, IsSeq
<1>2. IsSeq(r) /\ Len(r) = n + 1 /\ r[n + 1] = x /\ \A k \in 1 .. n : r[k] = log[k]
  BY <1>1, AppendIsSeq
<1> HIDE DEF r, n
<1>3. ASSUME NEW k \in 1 .. Len(r), r[k] # <<>>
      PROVE  /\ r[k] = <<Line(r, k)>>
             /\ [sym |-> Line(r, k).sym, cmd |-> Line(r, k).cmd] \in Entries
             /\ Line(r, k).at \in 1 .. Len(acc)
             /\ acc[Line(r, k).at].sym = Line(r, k).sym
             /\ acc[Line(r, k).at].cmd = Line(r, k).cmd
  <2>1. CASE k \in 1 .. n
    <3>1. Line(r, k) = Line(log, k) /\ log[k] # <<>> /\ log[k] = r[k]
      BY <1>2, <1>3, <2>1 DEF Line
    <3>. QED BY <2>1, <3>1 DEF LogOK, n
  <2>2. CASE k = n + 1
    <3>1. Line(r, k) = Head(x) /\ r[k] = x /\ x # <<>>
      BY <1>2, <1>3, <2>2 DEF Line
    <3>. QED BY <3>1
  <2>. QED BY <1>1, <1>2, <2>1, <2>2
<1>4. ASSUME NEW j \in 1 .. Len(r), NEW k \in 1 .. Len(r), j < k, r[j] # <<>>, r[k] # <<>>
      PROVE  Line(r, j).at < Line(r, k).at
  <2>1. j \in 1 .. n
    BY <1>1, <1>2, <1>4
  <2>2. Line(r, j) = Line(log, j) /\ log[j] # <<>>
    BY <1>2, <1>4, <2>1 DEF Line
  <2>3. CASE k \in 1 .. n
    <3>1. Line(r, k) = Line(log, k) /\ log[k] # <<>>
      BY <1>2, <1>4, <2>3 DEF Line
    <3>. QED BY <1>4, <2>1, <2>2, <2>3, <3>1 DEF LogOK, n
  <2>4. CASE k = n + 1
    <3>1. Line(r, k) = Head(x) /\ x # <<>>
      BY <1>2, <1>4, <2>4 DEF Line
    <3>. QED BY <2>1, <2>2, <3>1 DEF n
  <2>. QED BY <1>1, <1>2, <2>3, <2>4
<1>5. LogOK(r, acc)
  BY <1>2, <1>3, <1>4 DEF LogOK
<1>. QED BY <1>5 DEF r

\* The lines that stay when others are taken out.
LEMMA LogKept ==
    ASSUME NEW acc, NEW log, LogOK(log, acc), NEW S
    PROVE  LogOK(Keep(log, S), acc)
<1> DEFINE r == Keep(log, S)
           X == {log[k] : k \in 1 .. Len(log)}
<1>1. log \in Seq(X)
  BY DEF LogOK, IsSeq
<1>2. r \in Seq(X) /\ KeptOf(r, log, S)
  <2> HIDE DEF X
  <2>. QED BY <1>1, KeepFacts
<1> HIDE DEF r, X
<1>3. IsSeq(r)
  BY <1>2, SeqIsSeq
<1>4. PICK f : Embeds(f, r, log, S)
  BY <1>2 DEF KeptOf
<1>5. \A k \in 1 .. Len(r) : f[k] \in 1 .. Len(log) /\ r[k] = log[f[k]] /\ Line(r, k) = Line(log, f[k])
  BY <1>4 DEF Embeds, Line
<1>6. \A j, k \in 1 .. Len(r) : j < k => f[j] < f[k]
  BY <1>4 DEF Embeds
<1>7. LogOK(r, acc)
  <2>1. ASSUME NEW k \in 1 .. Len(r), r[k] # <<>>
        PROVE  /\ r[k] = <<Line(r, k)>>
               /\ [sym |-> Line(r, k).sym, cmd |-> Line(r, k).cmd] \in Entries
               /\ Line(r, k).at \in 1 .. Len(acc)
               /\ acc[Line(r, k).at].sym = Line(r, k).sym
               /\ acc[Line(r, k).at].cmd = Line(r, k).cmd
    BY <1>5, <2>1 DEF LogOK
  <2>2. ASSUME NEW j \in 1 .. Len(r), NEW k \in 1 .. Len(r), j < k, r[j] # <<>>, r[k] # <<>>
        PROVE  Line(r, j).at < Line(r, k).at
    BY <1>5, <1>6, <2>2 DEF LogOK
  <2>. QED BY <1>3, <2>1, <2>2 DEF LogOK
<1>. QED BY <1>7 DEF r

\* What a caller may send.
LEMMA EntryFacts ==
    ASSUME NEW e \in Entries
    PROVE  /\ e.sym \in Symbols /\ e.cmd \in Requests /\ Told(e.cmd)
           /\ [sym |-> e.sym, cmd |-> e.cmd] = e /\ e.cmd.kind # "AddSymbol"
<1>1. e \in [sym : Nat, cmd : Requests]
  BY EntriesAssumption
<1>2. e.cmd.kind # "AddSymbol"
  BY <1>1 DEF Requests
<1>. QED BY <1>1, <1>2 DEF Told, Symbols

\* The journal when bytes of a line have been appended, whether the command counts or, since
\* its line is not there, not.
LEMMA AppendedOK ==
    ASSUME HistoryOK(accepted), LogOK(cmdlog, accepted), NEW e \in Entries, NEW written, NEW more,
           Grown(accepted, more, e.sym, e.cmd)
    PROVE  /\ LogOK(Appended(e, written), more)
           /\ written \in {"Part", "Nothing"} \/ open => LogOK(Appended(e, written), accepted)
           /\ Len(Appended(e, written)) \in Nat /\ Len(Appended(e, written)) >= Len(cmdlog)
<1> DEFINE n == Len(accepted)
           line == [sym |-> e.sym, cmd |-> e.cmd, at |-> n + 1]
           broken == [cmdlog EXCEPT ![Len(cmdlog)] = <<>>]
           x == <<line>>
           a == Appended(e, written)
<1>1. n \in Nat /\ IsSeq(cmdlog) /\ Len(cmdlog) \in Nat
  BY DEF Grown, LogOK, IsSeq
<1>2. LogOK(cmdlog, more)
  BY LogGrows
<1>3. LogOK(broken, accepted) /\ LogOK(broken, more) /\ Len(broken) = Len(cmdlog)
  <2>1. Len(broken) = Len(cmdlog)
    BY <1>1 DEF IsSeq
  <2>. QED BY <1>2, <2>1, LogBroken
<1>4. /\ LogOK(Append(cmdlog, <<>>), accepted) /\ LogOK(Append(cmdlog, <<>>), more)
      /\ Len(Append(cmdlog, <<>>)) = Len(cmdlog) + 1
  <2>1. Len(more) \in Nat
    BY <1>1 DEF Grown
  <2> DEFINE y == <<>>
  <2>2. y = <<>>
    OBVIOUS
  <2> HIDE DEF y
  <2>3. LogOK(Append(cmdlog, y), accepted) /\ LogOK(Append(cmdlog, y), more)
    BY <1>1, <1>2, <2>1, <2>2, LogAppended
  <2>. QED BY <1>1, <2>3, AppendIsSeq DEF y
<1>5. LogOK(Append(cmdlog, x), more) /\ Len(Append(cmdlog, x)) = Len(cmdlog) + 1
  <2>1. line.sym = e.sym /\ line.cmd = e.cmd /\ line.at = n + 1
    OBVIOUS
  <2>2. [sym |-> e.sym, cmd |-> e.cmd] \in Entries
    BY EntryFacts
  <2>3. Head(x) = line
    OBVIOUS
  <2>4. Len(more) = n + 1 /\ more[n + 1].sym = e.sym /\ more[n + 1].cmd = e.cmd
    BY DEF Grown
  <2>5. \A k \in 1 .. Len(cmdlog) : cmdlog[k] # <<>> => Line(cmdlog, k).at < n + 1
    <3> SUFFICES ASSUME NEW k \in 1 .. Len(cmdlog), cmdlog[k] # <<>>
                 PROVE  Line(cmdlog, k).at < n + 1
      OBVIOUS
    <3>1. Line(cmdlog, k).at \in 1 .. n
      BY DEF LogOK
    <3>. QED BY <1>1, <3>1
  <2>6. x = <<Head(x)>>
    OBVIOUS
  <2>7. n + 1 \in 1 .. Len(more) /\ Len(more) \in Nat
    BY <1>1, <2>4
  <2> HIDE DEF x, line, n
  <2>8. LogOK(Append(cmdlog, x), more)
    BY <1>2, <2>1, <2>2, <2>3, <2>4, <2>5, <2>6, <2>7, LogAppended
  <2>. QED BY <1>1, <2>8, AppendIsSeq
<1>6. a = IF written = "Nothing" THEN cmdlog ELSE IF open THEN broken
          ELSE Append(cmdlog, IF written = "Part" THEN <<>> ELSE x)
  BY DEF Appended
<1> HIDE DEF a, broken, x
<1>7. CASE written = "Nothing"
  BY <1>1, <1>2, <1>6, <1>7 DEF a
<1>8. CASE written # "Nothing" /\ open
  BY <1>1, <1>3, <1>6, <1>8 DEF a
<1>9. CASE written = "Part" /\ ~open
  <2>1. a = Append(cmdlog, <<>>)
    BY <1>6, <1>9
  <2>. QED BY <1>1, <1>4, <2>1 DEF a
<1>10. CASE written \notin {"Part", "Nothing"} /\ ~open
  <2>1. a = Append(cmdlog, x)
    BY <1>6, <1>10
  <2>. QED BY <1>1, <1>5, <1>10, <2>1 DEF a
<1>. QED BY <1>7, <1>8, <1>9, <1>10

\* The snapshot is none the worse for a command after it.
LEMMA SnapGrows ==
    ASSUME SnapOK, NEW s, NEW cmd, Grown(accepted, accepted', s, cmd), snap' = snap
    PROVE  SnapOK'
<1>1. Len(accepted) \in Nat /\ Len(accepted)' = Len(accepted) + 1
  BY DEF Grown
<1>2. \A cfg : OwnConfig(accepted, cfg) => OwnConfig(accepted', cfg)
  BY OwnGrows
<1>3. Configured(snap.of)'
  BY <1>2 DEF SnapOK, Configured
<1>4. Records' = Records
  BY DEF Records
<1>5. snap.taken \in 0 .. Len(accepted)'
  BY <1>1 DEF SnapOK
<1>. QED BY <1>3, <1>4, <1>5 DEF SnapOK

\* What is in the files stays right if they do not change.
LEMMA FilesSame ==
    ASSUME FilesOK, cmdlog' = cmdlog, snap' = snap, accepted' = accepted
    PROVE  FilesOK'
BY DEF FilesOK, SnapOK, Configured, Records

\* An engine that nothing has been put in, as it is when the process has gone.
LEMMA StoppedOK ==
    ASSUME EngineOK, engine' = NewEngine(EngineCfg), pending' = <<>>, inflight' = <<>>,
           journaled' = FALSE, evtlog' = evtlog, delivered' = delivered
    PROVE  EngineOK'
<1>1. GoodEngine(NewEngine(EngineCfg)) /\ DOMAIN NewEngine(EngineCfg).books = {}
  BY ConfigAssumption, NewEngineGood
<1>2. Configured(engine)'
  BY <1>1 DEF Configured
<1>3. IsSeq(<<>>) /\ Len(<<>>) = 0
  BY DEF IsSeq
<1>4. GoodEngine(engine)' /\ IsSeq(inflight)' /\ delivered' \subseteq evtlog'
  BY <1>1, <1>3 DEF EngineOK
<1>5. (\A i, j \in 1 .. Len(inflight) : inflight[i].sym = inflight[j].sym)'
  BY <1>3
<1>6. (pending = <<>>)' /\ (inflight = <<>>)' /\ (journaled = FALSE)'
  OBVIOUS
<1>. QED BY <1>2, <1>4, <1>5, <1>6 DEF EngineOK

-----------------------------------------------------------------------------
(* What was lost makes no difference to this *)

\* A new book for a symbol, and the history with it if that changes anything.
LEMMA AddSymbolSound ==
    ASSUME Sound, NEW s \in Symbols, NEW cfg \in Configs, AddSymbol(s, cfg)
    PROVE  /\ Sound'
           /\ IF BookOf(engine, s) = NewBook(cfg)
              THEN accepted' = accepted
              ELSE Grown(accepted, accepted', s, [kind |-> "AddSymbol", cfg |-> cfg])
<1> DEFINE cmd == [kind |-> "AddSymbol", cfg |-> cfg]
           b == NewBook(cfg)
<1>1. /\ mode = "Up" /\ Idle /\ engine' = WithBook(engine, s, b)
      /\ accepted' = IF BookOf(engine, s) = b THEN accepted ELSE Accept(s, cmd)
      /\ UNCHANGED <<pending, inflight, journaled, next, cmdlog, open, snap, damaged, mode,
                     evtlog, delivered, faults>>
  BY DEF AddSymbol, files
<1>2. EngineOK /\ ControlOK /\ HistoryOK(accepted) /\ StreamsOK(accepted) /\ LogOK(cmdlog, accepted)
      /\ SnapOK
  BY DEF Sound, FilesOK
<1>3. cmd.kind = "AddSymbol" /\ cmd.cfg = cfg /\ Told(cmd)
  BY DEF Told
<1>4. b.cfg = cfg /\ GoodBook(b)
  BY NewBookGood DEF NewBook
<1> HIDE DEF cmd, b
<1>5. BookOf(engine, s) # b => Grown(accepted, accepted', s, cmd) /\ StreamsOK(accepted')
  BY <1>1, <1>2, <1>3, AcceptGrows
<1>6. FilesOK'
  <2>1. CASE BookOf(engine, s) = b
    BY <1>1, <2>1, FilesSame DEF Sound
  <2>2. CASE BookOf(engine, s) # b
    <3>1. HistoryOK(accepted') /\ StreamsOK(accepted')
      BY <1>5, <2>2 DEF Grown
    <3>2. LogOK(cmdlog, accepted')
      BY <1>2, <1>5, <2>2, LogGrows
    <3>3. SnapOK'
      BY <1>1, <1>2, <1>5, <2>2, SnapGrows
    <3>. QED BY <1>1, <3>1, <3>2, <3>3 DEF FilesOK
  <2>. QED BY <2>1, <2>2
<1>7. GoodEngine(engine') /\ engine'.cfg = engine.cfg
      /\ DOMAIN engine'.books = DOMAIN engine.books \cup {s} /\ BookOf(engine', s) = b
      /\ \A x : x # s => BookOf(engine', x) = BookOf(engine, x)
  BY <1>1, <1>2, <1>4, WithBookFacts DEF EngineOK
<1>8. Configured(engine)'
  <2> SUFFICES ASSUME NEW x \in DOMAIN engine'.books
               PROVE  engine'.books[x].cfg = engine'.cfg \/ OwnConfig(accepted', engine'.books[x].cfg)
    BY DEF Configured
  <2>1. \A c : OwnConfig(accepted, c) => OwnConfig(accepted', c)
    BY <1>1, <1>5, OwnGrows
  <2>2. BookOf(engine', x) = engine'.books[x]
    BY DEF BookOf
  <2>3. CASE x # s
    <3>1. x \in DOMAIN engine.books /\ engine'.books[x] = engine.books[x]
      BY <1>7, <2>2, <2>3 DEF BookOf
    <3>. QED BY <1>2, <1>7, <2>1, <3>1 DEF EngineOK, Configured
  <2>4. CASE x = s /\ BookOf(engine, s) # b
    BY <1>3, <1>4, <1>5, <1>7, <2>2, <2>4, OwnGrows
  <2>5. CASE x = s /\ BookOf(engine, s) = b /\ s \in DOMAIN engine.books
    <3>1. engine'.books[x] = engine.books[s]
      BY <1>7, <2>2, <2>5 DEF BookOf
    <3>. QED BY <1>2, <1>7, <2>1, <2>5, <3>1 DEF EngineOK, Configured
  <2>6. CASE x = s /\ BookOf(engine, s) = b /\ s \notin DOMAIN engine.books
    <3>1. engine'.books[x] = NewBook(engine.cfg)
      BY <1>7, <2>2, <2>6 DEF BookOf
    <3>. QED BY <1>7, <3>1 DEF NewBook
  <2>. QED BY <2>3, <2>4, <2>5, <2>6
<1>9. EngineOK'
  BY <1>1, <1>2, <1>7, <1>8 DEF EngineOK
<1>10. ControlOK'
  BY <1>1, <1>2 DEF ControlOK, Idle
<1>11. FailsOnlyWhenDamaged'
  BY <1>1 DEF FailsOnlyWhenDamaged
<1>. QED BY <1>1, <1>5, <1>6, <1>9, <1>10, <1>11 DEF Sound, cmd, b

\* A command recorded.
LEMMA RecordSound ==
    ASSUME Sound, NEW e \in Entries, NEW written, Record(e, written)
    PROVE  Sound' /\ Grown(accepted, accepted', e.sym, e.cmd)
<1>1. /\ mode = "Up" /\ Idle /\ pending' = <<e>> /\ accepted' = Accept(e.sym, e.cmd)
      /\ cmdlog' = Appended(e, written) /\ ~Bounded
      /\ faults' = IF written = "All" THEN faults ELSE faults + 1
      /\ written = "All" \/ Len(accepted) + faults + 1 < MaxInputs
      /\ UNCHANGED <<engine, inflight, journaled, next, snap, damaged, mode, evtlog, delivered>>
  BY DEF Record
<1>2. EngineOK /\ ControlOK /\ HistoryOK(accepted) /\ StreamsOK(accepted) /\ LogOK(cmdlog, accepted)
      /\ SnapOK
  BY DEF Sound, FilesOK
<1>3. Grown(accepted, accepted', e.sym, e.cmd) /\ StreamsOK(accepted')
  BY <1>1, <1>2, AcceptGrows, EntryFacts
<1>4. FilesOK'
  <2>1. HistoryOK(accepted')
    BY <1>3 DEF Grown
  <2>2. LogOK(cmdlog, accepted)'
    BY <1>1, <1>2, <1>3, AppendedOK
  <2>3. SnapOK'
    BY <1>1, <1>2, <1>3, SnapGrows
  <2>. QED BY <1>3, <2>1, <2>2, <2>3 DEF FilesOK
<1>5. Configured(engine)'
  <2>1. \A c : OwnConfig(accepted, c) => OwnConfig(accepted', c)
    BY <1>3, OwnGrows
  <2>. QED BY <1>1, <1>2, <2>1 DEF EngineOK, Configured
<1>6. EngineOK'
  <2>1. pending' = <<Head(pending')>> /\ Head(pending') = e
    BY <1>1
  <2>2. e \in [sym : Symbols, cmd : Requests]
    BY EntryFacts
  <2>3. inflight = <<>>
    BY <1>1 DEF Idle
  <2>. QED BY <1>1, <1>2, <1>5, <2>1, <2>2, <2>3 DEF EngineOK
<1>7. ControlOK'
  <2>1. Len(cmdlog') \in Nat /\ Len(cmdlog') >= Len(cmdlog)
    BY <1>1, <1>2, <1>3, AppendedOK
  <2>2. Len(accepted) \in Nat /\ Len(cmdlog) \in Nat
    BY <1>2 DEF HistoryOK, LogOK, IsSeq
  <2>3. faults' \in 0 .. MaxInputs
    BY <1>1, <1>2, <2>2, MaxInputsAssumption DEF ControlOK
  <2>4. next \in 1 .. Len(cmdlog') + 1
    BY <1>2, <2>1, <2>2 DEF ControlOK
  <2>. QED BY <1>1, <1>2, <2>3, <2>4 DEF ControlOK
<1>8. FailsOnlyWhenDamaged'
  BY <1>1 DEF FailsOnlyWhenDamaged
<1>. QED BY <1>3, <1>4, <1>6, <1>7, <1>8 DEF Sound

\* A command applied: its events are on their way.
LEMMA SubmitSound ==
    ASSUME Sound, Submit
    PROVE  /\ Sound'
           /\ LET e == Head(pending)
                  b == BookOf(engine, e.sym)
                  out == AnswerOf(b, e.cmd).out
              IN  /\ e.sym \in Symbols /\ e.cmd \in Requests /\ GoodBook(b) /\ IsSeq(out)
                  /\ mode \in {"Up", "Replaying"} /\ inflight = <<>> /\ journaled = FALSE
                  /\ engine'.cfg = engine.cfg /\ BookOf(engine', e.sym) = Served(b, e.cmd)
                  /\ \A x : x # e.sym => BookOf(engine', x) = BookOf(engine, x)
                  /\ inflight' = [i \in 1 .. Len(out) |->
                                    [sym |-> e.sym, seq |-> b.seq + i, ev |-> out[i]]]
<1> DEFINE e == Head(pending)
           b == BookOf(engine, e.sym)
           out == AnswerOf(b, e.cmd).out
           flight == [i \in 1 .. Len(out) |-> [sym |-> e.sym, seq |-> b.seq + i, ev |-> out[i]]]
<1>1. /\ pending # <<>> /\ engine' = WithBook(engine, e.sym, Served(b, e.cmd))
      /\ inflight' = flight /\ pending' = <<>>
      /\ UNCHANGED <<journaled, next, cmdlog, open, snap, accepted, damaged, mode, evtlog,
                     delivered, faults>>
  BY DEF Submit, files, history
<1>2. EngineOK /\ ControlOK /\ FilesOK
  BY DEF Sound
<1>3. e.sym \in Symbols /\ e.cmd \in Requests
  <2>1. e \in [sym : Symbols, cmd : Requests]
    BY <1>1, <1>2 DEF EngineOK
  <2>. QED BY <2>1
<1>4. GoodBook(b)
  BY <1>2, BookOfGood DEF EngineOK
<1>5. GoodBook(Served(b, e.cmd)) /\ Served(b, e.cmd).cfg = b.cfg /\ IsSeq(out)
  BY <1>3, <1>4, ServedGood
<1>6. inflight = <<>> /\ journaled = FALSE
  BY <1>1, <1>2 DEF EngineOK
<1>7. mode \in {"Up", "Replaying"}
  BY <1>1, <1>2 DEF ControlOK, Idle
<1>8. Len(out) \in Nat /\ Len(flight) = Len(out) /\ IsSeq(flight)
      /\ \A i \in 1 .. Len(flight) : flight[i].sym = e.sym
  <2>1. Len(out) \in Nat
    BY <1>5 DEF IsSeq
  <2> DEFINE n == Len(out)
             g(i) == [sym |-> e.sym, seq |-> b.seq + i, ev |-> out[i]]
             E == {g(i) : i \in 1 .. n}
  <2>2. flight = [i \in 1 .. n |-> g(i)] /\ \A i \in 1 .. n : g(i) \in E
    OBVIOUS
  <2>3. \A i \in 1 .. n : g(i).sym = e.sym
    OBVIOUS
  <2> HIDE DEF g, E, n, flight
  <2>4. flight \in Seq(E) /\ Len(flight) = n /\ \A i \in 1 .. n : flight[i] = g(i)
    BY <2>1, <2>2 DEF n
  <2>. QED BY <2>1, <2>3, <2>4, SeqIsSeq DEF n
<1> HIDE DEF e, b, out, flight
<1>9. /\ GoodEngine(engine') /\ engine'.cfg = engine.cfg
      /\ DOMAIN engine'.books = DOMAIN engine.books \cup {e.sym}
      /\ BookOf(engine', e.sym) = Served(b, e.cmd)
      /\ \A x : x # e.sym => BookOf(engine', x) = BookOf(engine, x)
  BY <1>1, <1>2, <1>3, <1>5, WithBookFacts DEF EngineOK
<1>10. Configured(engine)'
  <2> SUFFICES ASSUME NEW x \in DOMAIN engine'.books
               PROVE  engine'.books[x].cfg = engine'.cfg \/ OwnConfig(accepted', engine'.books[x].cfg)
    BY DEF Configured
  <2>1. BookOf(engine', x) = engine'.books[x]
    BY DEF BookOf
  <2>2. engine'.books[x].cfg = BookOf(engine, x).cfg
    BY <1>5, <1>9, <2>1 DEF b
  <2>3. CASE x \in DOMAIN engine.books
    BY <1>1, <1>2, <1>9, <2>2, <2>3 DEF EngineOK, Configured, BookOf
  <2>4. CASE x \notin DOMAIN engine.books
    BY <1>9, <2>2, <2>4 DEF BookOf, NewBook
  <2>. QED BY <2>3, <2>4
<1>11. EngineOK'
  <2>1. pending' = <<>> /\ journaled' = FALSE /\ delivered' \subseteq evtlog'
    BY <1>1, <1>2, <1>6 DEF EngineOK
  <2>2. IsSeq(inflight') /\ \A i, j \in 1 .. Len(inflight') : inflight'[i].sym = inflight'[j].sym
    BY <1>1, <1>8
  <2>. QED BY <1>9, <1>10, <2>1, <2>2 DEF EngineOK
<1>12. ControlOK'
  BY <1>1, <1>2, <1>7 DEF ControlOK
<1>13. FailsOnlyWhenDamaged'
  BY <1>1, <1>7 DEF FailsOnlyWhenDamaged
<1>14. FilesOK'
  BY <1>1, <1>2, FilesSame
<1>15. Sound'
  BY <1>11, <1>12, <1>13, <1>14 DEF Sound
<1>. QED BY <1>1, <1>3, <1>4, <1>5, <1>6, <1>7, <1>9, <1>15 DEF e, b, out, flight

\* The first of the events on their way is journaled.
LEMMA JournalEventSound ==
    ASSUME Sound, JournalEvent
    PROVE  /\ Sound' /\ mode \in {"Up", "Replaying"}
           /\ IsSeq(inflight) /\ Len(inflight) \in Nat /\ Len(inflight) > 0
<1>1. /\ inflight # <<>> /\ journaled = FALSE /\ evtlog' = evtlog \cup {Head(inflight)}
      /\ journaled' = TRUE
      /\ UNCHANGED <<engine, pending, inflight, next, cmdlog, open, snap, accepted, damaged, mode,
                     delivered, faults>>
  BY DEF JournalEvent, files, history, Sound, EngineOK
<1>2. EngineOK /\ ControlOK /\ FilesOK
  BY DEF Sound
<1>3. mode \in {"Up", "Replaying"}
  BY <1>1, <1>2 DEF ControlOK, Idle
<1>4. EngineOK'
  BY <1>1, <1>2 DEF EngineOK, Configured
<1>5. ControlOK'
  BY <1>1, <1>2 DEF ControlOK, Idle
<1>6. FailsOnlyWhenDamaged'
  BY <1>1, <1>3 DEF FailsOnlyWhenDamaged
<1>7. FilesOK'
  BY <1>1, <1>2, FilesSame
<1>8. IsSeq(inflight) /\ Len(inflight) \in Nat /\ Len(inflight) > 0
  <2>1. IsSeq(inflight)
    BY <1>2 DEF EngineOK
  <2>. QED BY <1>1, <2>1 DEF IsSeq
<1>. QED BY <1>3, <1>4, <1>5, <1>6, <1>7, <1>8 DEF Sound

\* What is left when the first element has gone.
LEMMA TailFacts ==
    ASSUME NEW q, IsSeq(q), q # <<>>
    PROVE  /\ IsSeq(Tail(q)) /\ Len(q) \in Nat /\ Len(q) > 0 /\ Len(Tail(q)) = Len(q) - 1
           /\ Head(q) = q[1]
           /\ \A i \in 1 .. (Len(q) - 1) : Tail(q)[i] = q[i + 1]
<1> DEFINE X == {q[i] : i \in 1 .. Len(q)}
<1>1. q \in Seq(X)
  BY DEF IsSeq
<1> HIDE DEF X
<1>2. Len(q) \in Nat /\ Len(q) > 0 /\ Tail(q) \in Seq(X) /\ Len(Tail(q)) = Len(q) - 1
  BY <1>1
<1>3. Head(q) = q[1]
  BY <1>1
<1>4. \A i \in 1 .. (Len(q) - 1) : Tail(q)[i] = q[i + 1]
  BY <1>1
<1>. QED BY <1>2, <1>3, <1>4, SeqIsSeq

\* It is handed on.
LEMMA ForwardSound ==
    ASSUME Sound, Forward
    PROVE  /\ Sound' /\ mode \in {"Up", "Replaying"} /\ inflight # <<>> /\ IsSeq(inflight)
<1>1. /\ journaled = TRUE /\ delivered' = delivered \cup {Head(inflight)}
      /\ inflight' = Tail(inflight) /\ journaled' = FALSE
      /\ UNCHANGED <<engine, pending, next, cmdlog, open, snap, accepted, damaged, mode,
                     evtlog, faults>>
  BY DEF Forward, files, history, Sound, EngineOK
<1>2. EngineOK /\ ControlOK /\ FilesOK
  BY DEF Sound
<1>3. inflight # <<>> /\ Head(inflight) \in evtlog /\ IsSeq(inflight) /\ pending = <<>>
  BY <1>1, <1>2 DEF EngineOK
<1>4. mode \in {"Up", "Replaying"}
  BY <1>2, <1>3 DEF ControlOK, Idle
<1>5. /\ IsSeq(inflight') /\ Len(inflight') = Len(inflight) - 1 /\ Len(inflight) \in Nat
      /\ \A i \in 1 .. Len(inflight') : inflight'[i] = inflight[i + 1]
  BY <1>1, <1>3, TailFacts
<1>6. \A i, j \in 1 .. Len(inflight') : inflight'[i].sym = inflight'[j].sym
  <2> SUFFICES ASSUME NEW i \in 1 .. Len(inflight'), NEW j \in 1 .. Len(inflight')
               PROVE  inflight'[i].sym = inflight'[j].sym
    OBVIOUS
  <2>1. i + 1 \in 1 .. Len(inflight) /\ j + 1 \in 1 .. Len(inflight)
    BY <1>5
  <2>2. inflight'[i] = inflight[i + 1] /\ inflight'[j] = inflight[j + 1]
    BY <1>5
  <2>. QED BY <1>2, <2>1, <2>2 DEF EngineOK
<1>7. Configured(engine)'
  BY <1>1, <1>2 DEF EngineOK, Configured
<1>8. EngineOK'
  BY <1>1, <1>2, <1>3, <1>5, <1>6, <1>7 DEF EngineOK
<1>9. ControlOK'
  BY <1>1, <1>2, <1>4 DEF ControlOK
<1>10. FailsOnlyWhenDamaged'
  BY <1>1, <1>4 DEF FailsOnlyWhenDamaged
<1>11. FilesOK'
  BY <1>1, <1>2, FilesSame
<1>. QED BY <1>3, <1>4, <1>8, <1>9, <1>10, <1>11 DEF Sound

\* A snapshot of the engine, whole or cut short, is one.
LEMMA SnapshotOK ==
    ASSUME EngineOK, HistoryOK(accepted), NEW kept \in 0 .. Len(WriteEngine(engine)), NEW torn,
           TornOf(WriteEngine(engine), kept, torn),
           snap' = Snapshot(kept, torn), accepted' = accepted
    PROVE  SnapOK'
<1>1. /\ snap'.file = TRUE /\ snap'.of = engine /\ snap'.kept = kept /\ snap'.torn = torn
      /\ snap'.taken = Len(accepted)
  BY DEF Snapshot
<1>2. Records' = WriteEngine(engine)
  BY <1>1 DEF Records
<1>3. Configured(snap.of)'
  BY <1>1 DEF EngineOK, Configured
<1>4. Len(accepted) \in Nat
  BY DEF HistoryOK, IsSeq
<1>5. GoodEngine(snap.of)'
  BY <1>1 DEF EngineOK
<1>6. snap'.kept \in 0 .. Len(Records')
  BY <1>1, <1>2
<1>7. TornOf(Records, snap.kept, snap.torn)'
  BY <1>1, <1>2
<1>8. snap'.taken \in 0 .. Len(accepted')
  BY <1>1, <1>4
<1>9. snap'.file \in BOOLEAN /\ snap'.file
  BY <1>1
<1>. QED BY <1>3, <1>5, <1>6, <1>7, <1>8, <1>9 DEF SnapOK

\* The snapshot is written.
LEMMA WriteSnapshotSound ==
    ASSUME Sound, WriteSnapshot
    PROVE  Sound'
<1> DEFINE n == Len(WriteEngine(engine))
<1>1. /\ mode = "Up" /\ Idle /\ snap' = Snapshot(n, <<>>) /\ mode' = "Saved"
      /\ UNCHANGED <<engine, pending, inflight, journaled, next, cmdlog, open, accepted, damaged,
                     evtlog, delivered, faults>>
  BY DEF WriteSnapshot, volatile, history
<1>2. EngineOK /\ ControlOK /\ FilesOK
  BY DEF Sound
<1>3. n \in Nat
  BY <1>2, WriteLays DEF EngineOK
<1>4. SnapOK'
  <2>1. TornOf(WriteEngine(engine), n, <<>>)
    BY DEF TornOf
  <2>. QED BY <1>1, <1>2, <1>3, <2>1, SnapshotOK DEF FilesOK
<1>5. EngineOK'
  BY <1>1, <1>2 DEF EngineOK, Configured
<1>6. ControlOK'
  BY <1>1, <1>2 DEF ControlOK, Idle
<1>7. FailsOnlyWhenDamaged'
  BY <1>1 DEF FailsOnlyWhenDamaged
<1>8. FilesOK'
  BY <1>1, <1>2, <1>4 DEF FilesOK
<1>. QED BY <1>5, <1>6, <1>7, <1>8 DEF Sound

\* A new journal is begun.
LEMMA BeginJournalSound ==
    ASSUME Sound, BeginJournal
    PROVE  Sound'
<1>1. /\ mode = "Saved" /\ cmdlog' = <<>> /\ mode' = "Up"
      /\ UNCHANGED <<engine, pending, inflight, journaled, next, snap, accepted, damaged,
                     evtlog, delivered, faults>>
  BY DEF BeginJournal, volatile, history
<1>2. EngineOK /\ ControlOK /\ FilesOK
  BY DEF Sound
<1>3. Len(<<>>) = 0 /\ IsSeq(<<>>)
  BY DEF IsSeq
<1>4. LogOK(<<>>, accepted)
  BY <1>3 DEF LogOK
<1>5. SnapOK'
  BY <1>1, <1>2 DEF FilesOK, SnapOK, Configured, Records
<1>6. FilesOK'
  BY <1>1, <1>2, <1>4, <1>5 DEF FilesOK
<1>7. EngineOK'
  BY <1>1, <1>2 DEF EngineOK, Configured
<1>8. ControlOK'
  <2>1. next = 1 /\ Idle
    BY <1>1, <1>2 DEF ControlOK
  <2>. QED BY <1>1, <1>2, <1>3, <2>1 DEF ControlOK, Idle
<1>9. FailsOnlyWhenDamaged'
  BY <1>1 DEF FailsOnlyWhenDamaged
<1>. QED BY <1>6, <1>7, <1>8, <1>9 DEF Sound

\* The process is gone.
LEMMA StopSound ==
    ASSUME Sound, Stop
    PROVE  /\ EngineOK' /\ FailsOnlyWhenDamaged' /\ mode' = "Down"
           /\ Len(cmdlog') \in Nat => ControlOK'
<1>1. EngineOK /\ ControlOK /\ FilesOK
  BY DEF Sound
<1>2. EngineOK'
  BY <1>1, StoppedOK DEF Stop
<1>3. ASSUME Len(cmdlog') \in Nat PROVE ControlOK'
  <2>1. Len(accepted) \in Nat
    BY <1>1 DEF FilesOK, HistoryOK, IsSeq
  <2>2. faults' \in 0 .. MaxInputs
    BY <1>1, <2>1, MaxInputsAssumption DEF Stop, Bounded, ControlOK
  <2>. QED BY <1>1, <1>3, <2>2 DEF Stop, ControlOK, Idle
<1>4. FailsOnlyWhenDamaged'
  BY DEF Stop, FailsOnlyWhenDamaged
<1>. QED BY <1>2, <1>3, <1>4 DEF Stop

\* Between two steps of the others.
LEMMA CrashSound ==
    ASSUME Sound, Crash
    PROVE  Sound' /\ mode' = "Down"
<1>1. Stop /\ UNCHANGED <<cmdlog, open, snap, accepted>>
  BY DEF Crash, files
<1>2. Len(cmdlog) \in Nat /\ FilesOK
  BY DEF Sound, FilesOK, LogOK, IsSeq
<1>3. FilesOK'
  BY <1>1, <1>2, FilesSame
<1>. QED BY <1>1, <1>2, <1>3, StopSound DEF Sound

\* While a line is written: with the newline missing the command counts.
LEMMA CrashInRecordSound ==
    ASSUME Sound, NEW e \in Entries, NEW written \in {"NoNewline", "Part"}, CrashInRecord(e, written)
    PROVE  /\ Sound' /\ mode' = "Down"
           /\ accepted' = accepted \/ Grown(accepted, accepted', e.sym, e.cmd)
<1>1. /\ Stop /\ snap' = snap /\ cmdlog' = Appended(e, written)
      /\ accepted' = IF written = "NoNewline" /\ ~open THEN Accept(e.sym, e.cmd) ELSE accepted
  BY DEF CrashInRecord
<1>2. HistoryOK(accepted) /\ StreamsOK(accepted) /\ LogOK(cmdlog, accepted) /\ SnapOK /\ FilesOK
  BY DEF Sound, FilesOK
<1>3. /\ Grown(accepted, Accept(e.sym, e.cmd), e.sym, e.cmd) /\ StreamsOK(Accept(e.sym, e.cmd))
  BY <1>2, AcceptGrows, EntryFacts
<1>4. /\ LogOK(Appended(e, written), Accept(e.sym, e.cmd))
      /\ written \in {"Part", "Nothing"} \/ open => LogOK(Appended(e, written), accepted)
      /\ Len(Appended(e, written)) \in Nat
  BY <1>2, <1>3, AppendedOK
<1>5. Sound'
  <2>1. EngineOK' /\ FailsOnlyWhenDamaged' /\ ControlOK'
    BY <1>1, <1>4, StopSound
  <2>2. CASE accepted' = Accept(e.sym, e.cmd)
    <3>1. HistoryOK(accepted')
      BY <1>3, <2>2 DEF Grown
    <3>2. SnapOK'
      BY <1>1, <1>2, <1>3, <2>2, SnapGrows
    <3>3. FilesOK'
      BY <1>1, <1>3, <1>4, <2>2, <3>1, <3>2 DEF FilesOK
    <3>. QED BY <2>1, <3>3 DEF Sound
  <2>3. CASE accepted' = accepted /\ (written = "Part" \/ open)
    <3>1. SnapOK'
      BY <1>1, <1>2, <2>3 DEF SnapOK, Configured, Records
    <3>2. LogOK(cmdlog, accepted)'
      BY <1>1, <1>4, <2>3
    <3>3. FilesOK'
      BY <1>2, <2>3, <3>1, <3>2 DEF FilesOK
    <3>. QED BY <2>1, <3>3 DEF Sound
  <2>. QED BY <1>1, <2>2, <2>3
<1>. QED BY <1>1, <1>3, <1>5, StopSound

\* While the snapshot is written.
LEMMA CrashInSnapshotSound ==
    ASSUME Sound, CrashInSnapshot
    PROVE  Sound' /\ mode' = "Down"
<1> DEFINE recs == WriteEngine(engine)
<1>1. /\ Stop /\ UNCHANGED <<cmdlog, open, accepted>>
      /\ \E kept \in 0 .. Len(recs) - 1 :
            \E torn \in {<<>>} \cup {<<r>> : r \in TornAs(recs[kept + 1])} :
               snap' = Snapshot(kept, torn)
  BY DEF CrashInSnapshot
<1>2. EngineOK /\ FilesOK /\ HistoryOK(accepted) /\ Len(cmdlog) \in Nat
  BY DEF Sound, FilesOK, LogOK, IsSeq
<1>3. Len(recs) \in Nat
  BY <1>2, WriteLays DEF EngineOK
<1>4. PICK kept \in 0 .. Len(recs) - 1 :
             \E torn \in {<<>>} \cup {<<r>> : r \in TornAs(recs[kept + 1])} :
                snap' = Snapshot(kept, torn)
  BY <1>1
<1>5. PICK torn \in {<<>>} \cup {<<r>> : r \in TornAs(recs[kept + 1])} :
             snap' = Snapshot(kept, torn)
  BY <1>4
<1>6. kept \in 0 .. Len(recs) /\ kept < Len(recs)
  BY <1>3
<1>7. SnapOK'
  <2>1. TornOf(recs, kept, torn)
    BY <1>6 DEF TornOf
  <2>. QED BY <1>1, <1>2, <1>5, <1>6, <2>1, SnapshotOK
<1>8. FilesOK'
  BY <1>1, <1>2, <1>7 DEF FilesOK
<1>. QED BY <1>1, <1>2, <1>8, StopSound DEF Sound

\* The start of recovery.
LEMMA RecoverSound ==
    ASSUME Sound, Recover
    PROVE  /\ Sound' /\ Idle
           /\ mode' = "Failed" \/ /\ mode' = "Replaying" /\ ~RestorePanics(ParseSnapshot)
                                  /\ engine' = IF snap.file THEN RestoreEngine(ParseSnapshot)
                                               ELSE NewEngine(EngineCfg)
<1> DEFINE p == ParseSnapshot
<1>1. /\ mode = "Down"
      /\ damaged' = damaged \cup {s \in Symbols : ~Recoverable(s)}
      /\ \/ /\ Panics \/ RestorePanics(p)
            /\ mode' = "Failed" /\ engine' = engine
         \/ /\ ~RestorePanics(p) /\ mode' = "Replaying"
            /\ engine' = IF snap.file THEN RestoreEngine(p) ELSE NewEngine(EngineCfg)
      /\ UNCHANGED <<pending, inflight, journaled, next, cmdlog, open, snap, accepted, evtlog,
                     delivered, faults>>
  BY DEF Recover, files
<1>2. EngineOK /\ ControlOK /\ FilesOK /\ SnapOK
  BY DEF Sound, FilesOK
<1>3. Idle /\ next = 1 /\ damaged \subseteq Symbols
  BY <1>1, <1>2 DEF ControlOK
<1>4. /\ p \in ParsedForm /\ Ordered(p)
      /\ snap.file /\ snap.kept = Len(Records) => OrdersIn(p, snap.of)
      /\ ~snap.file => Len(p.books) = 0
  BY <1>2, SnapParsed
<1> HIDE DEF p
<1>5. FilesOK'
  BY <1>1, <1>2, FilesSame
<1>6. ControlOK'
  BY <1>1, <1>2, <1>3 DEF ControlOK, Idle
<1>7. CASE mode' = "Replaying"
  <2>1. ~RestorePanics(p) /\ engine' = IF snap.file THEN RestoreEngine(p) ELSE NewEngine(EngineCfg)
    BY <1>1, <1>7
  <2>2. GoodEngine(engine') /\ Configured(engine)'
    <3>1. CASE snap.file
      <4>1. RestoredEngine(engine', p)
        BY <1>4, <2>1, <3>1, RestoreEngineFacts
      <4>2. \A s \in DOMAIN engine'.books : engine'.books[s].cfg = engine'.cfg
        BY <4>1 DEF RestoredEngine, RestoredBook
      <4>. QED BY <4>1, <4>2 DEF RestoredEngine, Configured
    <3>2. CASE ~snap.file
      <4>1. engine' = NewEngine(EngineCfg)
        BY <2>1, <3>2
      <4>. QED BY <4>1, ConfigAssumption, NewEngineGood DEF Configured
    <3>. QED BY <3>1, <3>2
  <2>3. EngineOK'
    BY <1>1, <1>2, <2>2 DEF EngineOK
  <2>4. FailsOnlyWhenDamaged'
    BY <1>7 DEF FailsOnlyWhenDamaged
  <2>. QED BY <1>3, <1>5, <1>6, <1>7, <2>1, <2>3, <2>4 DEF Sound, p
<1>8. CASE mode' = "Failed"
  <2>1. EngineOK'
    BY <1>1, <1>2, <1>8 DEF EngineOK, Configured
  <2>2. Panics \/ RestorePanics(p)
    BY <1>1, <1>8
  <2>3. snap.file
    <3> SUFFICES ASSUME ~snap.file PROVE FALSE
      BY <1>2 DEF SnapOK
    <3>1. ~Panics
      <4>1. snap.torn = <<>>
        BY <1>2 DEF SnapOK, NoSnapshot
      <4>. QED BY <4>1 DEF Panics
    <3>2. p.books \in Seq(ParsedBooks) /\ Len(p.books) = 0
      BY <1>4, ParsedFields
    <3>3. ToSet(p.books) = {}
      BY <3>2 DEF ToSet
    <3>. QED BY <2>2, <3>1, <3>3 DEF RestorePanics
  <2>4. Len(Records) \in Nat /\ snap.kept \in 0 .. Len(Records)
    BY <1>2, WriteLays DEF SnapOK, Records
  <2>5. snap.kept < Len(Records) \/ \E i \in 1 .. Len(accepted) :
            accepted[i].cmd.kind = "AddSymbol" /\ accepted[i].cmd.cfg # snap.of.cfg
    <3>1. CASE Panics
      BY <1>2, <3>1 DEF SnapOK, TornOf, Panics
    <3>2. CASE RestorePanics(p) /\ snap.kept = Len(Records)
      <4>1. GoodEngine(snap.of) /\ Configured(snap.of)
        BY <1>2 DEF SnapOK
      <4>2. PICK s \in DOMAIN snap.of.books : snap.of.books[s].cfg # snap.of.cfg
        BY <1>4, <2>3, <3>2, <4>1, PanicsOnlyFor
      <4>3. OwnConfig(accepted, snap.of.books[s].cfg)
        BY <4>1, <4>2 DEF Configured
      <4>. QED BY <4>2, <4>3 DEF OwnConfig
    <3>. QED BY <2>2, <2>4, <3>1, <3>2
  <2>6. Records' = Records
    BY <1>1 DEF Records
  <2>7. FailsOnlyWhenDamaged'
    BY <1>1, <2>3, <2>5, <2>6 DEF FailsOnlyWhenDamaged
  <2>. QED BY <1>3, <1>5, <1>6, <1>8, <2>1, <2>7 DEF Sound
<1>. QED BY <1>1, <1>7, <1>8

\* A line that parses is a command of the history.
LEMMA LineFacts ==
    ASSUME LogOK(cmdlog, accepted), HistoryOK(accepted), NEW k \in 1 .. Len(cmdlog), cmdlog[k] # <<>>
    PROVE  /\ Line(cmdlog, k).sym \in Symbols /\ Line(cmdlog, k).cmd \in Requests
           /\ Line(cmdlog, k).at \in 1 .. Len(accepted)
           /\ accepted[Line(cmdlog, k).at].sym = Line(cmdlog, k).sym
           /\ accepted[Line(cmdlog, k).at].cmd = Line(cmdlog, k).cmd
           /\ [sym |-> Line(cmdlog, k).sym, cmd |-> Line(cmdlog, k).cmd] \in Entries
           /\ cmdlog[k] \in ToSet(cmdlog)
<1> DEFINE l == Line(cmdlog, k)
           e == [sym |-> l.sym, cmd |-> l.cmd]
<1>1. e \in Entries /\ e.sym = l.sym /\ e.cmd = l.cmd
  BY DEF LogOK
<1> HIDE DEF e
<1>2. l.sym \in Symbols /\ l.cmd \in Requests
  BY <1>1, EntryFacts
<1>3. cmdlog[k] \in ToSet(cmdlog)
  BY DEF LogOK, IsSeq, ToSet
<1>. QED BY <1>1, <1>2, <1>3 DEF LogOK, e

\* A line read: a command to apply, or the end.
LEMMA ReplayLineSound ==
    ASSUME Sound, ReplayLine
    PROVE  /\ Sound'
           /\ LET line == Line(cmdlog, next)
              IN  /\ next \in 1 .. Len(cmdlog) /\ Idle
                  /\ mode' = "Failed" \/ /\ cmdlog[next] # <<>> /\ mode' = mode
                                         /\ pending' = <<Cmd(line)>> /\ Cmd(line).sym = line.sym
                                         /\ ExactCommand(line.cmd) => Cmd(line).cmd = line.cmd
<1> DEFINE line == Line(cmdlog, next)
<1>1. /\ mode = "Replaying" /\ Idle /\ next <= Len(cmdlog) /\ next' = next + 1
      /\ \/ cmdlog[next] = <<>> /\ mode' = "Failed" /\ pending' = pending
         \/ cmdlog[next] # <<>> /\ pending' = <<Cmd(line)>> /\ mode' = mode
      /\ UNCHANGED <<engine, inflight, journaled, cmdlog, open, snap, accepted, damaged, evtlog,
                     delivered, faults>>
  BY DEF ReplayLine, files, history, Line
<1>2. EngineOK /\ ControlOK /\ FilesOK /\ LogOK(cmdlog, accepted) /\ HistoryOK(accepted)
  BY DEF Sound, FilesOK
<1>3. Len(cmdlog) \in Nat /\ next \in 1 .. Len(cmdlog)
  BY <1>1, <1>2 DEF ControlOK, LogOK, IsSeq
<1>4. FilesOK'
  BY <1>1, <1>2, FilesSame
<1>5. Configured(engine)'
  BY <1>1, <1>2 DEF EngineOK, Configured
<1>6. CASE cmdlog[next] # <<>>
  <2>1. line.sym \in Symbols /\ line.cmd \in Requests
    BY <1>2, <1>3, <1>6, LineFacts
  <2> HIDE DEF line
  <2>2. Cmd(line).sym = line.sym /\ Cmd(line).cmd \in Requests
        /\ (ExactCommand(line.cmd) => Cmd(line).cmd = line.cmd)
    BY <2>1, CmdFacts
  <2>3. Cmd(line) \in [sym : Symbols, cmd : Requests]
    <3>1. Cmd(line) = [sym |-> Cmd(line).sym, cmd |-> Cmd(line).cmd]
      BY DEF Cmd
    <3>. QED BY <2>1, <2>2, <3>1
  <2>4. pending' = <<Head(pending')>> /\ Head(pending') = Cmd(line) /\ inflight = <<>> /\ mode' = mode
    BY <1>1, <1>6 DEF Idle
  <2>5. EngineOK'
    BY <1>1, <1>2, <1>5, <2>3, <2>4 DEF EngineOK
  <2>6. ControlOK'
    BY <1>1, <1>2, <1>3, <2>4 DEF ControlOK
  <2>7. FailsOnlyWhenDamaged'
    BY <1>1, <2>4 DEF FailsOnlyWhenDamaged
  <2>. QED BY <1>1, <1>3, <1>4, <1>6, <2>2, <2>5, <2>6, <2>7 DEF Sound, line
<1>7. CASE cmdlog[next] = <<>>
  <2>1. mode' = "Failed" /\ pending' = pending
    BY <1>1, <1>7
  <2>2. <<>> \in ToSet(cmdlog)
    <3>1. cmdlog[next] \in ToSet(cmdlog)
      BY <1>2, <1>3 DEF LogOK, IsSeq, ToSet
    <3>. QED BY <1>7, <3>1
  <2>3. EngineOK'
    BY <1>1, <1>2, <1>5, <2>1 DEF EngineOK
  <2>4. ControlOK'
    BY <1>1, <1>2, <1>3, <2>1, <2>2 DEF ControlOK, Idle
  <2>5. FailsOnlyWhenDamaged'
    BY <1>1, <2>2 DEF FailsOnlyWhenDamaged
  <2>. QED BY <1>1, <1>3, <1>4, <2>1, <2>3, <2>4, <2>5 DEF Sound
<1>. QED BY <1>6, <1>7

\* The journal is done.
LEMMA ResumeSound ==
    ASSUME Sound, Resume
    PROVE  Sound'
<1>1. /\ mode = "Replaying" /\ Idle /\ mode' = "Up" /\ next' = 1
      /\ UNCHANGED <<engine, pending, inflight, journaled, cmdlog, open, snap, accepted, damaged,
                     evtlog, delivered, faults>>
  BY DEF Resume, files, history
<1>2. EngineOK /\ ControlOK /\ FilesOK /\ Len(cmdlog) \in Nat
  BY DEF Sound, FilesOK, LogOK, IsSeq
<1>3. FilesOK'
  BY <1>1, <1>2, FilesSame
<1>4. EngineOK'
  BY <1>1, <1>2 DEF EngineOK, Configured
<1>5. ControlOK'
  BY <1>1, <1>2 DEF ControlOK, Idle
<1>6. FailsOnlyWhenDamaged'
  BY <1>1 DEF FailsOnlyWhenDamaged
<1>. QED BY <1>3, <1>4, <1>5, <1>6 DEF Sound

\* Lines taken out.
LEMMA RepairJournalSound ==
    ASSUME Sound, RepairJournal
    PROVE  Sound' /\ mode' = "Down"
<1>1. /\ mode = "Failed" /\ cmdlog' = Keep(cmdlog, ToSet(cmdlog) \ {<<>>}) /\ mode' = "Down"
      /\ engine' = NewEngine(EngineCfg) /\ next' = 1
      /\ UNCHANGED <<pending, inflight, journaled, snap, accepted, damaged, evtlog, delivered,
                     faults>>
  BY DEF RepairJournal, history
<1>2. EngineOK /\ ControlOK /\ FilesOK /\ Idle
  BY <1>1 DEF Sound, ControlOK
<1>3. LogOK(cmdlog', accepted)
  BY <1>1, <1>2, LogKept DEF FilesOK
<1>4. SnapOK'
  BY <1>1, <1>2 DEF FilesOK, SnapOK, Configured, Records
<1>5. FilesOK'
  BY <1>1, <1>2, <1>3, <1>4 DEF FilesOK
<1>6. pending = <<>> /\ inflight = <<>> /\ journaled = FALSE
  BY <1>2 DEF Idle, EngineOK
<1>7. EngineOK'
  BY <1>1, <1>2, <1>6, StoppedOK
<1>8. ControlOK'
  <2>1. Len(cmdlog') \in Nat
    BY <1>3 DEF LogOK, IsSeq
  <2>. QED BY <1>1, <1>2, <1>6, <2>1 DEF ControlOK, Idle
<1>9. FailsOnlyWhenDamaged'
  BY <1>1 DEF FailsOnlyWhenDamaged
<1>. QED BY <1>1, <1>5, <1>7, <1>8, <1>9 DEF Sound

\* The snapshot put away.
LEMMA DropSnapshotSound ==
    ASSUME Sound, DropSnapshot
    PROVE  Sound' /\ mode' = "Down"
<1>1. /\ mode = "Failed" /\ <<>> \notin ToSet(cmdlog) /\ snap' = NoSnapshot /\ mode' = "Down"
      /\ UNCHANGED <<engine, pending, inflight, journaled, next, cmdlog, open, accepted, damaged,
                     evtlog, delivered, faults>>
  BY DEF DropSnapshot, volatile, history
<1>2. EngineOK /\ ControlOK /\ FilesOK /\ Idle /\ next = 1
  BY <1>1 DEF Sound, ControlOK
<1>3. /\ NoSnapshot.of = NewEngine(EngineCfg) /\ NoSnapshot.kept = 0 /\ NoSnapshot.torn = <<>>
      /\ NoSnapshot.taken = 0 /\ NoSnapshot.file = FALSE
  BY DEF NoSnapshot
<1>4. GoodEngine(NewEngine(EngineCfg)) /\ DOMAIN NewEngine(EngineCfg).books = {}
  BY ConfigAssumption, NewEngineGood
<1>5. SnapOK'
  <2>1. Len(WriteEngine(NewEngine(EngineCfg))) \in Nat
    BY <1>4, WriteLays
  <2>2. Records' = WriteEngine(NewEngine(EngineCfg))
    BY <1>1, <1>3 DEF Records
  <2>3. Len(accepted) \in Nat
    BY <1>2 DEF FilesOK, HistoryOK, IsSeq
  <2>4. Configured(snap.of)'
    BY <1>1, <1>3, <1>4 DEF Configured
  <2>5. GoodEngine(snap.of)'
    BY <1>1, <1>3, <1>4
  <2>6. snap'.kept \in 0 .. Len(Records')
    BY <1>1, <1>3, <2>1, <2>2
  <2>7. snap'.taken \in 0 .. Len(accepted')
    BY <1>1, <1>3, <2>3
  <2>8. TornOf(Records, snap.kept, snap.torn)' /\ snap'.file = FALSE /\ snap' = NoSnapshot
    BY <1>1, <1>3 DEF TornOf
  <2>. QED BY <2>4, <2>5, <2>6, <2>7, <2>8 DEF SnapOK
<1>6. FilesOK'
  BY <1>1, <1>2, <1>5 DEF FilesOK
<1>7. EngineOK'
  BY <1>1, <1>2 DEF EngineOK, Configured
<1>8. ControlOK'
  BY <1>1, <1>2 DEF ControlOK, Idle
<1>9. FailsOnlyWhenDamaged'
  BY <1>1 DEF FailsOnlyWhenDamaged
<1>. QED BY <1>1, <1>6, <1>7, <1>8, <1>9 DEF Sound

-----------------------------------------------------------------------------
(* The engine has the books of one that never stopped *)

\* The history before a new command is the same.
LEMMA AtSnapshotGrown ==
    ASSUME SnapOK, NEW s0, NEW cmd, Grown(accepted, accepted', s0, cmd), snap' = snap, NEW s,
           AtSnapshot(s)
    PROVE  AtSnapshot(s)' /\ IdealIn(accepted', s, snap.taken) = IdealIn(accepted, s, snap.taken)
<1>1. snap.taken \in 0 .. Len(accepted)
  BY DEF SnapOK
<1>2. IdealIn(accepted', s, snap.taken) = IdealIn(accepted, s, snap.taken)
  BY <1>1 DEF Grown
<1>. QED BY <1>2 DEF AtSnapshot

\* A stopped engine has nothing to be compared.
LEMMA StoppedExactly ==
    ASSUME SnapOK, NEW s, Exactly(s), snap' = snap, mode' \notin {"Up", "Saved", "Replaying"},
           accepted' = accepted \/ \E s0, cmd : Grown(accepted, accepted', s0, cmd)
    PROVE  Exactly(s)'
<1>1. AtSnapshot(s)'
  BY AtSnapshotGrown DEF Exactly, AtSnapshot
<1>2. (~Running)' /\ mode' # "Replaying"
  BY DEF Running
<1>. QED BY <1>1, <1>2 DEF Exactly

\* In service the engine has come to the end of the history.
LEMMA UpToDate ==
    ASSUME HistoryOK(accepted), NEW s, Exactly(s), mode \in {"Up", "Saved"}
    PROVE  /\ engine.cfg = EngineCfg /\ Progress(s, Len(accepted)) /\ InStep(s, Len(accepted))
           /\ Len(accepted) \in Nat
           /\ pending = <<>> => BookOf(engine, s) = IdealIn(accepted, s, Len(accepted)).book
<1>1. engine.cfg = EngineCfg /\ \E r \in 0 .. Len(accepted) : Progress(s, r) /\ InStep(s, r)
  BY DEF Exactly, Running, InService
<1>2. PICK r \in 0 .. Len(accepted) : Progress(s, r) /\ InStep(s, r)
  BY <1>1
<1>3. r = Len(accepted)
  BY <1>2 DEF Progress
<1>4. Len(accepted) \in Nat
  BY DEF HistoryOK, IsSeq
<1>. QED BY <1>1, <1>2, <1>3, <1>4 DEF InStep

\* Where the history ends is a place of service.
LEMMA AtTheEnd ==
    ASSUME SnapOK', HistoryOK(accepted'), mode' \in {"Up", "Saved"}, NEW s, AtSnapshot(s)',
           engine'.cfg = EngineCfg, InStep(s, Len(accepted))'
    PROVE  Exactly(s)'
<1>1. Len(accepted') \in Nat
  <2>1. IsSeq(accepted')
    BY DEF HistoryOK
  <2>. QED BY <2>1 DEF IsSeq
<1>2. snap'.taken \in 0 .. Len(accepted')
  BY DEF SnapOK
<1>3. Progress(s, Len(accepted))'
  BY <1>1, <1>2 DEF Progress
<1>4. InService(s)'
  BY <1>1, <1>3 DEF InService
<1>. QED BY <1>4 DEF Exactly

\* AddSymbol puts the same new book in the engine and in the history.
LEMMA AddSymbolExactly ==
    ASSUME Sound, NEW x \in Symbols, NEW cfg \in Configs, AddSymbol(x, cfg), NEW s, Exactly(s)
    PROVE  Exactly(s)'
<1> DEFINE cmd == [kind |-> "AddSymbol", cfg |-> cfg]
           b == NewBook(cfg)
<1>1. /\ mode = "Up" /\ mode' = "Up" /\ pending = <<>> /\ pending' = <<>> /\ snap' = snap
      /\ engine' = WithBook(engine, x, b)
  BY DEF AddSymbol, files, Idle
<1>2. /\ Sound'
      /\ IF BookOf(engine, x) = b THEN accepted' = accepted ELSE Grown(accepted, accepted', x, cmd)
  BY AddSymbolSound
<1>3. SnapOK /\ SnapOK' /\ HistoryOK(accepted) /\ HistoryOK(accepted') /\ GoodEngine(engine)
  BY <1>2 DEF Sound, FilesOK, EngineOK
<1>4. /\ engine.cfg = EngineCfg /\ Len(accepted) \in Nat
      /\ BookOf(engine, s) = IdealIn(accepted, s, Len(accepted)).book
  BY <1>1, <1>3, UpToDate
<1>5. GoodBook(b)
  BY NewBookGood
<1> HIDE DEF b
<1>6. engine'.cfg = EngineCfg /\ BookOf(engine', x) = b
      /\ (s # x => BookOf(engine', s) = BookOf(engine, s))
  BY <1>1, <1>3, <1>4, <1>5, WithBookFacts
<1>7. AtSnapshot(s)'
  BY <1>1, <1>2, <1>3, AtSnapshotGrown DEF Exactly, AtSnapshot
<1>8. BookOf(engine', s) = IdealIn(accepted', s, Len(accepted')).book
  <2>1. CASE BookOf(engine, x) = b
    <3>1. accepted' = accepted
      BY <1>2, <2>1
    <3>. QED BY <1>4, <1>6, <2>1, <3>1
  <2>2. CASE BookOf(engine, x) # b /\ s # x
    <3>1. IdealIn(accepted', s, Len(accepted')) = IdealIn(accepted, s, Len(accepted))
      BY <1>2, <2>2 DEF Grown
    <3>. QED BY <1>4, <1>6, <2>2, <3>1
  <2>3. CASE BookOf(engine, x) # b /\ s = x
    <3>1. IdealIn(accepted', x, Len(accepted')) = Made(IdealIn(accepted, x, Len(accepted)), cmd)
      BY <1>2, <2>3 DEF Grown
    <3>2. Made(IdealIn(accepted, x, Len(accepted)), cmd).book = b
      BY DEF Made, b
    <3>. QED BY <1>6, <2>3, <3>1, <3>2
  <2>. QED BY <2>1, <2>2, <2>3
<1>9. InStep(s, Len(accepted))'
  BY <1>1, <1>8 DEF InStep
<1>. QED BY <1>1, <1>3, <1>6, <1>7, <1>9, AtTheEnd

\* A command recorded is the next place, and it is pending.
LEMMA RecordExactly ==
    ASSUME Sound, NEW e \in Entries, NEW written, Record(e, written), NEW s, Exactly(s)
    PROVE  Exactly(s)'
<1>1. /\ mode = "Up" /\ mode' = "Up" /\ pending = <<>> /\ pending' = <<e>> /\ snap' = snap
      /\ engine' = engine
  BY DEF Record, Idle
<1>2. Sound' /\ Grown(accepted, accepted', e.sym, e.cmd)
  BY RecordSound
<1>3. SnapOK /\ SnapOK' /\ HistoryOK(accepted) /\ HistoryOK(accepted')
  BY <1>2 DEF Sound, FilesOK
<1>4. /\ engine.cfg = EngineCfg /\ Len(accepted) \in Nat
      /\ BookOf(engine, s) = IdealIn(accepted, s, Len(accepted)).book
  BY <1>1, <1>3, UpToDate
<1>5. AtSnapshot(s)'
  BY <1>1, <1>2, <1>3, AtSnapshotGrown DEF Exactly
<1>6. Head(pending') = e /\ pending' # <<>>
  BY <1>1
<1>7. InStep(s, Len(accepted))'
  <2>1. CASE s = e.sym
    <3> DEFINE n == Len(accepted')
    <3>1. /\ n = Len(accepted) + 1 /\ accepted'[n].sym = e.sym /\ accepted'[n].cmd = e.cmd
      BY <1>2 DEF Grown
    <3>2. n > 0 /\ n - 1 = Len(accepted) /\ Len(accepted) \in 0 .. Len(accepted)
      BY <1>4, <3>1
    <3>3. IdealIn(accepted', s, Len(accepted)) = IdealIn(accepted, s, Len(accepted))
      BY <1>2, <3>2 DEF Grown
    <3> HIDE DEF n
    <3>4. IdealIn(accepted', s, n - 1).book = BookOf(engine', s)
      BY <1>1, <1>4, <3>2, <3>3
    <3>. QED BY <1>6, <2>1, <3>1, <3>2, <3>4 DEF InStep, n
  <2>2. CASE s # e.sym
    <3>1. IdealIn(accepted', s, Len(accepted')) = IdealIn(accepted, s, Len(accepted))
      BY <1>2, <2>2 DEF Grown
    <3>. QED BY <1>1, <1>4, <1>6, <2>2, <3>1 DEF InStep
  <2>. QED BY <2>1, <2>2
<1>. QED BY <1>1, <1>3, <1>4, <1>5, <1>7, AtTheEnd

\* A place of the history makes the one after it.
LEMMA NextPlace ==
    ASSUME HistoryOK(accepted), NEW r \in 1 .. Len(accepted)
    PROVE  LET x == IdealIn(accepted, accepted[r].sym, r - 1)
           IN  /\ IdealGood(x) /\ IdealGood(IdealIn(accepted, accepted[r].sym, r))
               /\ IdealIn(accepted, accepted[r].sym, r) = Made(x, accepted[r].cmd)
               /\ accepted[r].cmd \in Requests =>
                     /\ IdealIn(accepted, accepted[r].sym, r).book = Served(x.book, accepted[r].cmd)
                     /\ IdealIn(accepted, accepted[r].sym, r).out
                           = x.out \o AnswerOf(x.book, accepted[r].cmd).out
<1> DEFINE s == accepted[r].sym
           cmd == accepted[r].cmd
           x == IdealIn(accepted, s, r - 1)
<1>1. Len(accepted) \in Nat /\ r - 1 \in 0 .. Len(accepted) /\ r \in 0 .. Len(accepted)
  BY DEF HistoryOK, IsSeq
<1>2. IdealGood(x) /\ IdealGood(IdealIn(accepted, s, r))
  BY <1>1, IdealIsGood
<1>3. IdealIn(accepted, s, r) = accepted[r].after
  <2>1. r \in Nat /\ r \in 1 .. r /\ (r + 1) .. r = {}
    BY <1>1
  <2>. QED BY <2>1, IdealAt
<1>4. accepted[r].after = Made(x, cmd) /\ Told(cmd)
  BY DEF HistoryOK
<1>5. cmd \in Requests => /\ Made(x, cmd).book = Served(x.book, cmd)
                          /\ Made(x, cmd).out = x.out \o AnswerOf(x.book, cmd).out
  BY <1>2, <1>4, MadeGood
<1>. QED BY <1>2, <1>3, <1>4, <1>5

\* A command applied brings the book to the place of the command.
LEMMA SubmitExactly ==
    ASSUME Sound, Submit, NEW s, Exactly(s)
    PROVE  Exactly(s)'
<1> DEFINE e == Head(pending)
           b == BookOf(engine, e.sym)
<1>1. /\ pending # <<>> /\ pending' = <<>>
      /\ UNCHANGED <<next, cmdlog, snap, accepted, mode>>
  BY DEF Submit, files, history
<1>2. /\ mode \in {"Up", "Replaying"} /\ e.cmd \in Requests
      /\ engine'.cfg = engine.cfg /\ BookOf(engine', e.sym) = Served(b, e.cmd)
      /\ \A x : x # e.sym => BookOf(engine', x) = BookOf(engine, x)
  BY SubmitSound
<1>3. HistoryOK(accepted) /\ Len(accepted) \in Nat
  BY DEF Sound, FilesOK, HistoryOK, IsSeq
<1> HIDE DEF e, b
<1>4. engine.cfg = EngineCfg /\ \E r \in 0 .. Len(accepted) : Progress(s, r) /\ InStep(s, r)
  BY <1>2 DEF Exactly, Running, InService
<1>5. PICK r \in 0 .. Len(accepted) : Progress(s, r) /\ InStep(s, r)
  BY <1>4
<1>6. BookOf(engine', s) = IdealIn(accepted, s, r).book
  <2>1. CASE s = e.sym
    <3>1. /\ r > 0 /\ accepted[r].sym = s /\ accepted[r].cmd = e.cmd
          /\ b = IdealIn(accepted, s, r - 1).book
      BY <1>1, <1>5, <2>1 DEF InStep, e, b
    <3>2. r \in 1 .. Len(accepted)
      BY <1>3, <3>1
    <3>3. IdealIn(accepted, s, r).book = Served(b, e.cmd)
      BY <1>2, <1>3, <3>1, <3>2, NextPlace
    <3>. QED BY <1>2, <2>1, <3>3
  <2>2. CASE s # e.sym
    <3>1. BookOf(engine, s) = IdealIn(accepted, s, r).book
      BY <1>5, <2>2 DEF InStep, e
    <3>. QED BY <1>2, <2>2, <3>1
  <2>. QED BY <2>1, <2>2
<1>7. InStep(s, r)'
  BY <1>1, <1>6 DEF InStep
<1>8. Progress(s, r)'
  BY <1>1, <1>5 DEF Progress, LinesOf, Line
<1>9. InService(s)'
  BY <1>1, <1>2, <1>4, <1>7, <1>8 DEF InService
<1>10. AtSnapshot(s)' /\ (mode' = "Replaying" => LinesAre(s, SinceSnapshot(s))')
  BY <1>1 DEF Exactly, AtSnapshot, LinesAre, SinceSnapshot, LinesOf, Line
<1>. QED BY <1>9, <1>10 DEF Exactly

\* Events on their way change nothing of this.
LEMMA EventsExactly ==
    ASSUME UNCHANGED <<engine, pending, next, cmdlog, snap, accepted, mode>>, NEW s, Exactly(s)
    PROVE  Exactly(s)'
<1>1. AtSnapshot(s)' /\ (mode' = "Replaying" => LinesAre(s, SinceSnapshot(s))')
  BY DEF Exactly, AtSnapshot, LinesAre, SinceSnapshot, LinesOf, Line
<1>2. \A r : Progress(s, r) => Progress(s, r)'
  BY DEF Progress, LinesOf, Line
<1>3. \A r : InStep(s, r) => InStep(s, r)'
  BY DEF InStep
<1>4. InService(s) => InService(s)'
  BY <1>2, <1>3 DEF InService
<1>. QED BY <1>1, <1>4 DEF Exactly, Running

\* A snapshot of an engine that is up to date is of the end of the history.
LEMMA SnapshotExactly ==
    ASSUME Sound, mode = "Up", Idle, NEW kept, NEW torn, snap' = Snapshot(kept, torn),
           accepted' = accepted, NEW s, Exactly(s)
    PROVE  /\ AtSnapshot(s)' /\ snap'.taken = Len(accepted) /\ engine.cfg = EngineCfg
           /\ BookOf(engine, s) = IdealIn(accepted, s, Len(accepted)).book
<1>1. HistoryOK(accepted) /\ pending = <<>>
  BY DEF Sound, FilesOK, Idle
<1>2. engine.cfg = EngineCfg /\ BookOf(engine, s) = IdealIn(accepted, s, Len(accepted)).book
  BY <1>1, UpToDate
<1>3. snap'.of = engine /\ snap'.taken = Len(accepted)
  BY DEF Snapshot
<1>. QED BY <1>2, <1>3 DEF AtSnapshot

\* The snapshot is written.
LEMMA WriteSnapshotExactly ==
    ASSUME Sound, WriteSnapshot, NEW s, Exactly(s)
    PROVE  Exactly(s)'
<1>1. /\ mode = "Up" /\ Idle /\ mode' = "Saved" /\ engine' = engine /\ pending' = pending
      /\ snap' = Snapshot(Len(WriteEngine(engine)), <<>>) /\ accepted' = accepted
  BY DEF WriteSnapshot, volatile, history
<1>2. AtSnapshot(s)' /\ engine.cfg = EngineCfg
      /\ BookOf(engine, s) = IdealIn(accepted, s, Len(accepted)).book
  BY <1>1, SnapshotExactly
<1>3. SnapOK' /\ HistoryOK(accepted')
  BY WriteSnapshotSound DEF Sound, FilesOK
<1>4. InStep(s, Len(accepted))'
  BY <1>1, <1>2 DEF InStep, Idle
<1>. QED BY <1>1, <1>2, <1>3, <1>4, AtTheEnd

\* A new journal is begun.
LEMMA BeginJournalExactly ==
    ASSUME Sound, BeginJournal, NEW s, Exactly(s)
    PROVE  Exactly(s)'
<1>1. /\ mode = "Saved" /\ mode' = "Up"
      /\ UNCHANGED <<engine, pending, snap, accepted>>
  BY DEF BeginJournal, volatile, history
<1>2. SnapOK' /\ HistoryOK(accepted') /\ HistoryOK(accepted)
  BY BeginJournalSound DEF Sound, FilesOK
<1>3. engine.cfg = EngineCfg /\ InStep(s, Len(accepted))
  BY <1>1, <1>2, UpToDate
<1>4. InStep(s, Len(accepted))' /\ AtSnapshot(s)'
  BY <1>1, <1>3 DEF InStep, Exactly, AtSnapshot
<1>. QED BY <1>1, <1>2, <1>3, <1>4, AtTheEnd

\* The crashes.
LEMMA CrashesExactly ==
    ASSUME Sound, \/ Crash \/ CrashInSnapshot
                  \/ \E e \in Entries, written \in {"NoNewline", "Part"} : CrashInRecord(e, written),
           NEW s, Exactly(s)
    PROVE  Exactly(s)'
<1>1. SnapOK /\ HistoryOK(accepted)
  BY DEF Sound, FilesOK
<1>2. CASE Crash
  <2>1. mode' = "Down" /\ snap' = snap /\ accepted' = accepted
    BY <1>2 DEF Crash, Stop, files
  <2>. QED BY <1>1, <2>1, StoppedExactly
<1>3. CASE CrashInSnapshot
  <2>1. /\ mode = "Up" /\ Idle /\ mode' = "Down" /\ accepted' = accepted
        /\ \E kept, torn : snap' = Snapshot(kept, torn)
    BY <1>3 DEF CrashInSnapshot, Stop
  <2>2. PICK kept, torn : snap' = Snapshot(kept, torn)
    BY <2>1
  <2>3. AtSnapshot(s)'
    BY <2>1, <2>2, SnapshotExactly
  <2>. QED BY <2>1, <2>3 DEF Exactly, Running
<1>4. CASE \E e \in Entries, written \in {"NoNewline", "Part"} : CrashInRecord(e, written)
  <2>1. PICK e \in Entries, written \in {"NoNewline", "Part"} : CrashInRecord(e, written)
    BY <1>4
  <2>2. mode' = "Down" /\ (accepted' = accepted \/ Grown(accepted, accepted', e.sym, e.cmd))
    BY <2>1, CrashInRecordSound
  <2>3. snap' = snap
    BY <2>1 DEF CrashInRecord
  <2>. QED BY <1>1, <2>2, <2>3, StoppedExactly
<1>. QED BY <1>2, <1>3, <1>4

\* Recovery begins with the snapshot's book.
LEMMA RecoverExactly ==
    ASSUME Sound, Recover, NEW s \in Symbols, s \notin damaged', Exactly(s)
    PROVE  Exactly(s)' /\ (mode' = "Replaying" => BookOf(engine', s) = IdealIn(accepted, s, snap.taken).book)
<1> DEFINE p == ParseSnapshot
           t == snap.taken
<1>1. /\ mode = "Down" /\ damaged' = damaged \cup {x \in Symbols : ~Recoverable(x)}
      /\ UNCHANGED <<pending, next, cmdlog, snap, accepted>>
  BY DEF Recover, files
<1>2. Recoverable(s)
  BY <1>1
<1>3. /\ Idle
      /\ mode' = "Failed" \/ /\ mode' = "Replaying" /\ ~RestorePanics(p)
                             /\ engine' = IF snap.file THEN RestoreEngine(p) ELSE NewEngine(EngineCfg)
  BY RecoverSound
<1>4. SnapOK /\ HistoryOK(accepted) /\ ControlOK /\ next = 1
  BY <1>1 DEF Sound, FilesOK, ControlOK
<1>5. AtSnapshot(s) /\ AtSnapshot(s)'
  BY <1>1 DEF Exactly, AtSnapshot
<1>6. SnapshotHolds(s) /\ IdealIn(accepted, s, t).book.cfg = EngineCfg
  BY <1>2 DEF Recoverable, IdealAfter, IdealIn
<1>7. LinesAre(s, SinceSnapshot(s))
  BY <1>2 DEF Recoverable, LinesAre, SinceSnapshot, Line
<1>8. LinesAre(s, SinceSnapshot(s))'
  BY <1>1, <1>7 DEF LinesAre, SinceSnapshot, LinesOf, Line
<1>9. CASE mode' = "Failed"
  BY <1>5, <1>9 DEF Exactly, Running
<1>10. CASE mode' = "Replaying"
  <2>1. ~RestorePanics(p) /\ engine' = IF snap.file THEN RestoreEngine(p) ELSE NewEngine(EngineCfg)
    BY <1>3, <1>10
  <2>2. p \in ParsedForm /\ Ordered(p) /\ (snap.file => HoldsIn(p, snap.of, s))
    BY <1>4, <1>6, SnapParsed
  <2>3. GoodEngine(snap.of) /\ t \in 0 .. Len(accepted) /\ (~snap.file => snap = NoSnapshot)
    BY <1>4 DEF SnapOK
  <2>4. engine'.cfg = EngineCfg /\ BookOf(engine', s) = BookOf(snap.of, s)
    <3>1. CASE snap.file
      <4>1. RestoredEngine(engine', p)
        BY <2>1, <2>2, <3>1, RestoreEngineFacts
      <4>2. s \in DOMAIN snap.of.books => snap.of.books[s].cfg = snap.of.cfg
        BY <1>5, <1>6 DEF AtSnapshot, BookOf
      <4>3. BookOf(engine', s) = BookOf(snap.of, s)
        BY <2>2, <2>3, <3>1, <4>1, <4>2, RestoresBook
      <4>4. engine'.cfg = snap.of.cfg
        BY <2>2, <3>1, <4>1 DEF RestoredEngine, HoldsIn
      <4>. QED BY <1>5, <4>3, <4>4 DEF AtSnapshot
    <3>2. CASE ~snap.file
      <4>1. engine' = NewEngine(EngineCfg) /\ snap.of = NewEngine(EngineCfg)
        BY <2>1, <2>3, <3>2 DEF NoSnapshot
      <4>. QED BY <4>1, ConfigAssumption, NewEngineGood
    <3>. QED BY <3>1, <3>2
  <2>5. BookOf(engine', s) = IdealIn(accepted, s, t).book
    BY <1>5, <2>4 DEF AtSnapshot
  <2>6. InStep(s, t)'
    BY <1>1, <1>3, <2>5 DEF InStep, Idle
  <2>7. Progress(s, t)'
    <3>1. Len(accepted) \in Nat /\ t \in Nat
      BY <1>4, <2>3 DEF HistoryOK, IsSeq
    <3>2. ASSUME NEW k \in LinesOf(s, Len(cmdlog)) PROVE k >= 1 /\ Line(cmdlog, k).at > t
      <4>1. Line(cmdlog, k).at \in SinceSnapshot(s)
        BY <1>7 DEF LinesAre
      <4>2. k \in 1 .. Len(cmdlog)
        BY DEF LinesOf
      <4>. QED BY <3>1, <4>1, <4>2 DEF SinceSnapshot
    <3>3. \A k \in LinesOf(s, Len(cmdlog)) : k < 1 <=> Line(cmdlog, k).at <= t
      <4> SUFFICES ASSUME NEW k \in LinesOf(s, Len(cmdlog)) PROVE k < 1 <=> Line(cmdlog, k).at <= t
        OBVIOUS
      <4>1. k \in Int
        BY DEF LinesOf
      <4>2. Line(cmdlog, k).at \in Int
        <5>1. Line(cmdlog, k).at \in SinceSnapshot(s)
          BY <1>7 DEF LinesAre
        <5>. QED BY <3>1, <5>1 DEF SinceSnapshot
      <4>. QED BY <3>1, <3>2, <4>1, <4>2
    <3>4. next' = 1 /\ snap'.taken = t /\ cmdlog' = cmdlog /\ snap'.taken <= t
      BY <1>1, <1>4, <3>1
    <3>5. (\A k \in LinesOf(s, Len(cmdlog)) : k < next <=> Line(cmdlog, k).at <= t)'
      BY <1>1, <3>3, <3>4 DEF LinesOf, Line
    <3>. QED BY <1>10, <3>4, <3>5 DEF Progress
  <2>8. InService(s)'
    <3>1. (\E r \in 0 .. Len(accepted) : Progress(s, r) /\ InStep(s, r))'
      BY <1>1, <2>3, <2>6, <2>7
    <3>. QED BY <2>4, <3>1 DEF InService
  <2>. QED BY <1>5, <1>8, <2>5, <2>8 DEF Exactly
<1>. QED BY <1>3, <1>9, <1>10

\* Where no line of s is between two places there is no command of s between them.
LEMMA SamePlace ==
    ASSUME HistoryOK(accepted), NEW s, LinesAre(s, SinceSnapshot(s)), SnapOK,
           NEW r \in 0 .. Len(accepted), snap.taken <= r, NEW m \in r .. Len(accepted), NEW n,
           \A k \in LinesOf(s, Len(cmdlog)) : k < n <=> Line(cmdlog, k).at <= r,
           \A k \in LinesOf(s, Len(cmdlog)) : Line(cmdlog, k).at <= m => k < n
    PROVE  IdealIn(accepted, s, m) = IdealIn(accepted, s, r)
<1>1. Len(accepted) \in Nat /\ snap.taken \in 0 .. Len(accepted)
  BY DEF HistoryOK, IsSeq, SnapOK
<1>2. ASSUME NEW i \in (r + 1) .. m, accepted[i].sym = s PROVE FALSE
  <2>1. i \in SinceSnapshot(s)
    BY <1>1, <1>2 DEF SinceSnapshot
  <2>2. PICK k \in LinesOf(s, Len(cmdlog)) : Line(cmdlog, k).at = i
    BY <2>1 DEF LinesAre
  <2>3. i <= m /\ i > r
    BY <1>1
  <2>. QED BY <1>1, <2>2, <2>3
<1>3. m \in Nat /\ r \in 0 .. m
  BY <1>1
<1>. QED BY <1>2, <1>3, IdealSame

\* A line read is the next command of its symbol.
LEMMA ReplayLineExactly ==
    ASSUME Sound, ReplayLine, NEW s, Exactly(s),
           \A e \in Entries : ExactCommand(e.cmd)
    PROVE  Exactly(s)'
<1> DEFINE line == Line(cmdlog, next)
<1>1. /\ mode = "Replaying" /\ next' = next + 1
      /\ UNCHANGED <<engine, cmdlog, snap, accepted>>
  BY DEF ReplayLine, files, history
<1>2. /\ next \in 1 .. Len(cmdlog) /\ Idle
      /\ mode' = "Failed" \/ /\ cmdlog[next] # <<>> /\ mode' = mode
                             /\ pending' = <<Cmd(line)>> /\ Cmd(line).sym = line.sym
                             /\ ExactCommand(line.cmd) => Cmd(line).cmd = line.cmd
  BY ReplayLineSound
<1>3. HistoryOK(accepted) /\ LogOK(cmdlog, accepted) /\ SnapOK /\ Len(accepted) \in Nat
      /\ Len(cmdlog) \in Nat
  <2>1. HistoryOK(accepted) /\ LogOK(cmdlog, accepted) /\ SnapOK
    BY DEF Sound, FilesOK
  <2>2. IsSeq(accepted) /\ IsSeq(cmdlog)
    BY <2>1 DEF HistoryOK, LogOK
  <2>. QED BY <2>1, <2>2 DEF IsSeq
<1>4. AtSnapshot(s)'
  BY <1>1 DEF Exactly, AtSnapshot
<1>5. LinesAre(s, SinceSnapshot(s)) /\ LinesAre(s, SinceSnapshot(s))'
  BY <1>1 DEF Exactly, LinesAre, SinceSnapshot, LinesOf, Line
<1>6. CASE mode' = "Failed"
  BY <1>4, <1>6 DEF Exactly, Running
<1>7. CASE mode' = "Replaying" /\ cmdlog[next] # <<>> /\ pending' = <<Cmd(line)>>
           /\ Cmd(line).sym = line.sym /\ (ExactCommand(line.cmd) => Cmd(line).cmd = line.cmd)
  <2>1. /\ line.sym \in Symbols /\ line.cmd \in Requests /\ line.at \in 1 .. Len(accepted)
        /\ accepted[line.at].sym = line.sym /\ accepted[line.at].cmd = line.cmd
        /\ [sym |-> line.sym, cmd |-> line.cmd] \in Entries
    BY <1>2, <1>3, <1>7, LineFacts
  <2>2. Cmd(line).cmd = line.cmd
    <3> DEFINE e == [sym |-> line.sym, cmd |-> line.cmd]
    <3>1. e \in Entries /\ e.cmd = line.cmd
      BY <2>1
    <3> HIDE DEF e, line
    <3>. QED BY <1>7, <3>1
  <2>3. /\ engine.cfg = EngineCfg
        /\ \E r \in 0 .. Len(accepted) : Progress(s, r) /\ InStep(s, r)
    BY <1>1 DEF Exactly, Running, InService
  <2>4. PICK r \in 0 .. Len(accepted) : Progress(s, r) /\ InStep(s, r)
    BY <2>3
  <2>5. /\ snap.taken <= r
        /\ \A k \in LinesOf(s, Len(cmdlog)) : k < next <=> Line(cmdlog, k).at <= r
        /\ BookOf(engine, s) = IdealIn(accepted, s, r).book
    BY <1>1, <1>2, <2>4 DEF Progress, InStep, Idle
  <2>6. pending' # <<>> /\ Head(pending').sym = line.sym /\ Head(pending').cmd = line.cmd
    BY <1>7, <2>2
  <2>7. \A k \in LinesOf(s, Len(cmdlog)) :
            /\ k \in 1 .. Len(cmdlog) /\ cmdlog[k] # <<>> /\ Line(cmdlog, k).at \in Nat
            /\ Line(cmdlog, k).sym = s
            /\ k < next => Line(cmdlog, k).at < line.at
            /\ next < k => line.at < Line(cmdlog, k).at
    <3> TAKE k \in LinesOf(s, Len(cmdlog))
    <3>1. k \in 1 .. Len(cmdlog) /\ cmdlog[k] # <<>> /\ Line(cmdlog, k).sym = s
      BY DEF LinesOf, Line
    <3>2. Line(cmdlog, k).at \in Nat
      <4>1. Line(cmdlog, k).at \in 1 .. Len(accepted)
        BY <1>3, <3>1, LineFacts
      <4>. QED BY <4>1
    <3>. QED BY <1>2, <1>3, <1>7, <3>1, <3>2 DEF LogOK
  <2>8. next \in Nat /\ line.at \in Nat /\ r \in Nat /\ snap.taken \in Nat
    BY <1>2, <1>3, <2>1 DEF SnapOK
  <2>9. CASE s = line.sym
    <3>0. PICK q \in 1 .. Len(accepted) : q = line.at
      BY <2>1
    <3>1. next \in LinesOf(s, Len(cmdlog))
      BY <1>2, <1>7, <2>9 DEF LinesOf, Line
    <3>2. q > r
      BY <2>5, <2>8, <3>0, <3>1
    <3>3. IdealIn(accepted, s, q - 1) = IdealIn(accepted, s, r)
      <4>1. \A k \in LinesOf(s, Len(cmdlog)) : Line(cmdlog, k).at <= q - 1 => k < next
        <5> TAKE k \in LinesOf(s, Len(cmdlog))
        <5>1. k \in Nat /\ Line(cmdlog, k).at \in Nat /\ (next < k => q < Line(cmdlog, k).at)
              /\ (k = next => Line(cmdlog, k).at = q)
          BY <2>7, <3>0
        <5>2. q \in Nat
          OBVIOUS
        <5>. QED BY <2>8, <5>1, <5>2
      <4>2. q - 1 \in r .. Len(accepted)
        BY <1>3, <2>8, <3>2
      <4>. QED BY <1>3, <1>5, <2>5, <4>1, <4>2, SamePlace
    <3>4. InStep(s, q)'
      <4>1. q > 0 /\ accepted[q].sym = s /\ accepted[q].cmd = line.cmd
        BY <2>1, <2>8, <2>9, <3>0, <3>2
      <4>. QED BY <1>1, <2>5, <2>6, <2>9, <3>3, <4>1 DEF InStep
    <3>5. Progress(s, q)'
      <4>1. \A k \in LinesOf(s, Len(cmdlog)) : k < next + 1 <=> Line(cmdlog, k).at <= q
        <5> TAKE k \in LinesOf(s, Len(cmdlog))
        <5>1. /\ k \in Nat /\ Line(cmdlog, k).at \in Nat /\ (next < k => q < Line(cmdlog, k).at)
              /\ (k = next => Line(cmdlog, k).at = q) /\ (k < next => Line(cmdlog, k).at < q)
          BY <2>7, <3>0
        <5>2. q \in Nat
          OBVIOUS
        <5>. QED BY <2>8, <5>1, <5>2
      <4>2. (\A k \in LinesOf(s, Len(cmdlog)) : k < next <=> Line(cmdlog, k).at <= q)'
        BY <1>1, <4>1 DEF LinesOf, Line
      <4>3. snap'.taken <= q
        BY <1>1, <2>5, <2>8, <3>2
      <4>. QED BY <1>7, <4>2, <4>3 DEF Progress
    <3>6. InService(s)'
      BY <1>1, <2>3, <3>4, <3>5 DEF InService
    <3>. QED BY <1>4, <1>5, <3>6 DEF Exactly
  <2>10. CASE s # line.sym
    <3>1. \A k \in LinesOf(s, Len(cmdlog)) : k < next + 1 <=> k < next
      <4> TAKE k \in LinesOf(s, Len(cmdlog))
      <4>1. k \in Nat /\ k # next
        BY <2>7, <2>10
      <4>. QED BY <2>8, <4>1
    <3>2. \A k \in LinesOf(s, Len(cmdlog)) : k < next + 1 <=> Line(cmdlog, k).at <= r
      BY <2>5, <3>1
    <3>3. (\A k \in LinesOf(s, Len(cmdlog)) : k < next <=> Line(cmdlog, k).at <= r)'
      BY <1>1, <3>2 DEF LinesOf, Line
    <3>4. Progress(s, r)'
      BY <1>1, <1>7, <2>5, <3>3 DEF Progress
    <3>5. InStep(s, r)'
      BY <1>1, <2>5, <2>6, <2>10 DEF InStep
    <3>. QED BY <1>1, <1>4, <1>5, <2>3, <3>4, <3>5 DEF Exactly, InService
  <2>. QED BY <2>9, <2>10
<1>. QED BY <1>1, <1>2, <1>6, <1>7

\* At the end of the journal the engine has come to the end of the history.
LEMMA ResumeExactly ==
    ASSUME Sound, Resume, NEW s, Exactly(s)
    PROVE  Exactly(s)'
<1>1. /\ mode = "Replaying" /\ Idle /\ mode' = "Up" /\ next > Len(cmdlog)
      /\ UNCHANGED <<engine, pending, cmdlog, snap, accepted>>
  BY DEF Resume, files, history
<1>2. HistoryOK(accepted) /\ SnapOK /\ ControlOK /\ Len(accepted) \in Nat /\ Len(cmdlog) \in Nat
  <2>1. HistoryOK(accepted) /\ LogOK(cmdlog, accepted) /\ SnapOK /\ ControlOK
    BY DEF Sound, FilesOK
  <2>2. IsSeq(accepted) /\ IsSeq(cmdlog)
    BY <2>1 DEF HistoryOK, LogOK
  <2>3. Len(accepted) \in Nat /\ Len(cmdlog) \in Nat
    BY <2>2 DEF IsSeq
  <2>. QED BY <2>1, <2>3
<1>3. SnapOK' /\ HistoryOK(accepted')
  BY ResumeSound DEF Sound, FilesOK
<1>4. /\ engine.cfg = EngineCfg /\ LinesAre(s, SinceSnapshot(s)) /\ AtSnapshot(s)
      /\ \E r \in 0 .. Len(accepted) : Progress(s, r) /\ InStep(s, r)
  BY <1>1 DEF Exactly, Running, InService
<1>5. PICK r \in 0 .. Len(accepted) : Progress(s, r) /\ InStep(s, r)
  BY <1>4
<1>6. /\ snap.taken <= r
      /\ \A k \in LinesOf(s, Len(cmdlog)) : k < next <=> Line(cmdlog, k).at <= r
      /\ BookOf(engine, s) = IdealIn(accepted, s, r).book
  BY <1>1, <1>5 DEF Progress, InStep, Idle
<1>7. IdealIn(accepted, s, Len(accepted)) = IdealIn(accepted, s, r)
  <2>1. \A k \in LinesOf(s, Len(cmdlog)) : k < next
    <3> TAKE k \in LinesOf(s, Len(cmdlog))
    <3>1. k \in 1 .. Len(cmdlog)
      BY DEF LinesOf
    <3>2. next \in Nat
      BY <1>2 DEF ControlOK
    <3>. QED BY <1>1, <1>2, <3>1, <3>2
  <2>2. Len(accepted) \in r .. Len(accepted)
    BY <1>2
  <2>. QED BY <1>2, <1>4, <1>6, <2>1, <2>2, SamePlace
<1>8. InStep(s, Len(accepted))' /\ AtSnapshot(s)'
  BY <1>1, <1>4, <1>6, <1>7 DEF InStep, Idle, AtSnapshot
<1>. QED BY <1>1, <1>3, <1>4, <1>8, AtTheEnd

\* A repair by hand leaves an engine that is not in service.
LEMMA RepairExactly ==
    ASSUME Sound, RepairJournal \/ DropSnapshot, NEW s, Exactly(s)
    PROVE  Exactly(s)'
<1>1. CASE RepairJournal
  <2>1. mode' = "Down" /\ snap' = snap /\ accepted' = accepted
    BY <1>1 DEF RepairJournal, history
  <2>2. SnapOK
    BY DEF Sound, FilesOK
  <2>. QED BY <2>1, <2>2, StoppedExactly
<1>2. CASE DropSnapshot
  <2>1. mode' = "Down" /\ snap' = NoSnapshot /\ accepted' = accepted
    BY <1>2 DEF DropSnapshot, history
  <2>2. NoSnapshot.of = NewEngine(EngineCfg) /\ NoSnapshot.taken = 0
    BY DEF NoSnapshot
  <2>3. IdealIn(accepted, s, 0) = [book |-> NewBook(EngineCfg), out |-> <<>>]
    <3>1. 0 \in Nat /\ 1 .. 0 = {}
      OBVIOUS
    <3>. QED BY <3>1, PlaceOf
  <2>4. NewEngine(EngineCfg).cfg = EngineCfg /\ BookOf(NewEngine(EngineCfg), s) = NewBook(EngineCfg)
    BY ConfigAssumption, NewEngineGood
  <2>5. AtSnapshot(s)'
    BY <2>1, <2>2, <2>3, <2>4 DEF AtSnapshot
  <2>. QED BY <2>1, <2>5 DEF Exactly, Running
<1>. QED BY <1>1, <1>2

-----------------------------------------------------------------------------
(* The event journal is the beginning of the stream *)

\* A history that grows.
Grows == accepted' = accepted \/ \E s0, cmd : Grown(accepted, accepted', s0, cmd)

\* Its streams only grow, and what was journaled of one is still its beginning.
LEMMA StreamGrows ==
    ASSUME FilesOK, FilesOK', Grows, NEW s, ~ReplacedIn(accepted', s)
    PROVE  /\ ~ReplacedIn(accepted, s)
           /\ Before(Stream(s), Stream(s)') /\ Len(Stream(s)) \in Nat /\ Len(Stream(s)') \in Nat
           /\ \A n \in 0 .. Len(Stream(s)) :
                 n \in 0 .. Len(Stream(s)') /\ Numbered(s, Stream(s)', n) = Numbered(s, Stream(s), n)
<1> DEFINE p == Stream(s)
           q == Stream(s)'
<1>1. HistoryOK(accepted) /\ StreamsOK(accepted) /\ HistoryOK(accepted') /\ StreamsOK(accepted')
  BY DEF FilesOK
<1>2. Len(accepted) \in Nat /\ Len(accepted') \in Nat
  BY <1>1 DEF HistoryOK, IsSeq
<1>3. Len(p) \in Nat /\ Len(q) \in Nat
  <2>1. Len(accepted) \in 0 .. Len(accepted) /\ Len(accepted') \in 0 .. Len(accepted')
    BY <1>2
  <2>2. IdealGood(IdealIn(accepted, s, Len(accepted))) /\ IdealGood(IdealIn(accepted', s, Len(accepted')))
    BY <1>1, <2>1, IdealIsGood
  <2>. QED BY <2>2 DEF IdealGood, IsSeq, Stream
<1>4. ~ReplacedIn(accepted, s) /\ Before(p, q)
  <2>1. CASE accepted' = accepted
    <3>1. q = p
      BY <2>1 DEF Stream
    <3>. QED BY <1>3, <2>1, <3>1, BeforeFacts
  <2>2. CASE \E s0, cmd : Grown(accepted, accepted', s0, cmd)
    <3>1. PICK s0, cmd : Grown(accepted, accepted', s0, cmd)
      BY <2>2
    <3> DEFINE n == Len(accepted)
    <3>2. n \in 0 .. n /\ Len(accepted') = n + 1 /\ n + 1 \in 1 .. Len(accepted') /\ n \in 0 .. Len(accepted')
      BY <1>2, <3>1 DEF Grown
    <3>3. Told(cmd)
      BY <1>1, <3>1, <3>2 DEF Grown, HistoryOK
    <3>4. ~ReplacedIn(accepted, s)
      BY <1>1, <3>1, <3>3, StreamsGrow
    <3>5. IdealIn(accepted', s, n) = IdealIn(accepted, s, n)
      BY <3>1, <3>2 DEF Grown
    <3>6. Len(accepted') \in 0 .. Len(accepted')
      BY <1>2
    <3> HIDE DEF n
    <3>7. Before(IdealIn(accepted', s, n).out, IdealIn(accepted', s, Len(accepted')).out)
      BY <1>1, <3>2, <3>6, StreamBefore
    <3>. QED BY <3>4, <3>5, <3>7 DEF Stream, n
  <2>. QED BY <2>1, <2>2 DEF Grows
<1> HIDE DEF p, q
<1>5. ASSUME NEW n \in 0 .. Len(p)
      PROVE  n \in 0 .. Len(q) /\ Numbered(s, q, n) = Numbered(s, p, n)
  <2>1. n \in 0 .. Len(q) /\ \A i \in 1 .. n : q[i] = p[i]
    BY <1>3, <1>4 DEF Before
  <2>. QED BY <2>1 DEF Numbered
<1>. QED BY <1>3, <1>4, <1>5 DEF p, q

\* The same events are journaled, and the engine still follows behind them.
LEMMA StreamedOn ==
    ASSUME FilesOK, FilesOK', Grows, evtlog' = evtlog, NEW s, Streamed(s),
           \A n \in 0 .. Len(Stream(s)) : JournaledTo(s, n) /\ ~ReplacedIn(accepted', s) =>
               /\ IdealIn(accepted', s, snap'.taken).book.seq <= n
               /\ Running' => Follows(s, n)'
    PROVE  Streamed(s)'
<1> SUFFICES ASSUME ~ReplacedIn(accepted', s)
             PROVE  (\E n \in 0 .. Len(Stream(s)) : JournaledTo(s, n))'
  BY DEF Streamed
<1>1. /\ ~ReplacedIn(accepted, s)
      /\ \A n \in 0 .. Len(Stream(s)) :
            n \in 0 .. Len(Stream(s)') /\ Numbered(s, Stream(s)', n) = Numbered(s, Stream(s), n)
  BY StreamGrows
<1>2. PICK n \in 0 .. Len(Stream(s)) : JournaledTo(s, n)
  BY <1>1 DEF Streamed
<1>3. IdealIn(accepted', s, snap'.taken).book.seq <= n /\ (Running' => Follows(s, n)')
  BY <1>2
<1>4. n \in 0 .. Len(Stream(s)') /\ Numbered(s, Stream(s)', n) = Numbered(s, Stream(s), n)
  BY <1>1
<1>5. Mine(s)' = Mine(s)
  BY DEF Mine
<1>6. JournaledTo(s, n)'
  BY <1>2, <1>3, <1>4, <1>5 DEF JournaledTo
<1>. QED BY <1>4, <1>6

\* The snapshot is the same.
LEMMA SnapSame ==
    ASSUME FilesOK, Grows, snap' = snap, NEW s
    PROVE  IdealIn(accepted', s, snap'.taken) = IdealIn(accepted, s, snap.taken)
<1>1. snap.taken \in 0 .. Len(accepted)
  BY DEF FilesOK, SnapOK
<1>. QED BY <1>1 DEF Grown, Grows

\* Nothing is on its way, and the book's number has not grown.
LEMMA QuietlyStreamed ==
    ASSUME FilesOK, FilesOK', Grows, evtlog' = evtlog, NEW s, Streamed(s), snap' = snap,
           Running' => /\ Running /\ inflight = <<>> /\ inflight' = <<>>
                       /\ BookOf(engine', s).seq = BookOf(engine, s).seq \/ BookOf(engine', s).seq = 0
    PROVE  Streamed(s)'
<1>1. ASSUME NEW n \in 0 .. Len(Stream(s)), JournaledTo(s, n)
      PROVE  /\ IdealIn(accepted', s, snap'.taken).book.seq <= n
             /\ Running' => Follows(s, n)'
  <2>1. IdealIn(accepted', s, snap'.taken).book.seq <= n
    BY <1>1, SnapSame DEF JournaledTo
  <2>2. ASSUME Running' PROVE Follows(s, n)'
    <3>1. (~Flying(s)) /\ (~Flying(s))'
      BY <2>2 DEF Flying
    <3>2. BookOf(engine, s).seq <= n
      BY <1>1, <2>2, <3>1 DEF JournaledTo, Follows
    <3>3. BookOf(engine', s).seq <= n
      BY <2>2, <3>2
    <3>. QED BY <3>1, <3>3 DEF Follows
  <2>. QED BY <2>1, <2>2
<1>. QED BY <1>1, StreamedOn

\* The actions that leave the events alone.
LEMMA QuietSteps ==
    ASSUME Sound, NEW s, Streamed(s),
           \/ \E a \in Additions : AddSymbol(a.sym, a.cfg)
           \/ \E e \in Entries : \E written : Record(e, written)
           \/ BeginJournal \/ Crash
           \/ \E e \in Entries, written \in {"NoNewline", "Part"} : CrashInRecord(e, written)
           \/ ReplayLine \/ Resume \/ RepairJournal
    PROVE  Streamed(s)'
<1>1. FilesOK /\ ControlOK /\ EngineOK
  BY DEF Sound
<1>2. CASE \E a \in Additions : AddSymbol(a.sym, a.cfg)
  <2>1. PICK a \in Additions : AddSymbol(a.sym, a.cfg)
    BY <1>2
  <2>2. a.sym \in Symbols /\ a.cfg \in Configs
    BY ConfigAssumption
  <2>3. /\ mode = "Up" /\ inflight = <<>> /\ inflight' = <<>> /\ snap' = snap /\ evtlog' = evtlog
        /\ engine' = WithBook(engine, a.sym, NewBook(a.cfg))
    BY <2>1 DEF AddSymbol, files, Idle
  <2>4. FilesOK' /\ Grows
    BY <2>1, <2>2, AddSymbolSound DEF Grows, Sound
  <2>5. BookOf(engine', s).seq = BookOf(engine, s).seq \/ BookOf(engine', s).seq = 0
    <3>1. GoodBook(NewBook(a.cfg)) /\ NewBook(a.cfg).seq = 0
      BY <2>2, NewBookGood DEF NewBook
    <3>2. BookOf(engine', a.sym) = NewBook(a.cfg)
          /\ \A x : x # a.sym => BookOf(engine', x) = BookOf(engine, x)
      BY <1>1, <2>2, <2>3, <3>1, WithBookFacts DEF EngineOK
    <3>3. CASE s = a.sym
      BY <3>1, <3>2, <3>3
    <3>4. CASE s # a.sym
      BY <3>2, <3>4
    <3>. QED BY <3>3, <3>4
  <2>. QED BY <1>1, <2>3, <2>4, <2>5, QuietlyStreamed DEF Running
<1>3. CASE \E e \in Entries : \E written : Record(e, written)
  <2>1. PICK e \in Entries : \E written : Record(e, written)
    BY <1>3
  <2>2. PICK written : Record(e, written)
    BY <2>1
  <2>3. /\ mode = "Up" /\ inflight = <<>> /\ inflight' = <<>> /\ snap' = snap /\ evtlog' = evtlog
        /\ engine' = engine
    BY <2>2 DEF Record, Idle
  <2>4. FilesOK' /\ Grows
    BY <2>2, RecordSound DEF Grows, Sound
  <2>. QED BY <1>1, <2>3, <2>4, QuietlyStreamed DEF Running
<1>4. CASE BeginJournal
  <2>1. /\ mode = "Saved" /\ inflight = <<>> /\ inflight' = <<>> /\ snap' = snap /\ evtlog' = evtlog
        /\ engine' = engine /\ accepted' = accepted
    BY <1>1, <1>4 DEF BeginJournal, volatile, history, ControlOK, Idle
  <2>2. FilesOK' /\ Grows
    BY <1>4, <2>1, BeginJournalSound DEF Grows, Sound
  <2>. QED BY <1>1, <2>1, <2>2, QuietlyStreamed DEF Running
<1>5. CASE Crash
  <2>1. mode' = "Down" /\ snap' = snap /\ evtlog' = evtlog /\ accepted' = accepted
    BY <1>5 DEF Crash, Stop, files
  <2>2. FilesOK' /\ Grows
    BY <1>5, <2>1, CrashSound DEF Grows, Sound
  <2>. QED BY <1>1, <2>1, <2>2, QuietlyStreamed DEF Running
<1>6. CASE \E e \in Entries, written \in {"NoNewline", "Part"} : CrashInRecord(e, written)
  <2>1. PICK e \in Entries, written \in {"NoNewline", "Part"} : CrashInRecord(e, written)
    BY <1>6
  <2>2. mode' = "Down" /\ snap' = snap /\ evtlog' = evtlog
    BY <2>1 DEF CrashInRecord, Stop
  <2>3. FilesOK' /\ Grows
    BY <2>1, CrashInRecordSound DEF Grows, Sound
  <2>. QED BY <1>1, <2>2, <2>3, QuietlyStreamed DEF Running
<1>7. CASE ReplayLine
  <2>1. /\ mode = "Replaying" /\ inflight = <<>> /\ inflight' = <<>> /\ snap' = snap /\ evtlog' = evtlog
        /\ engine' = engine /\ accepted' = accepted
    BY <1>7 DEF ReplayLine, Idle, files, history
  <2>2. FilesOK' /\ Grows
    BY <1>7, <2>1, ReplayLineSound DEF Grows, Sound
  <2>. QED BY <1>1, <2>1, <2>2, QuietlyStreamed DEF Running
<1>8. CASE Resume
  <2>1. /\ mode = "Replaying" /\ inflight = <<>> /\ inflight' = <<>> /\ snap' = snap /\ evtlog' = evtlog
        /\ engine' = engine /\ accepted' = accepted
    BY <1>8 DEF Resume, Idle, files, history
  <2>2. FilesOK' /\ Grows
    BY <1>8, <2>1, ResumeSound DEF Grows, Sound
  <2>. QED BY <1>1, <2>1, <2>2, QuietlyStreamed DEF Running
<1>9. CASE RepairJournal
  <2>1. mode' = "Down" /\ snap' = snap /\ evtlog' = evtlog /\ accepted' = accepted
    BY <1>9 DEF RepairJournal, history
  <2>2. FilesOK' /\ Grows
    BY <1>9, <2>1, RepairJournalSound DEF Grows, Sound
  <2>. QED BY <1>1, <2>1, <2>2, QuietlyStreamed DEF Running
<1>. QED BY <1>2, <1>3, <1>4, <1>5, <1>6, <1>7, <1>8, <1>9

\* The snapshot is of an engine whose events have all been journaled, or there is none.
LEMMA SnapshotSteps ==
    ASSUME Sound, NEW s, Streamed(s), Exactly(s),
           WriteSnapshot \/ CrashInSnapshot \/ DropSnapshot
    PROVE  Streamed(s)'
<1>1. FilesOK /\ EngineOK
  BY DEF Sound
<1>2. evtlog' = evtlog /\ accepted' = accepted
  BY DEF WriteSnapshot, CrashInSnapshot, DropSnapshot, Stop, history
<1>3. FilesOK'
  BY WriteSnapshotSound, CrashInSnapshotSound, DropSnapshotSound DEF Sound
<1>4. CASE WriteSnapshot \/ CrashInSnapshot
  <2>1. /\ mode = "Up" /\ Idle
        /\ \E kept, torn : snap' = Snapshot(kept, torn)
    BY <1>4 DEF WriteSnapshot, CrashInSnapshot
  <2>2. PICK kept, torn : snap' = Snapshot(kept, torn)
    BY <2>1
  <2>3. snap'.taken = Len(accepted) /\ BookOf(engine, s) = IdealIn(accepted, s, Len(accepted)).book
    BY <1>2, <2>1, <2>2, SnapshotExactly
  <2>4. Running' => engine' = engine /\ inflight' = <<>>
    <3>1. CASE WriteSnapshot
      BY <2>1, <3>1 DEF WriteSnapshot, volatile, Idle
    <3>2. CASE CrashInSnapshot
      BY <3>2 DEF CrashInSnapshot, Stop, Running
    <3>. QED BY <1>4, <3>1, <3>2
  <2>5. ASSUME NEW n \in 0 .. Len(Stream(s)), JournaledTo(s, n)
        PROVE  /\ IdealIn(accepted', s, snap'.taken).book.seq <= n
               /\ Running' => Follows(s, n)'
    <3>1. (~Flying(s)) /\ Running
      BY <2>1 DEF Flying, Running, Idle
    <3>2. BookOf(engine, s).seq <= n
      BY <2>5, <3>1 DEF JournaledTo, Follows
    <3>3. IdealIn(accepted', s, snap'.taken).book.seq <= n
      BY <1>2, <2>3, <3>2
    <3>4. ASSUME Running' PROVE Follows(s, n)'
      <4>1. (~Flying(s))' /\ engine' = engine
        BY <2>4, <3>4 DEF Flying
      <4>. QED BY <3>2, <4>1 DEF Follows
    <3>. QED BY <3>3, <3>4
  <2>. QED BY <1>1, <1>2, <1>3, <2>5, StreamedOn DEF Grows
<1>5. CASE DropSnapshot
  <2>1. mode' = "Down" /\ snap' = NoSnapshot
    BY <1>5 DEF DropSnapshot
  <2>2. snap'.taken = 0
    BY <2>1 DEF NoSnapshot
  <2>3. IdealIn(accepted, s, 0) = [book |-> NewBook(EngineCfg), out |-> <<>>]
    <3>1. 0 \in Nat /\ 1 .. 0 = {}
      OBVIOUS
    <3>. QED BY <3>1, PlaceOf
  <2>4. IdealIn(accepted', s, snap'.taken).book.seq = 0
    BY <1>2, <2>2, <2>3 DEF NewBook
  <2>5. ~Running'
    BY <2>1 DEF Running
  <2>6. ASSUME NEW n \in 0 .. Len(Stream(s)), JournaledTo(s, n)
        PROVE  /\ IdealIn(accepted', s, snap'.taken).book.seq <= n
               /\ Running' => Follows(s, n)'
    BY <2>4, <2>5
  <2>. QED BY <1>1, <1>2, <1>3, <2>6, StreamedOn DEF Grows
<1>. QED BY <1>4, <1>5

\* An engine brought back goes on from a snapshot of which everything has been journaled.
LEMMA RecoverStreamed ==
    ASSUME Sound, Recover, NEW s \in Symbols, s \notin damaged', Exactly(s), Streamed(s)
    PROVE  Streamed(s)'
<1>1. evtlog' = evtlog /\ accepted' = accepted /\ snap' = snap /\ inflight' = inflight
  BY DEF Recover, files
<1>2. FilesOK /\ FilesOK' /\ Idle
  BY RecoverSound DEF Sound
<1>3. ASSUME NEW n \in 0 .. Len(Stream(s)), JournaledTo(s, n)
      PROVE  /\ IdealIn(accepted', s, snap'.taken).book.seq <= n
             /\ Running' => Follows(s, n)'
  <2>1. IdealIn(accepted, s, snap.taken).book.seq <= n
    BY <1>3 DEF JournaledTo
  <2>2. ASSUME Running' PROVE Follows(s, n)'
    <3>1. mode' = "Replaying"
      BY <2>2, RecoverSound DEF Running
    <3>2. BookOf(engine', s) = IdealIn(accepted, s, snap.taken).book
      BY <3>1, RecoverExactly
    <3>3. (~Flying(s))'
      BY <1>1, <1>2 DEF Flying, Idle
    <3>. QED BY <2>1, <3>2, <3>3 DEF Follows
  <2>. QED BY <1>1, <2>1, <2>2
<1>. QED BY <1>1, <1>2, <1>3, StreamedOn DEF Grows

\* The events of a command are the next ones of the stream.
LEMMA SubmitStreamed ==
    ASSUME Sound, Submit, NEW s, Exactly(s), Streamed(s)
    PROVE  Streamed(s)'
<1> DEFINE e == Head(pending)
           b == BookOf(engine, e.sym)
           out == AnswerOf(b, e.cmd).out
<1>1. /\ pending # <<>> /\ UNCHANGED <<cmdlog, snap, accepted, mode, evtlog, journaled>>
  BY DEF Submit, files, history
<1>2. /\ Sound' /\ e.cmd \in Requests /\ GoodBook(b) /\ IsSeq(out) /\ mode \in {"Up", "Replaying"}
      /\ inflight = <<>> /\ journaled = FALSE /\ BookOf(engine', e.sym) = Served(b, e.cmd)
      /\ \A x : x # e.sym => BookOf(engine', x) = BookOf(engine, x)
      /\ inflight' = [i \in 1 .. Len(out) |-> [sym |-> e.sym, seq |-> b.seq + i, ev |-> out[i]]]
  BY SubmitSound
<1>3. FilesOK /\ FilesOK' /\ HistoryOK(accepted) /\ StreamsOK(accepted) /\ Len(accepted) \in Nat
  <2>1. FilesOK /\ FilesOK'
    BY <1>2 DEF Sound
  <2>2. HistoryOK(accepted) /\ StreamsOK(accepted)
    BY <2>1 DEF FilesOK
  <2>3. IsSeq(accepted)
    BY <2>2 DEF HistoryOK
  <2>4. Len(accepted) \in Nat
    BY <2>3 DEF IsSeq
  <2>. QED BY <2>1, <2>2, <2>4
<1>4. \E r \in 0 .. Len(accepted) : Progress(s, r) /\ InStep(s, r)
  BY <1>2 DEF Exactly, Running, InService
<1>5. PICK r \in 0 .. Len(accepted) : InStep(s, r)
  BY <1>4
<1>6. Len(out) \in Nat /\ b.seq \in Nat
  <2>1. Len(out) \in Nat
    BY <1>2 DEF IsSeq
  <2>2. b.seq \in Nat
    BY <1>2 DEF GoodBook, BookForm
  <2>. QED BY <2>1, <2>2
<1> DEFINE m == Len(out)
           fly(i) == [sym |-> e.sym, seq |-> b.seq + i, ev |-> out[i]]
<1>7. /\ m \in Nat /\ DOMAIN inflight' = 1 .. m /\ Len(inflight') = m
      /\ \A i \in 1 .. m : inflight'[i] = fly(i) /\ fly(i).sym = e.sym
      /\ m = 0 => inflight' = <<>>
      /\ m > 0 => inflight' # <<>> /\ Head(inflight') = fly(1)
  <2>1. m \in Nat /\ inflight' = [i \in 1 .. m |-> fly(i)] /\ \A i \in 1 .. m : fly(i).sym = e.sym
    BY <1>2, <1>6
  <2> HIDE DEF m, fly
  <2>2. DOMAIN inflight' = 1 .. m /\ Len(inflight') = m /\ \A i \in 1 .. m : inflight'[i] = fly(i)
    BY <2>1
  <2>3. m = 0 => inflight' = <<>>
    BY <2>1
  <2>4. m > 0 => inflight' # <<>> /\ Head(inflight') = fly(1)
    BY <2>1, <2>2
  <2>. QED BY <2>1, <2>2, <2>3, <2>4
<1> HIDE DEF e, b, out, m, fly
<1>8. ASSUME NEW n \in 0 .. Len(Stream(s)), JournaledTo(s, n), ~ReplacedIn(accepted', s)
      PROVE  /\ IdealIn(accepted', s, snap'.taken).book.seq <= n
             /\ Running' => Follows(s, n)'
  <2>1. IdealIn(accepted', s, snap'.taken).book.seq <= n
    BY <1>1, <1>8 DEF JournaledTo
  <2>2. BookOf(engine, s).seq <= n
    <3>1. Running /\ ~Flying(s)
      BY <1>2 DEF Running, Flying
    <3>. QED BY <1>8, <3>1 DEF JournaledTo, Follows
  <2>3. CASE s # e.sym \/ m = 0
    <3>1. (~Flying(s))'
      BY <1>7, <2>3 DEF Flying, fly
    <3>2. BookOf(engine', s).seq = BookOf(engine, s).seq
      <4>1. CASE s # e.sym
        BY <1>2, <4>1
      <4>2. CASE s = e.sym /\ m = 0
        <5>1. Served(b, e.cmd).seq = b.seq + m
          BY <1>2, ServedGood DEF m, out
        <5>. QED BY <1>2, <1>6, <4>2, <5>1 DEF b
      <4>. QED BY <2>3, <4>1, <4>2
    <3>. QED BY <2>1, <2>2, <3>1, <3>2 DEF Follows
  <2>4. CASE s = e.sym /\ m > 0
    <3> DEFINE x == IdealIn(accepted, s, r - 1)
               y == IdealIn(accepted, s, r)
    <3>1. /\ r > 0 /\ accepted[r].sym = s /\ accepted[r].cmd = e.cmd
          /\ b = x.book
      BY <1>1, <1>5, <2>4 DEF InStep, e, b
    <3>2. r \in 1 .. Len(accepted)
      BY <1>3, <3>1
    <3>3. /\ IdealGood(x) /\ IdealGood(y) /\ y.book = Served(b, e.cmd) /\ y.out = x.out \o out
      BY <1>2, <1>3, <3>1, <3>2, NextPlace DEF out
    <3>4. Before(y.out, Stream(s))
      <4>1. Len(accepted) \in 0 .. Len(accepted) /\ r \in 0 .. Len(accepted)
        BY <1>3
      <4>. QED BY <1>1, <1>3, <1>8, <4>1, StreamBefore DEF Stream
    <3> HIDE DEF x, y
    <3>5. /\ b.seq = Len(x.out) /\ y.book.seq = Len(y.out) /\ Len(y.out) = b.seq + m
          /\ \A i \in 1 .. m : y.out[b.seq + i] = out[i]
      <4>1. IsSeq(x.out) /\ IsSeq(out) /\ b.seq = Len(x.out) /\ y.book.seq = Len(y.out)
        BY <1>2, <3>1, <3>3 DEF IdealGood
      <4>2. Len(x.out \o out) = Len(x.out) + Len(out)
            /\ \A i \in 1 .. Len(out) : (x.out \o out)[Len(x.out) + i] = out[i]
        BY <4>1, ConcatIsSeq
      <4>. QED BY <3>3, <4>1, <4>2 DEF m
    <3>6. Stream(s)' = Stream(s) /\ Len(Stream(s)) \in Nat
      <4>1. Stream(s)' = Stream(s)
        BY <1>1 DEF Stream
      <4>2. Len(accepted) \in 0 .. Len(accepted)
        BY <1>3
      <4>3. IdealGood(IdealIn(accepted, s, Len(accepted)))
        BY <1>3, <4>2, IdealIsGood
      <4>. QED BY <4>1, <4>3 DEF IdealGood, IsSeq, Stream
    <3>7. b.seq + m <= Len(Stream(s)) /\ \A i \in 1 .. m : Stream(s)[b.seq + i] = out[i]
      <4>1. Len(y.out) <= Len(Stream(s)) /\ \A i \in 1 .. Len(y.out) : y.out[i] = Stream(s)[i]
        BY <3>4 DEF Before
      <4>2. \A i \in 1 .. m : b.seq + i \in 1 .. Len(y.out)
        BY <1>6, <1>7, <3>5
      <4>. QED BY <3>5, <4>1, <4>2
    <3>8. BookOf(engine', s) = y.book /\ b = BookOf(engine, s)
      BY <1>2, <2>4, <3>3 DEF b
    <3>9. (Flying(s))'
      BY <1>7, <2>4 DEF Flying, fly
    <3>10. BookOf(engine', s).seq = b.seq + m /\ Len(inflight') = m
      BY <1>7, <3>5, <3>8
    <3>11. /\ BookOf(engine', s).seq - Len(inflight') = b.seq
           /\ b.seq <= n
      BY <1>6, <1>7, <2>2, <3>8, <3>10
    <3>12. \A i \in 1 .. Len(inflight') :
              inflight'[i] = [sym |-> s, seq |-> b.seq + i, ev |-> Stream(s)'[b.seq + i]]
      BY <1>7, <2>4, <3>6, <3>7, <3>10 DEF fly
    <3>13. journaled' = FALSE
      BY <1>1, <1>2
    <3>14. BookOf(engine', s).seq <= Len(Stream(s)') /\ b.seq >= 0
      BY <1>6, <3>6, <3>7, <3>10
    <3>15. b.seq + (IF journaled' THEN 1 ELSE 0) <= n
      BY <1>6, <3>11, <3>13
    <3>16. Follows(s, n)'
      BY <3>9, <3>11, <3>12, <3>14, <3>15 DEF Follows
    <3>. QED BY <2>1, <3>16
  <2>. QED BY <1>7, <2>3, <2>4
<1>. QED BY <1>1, <1>3, <1>8, StreamedOn DEF Grows

\* The number of a book.
LEMMA BookSeq ==
    ASSUME EngineOK, NEW s
    PROVE  BookOf(engine, s).seq \in Nat
BY BookOfGood DEF EngineOK, GoodBook, BookForm

\* The first event on its way is journaled, perhaps once more.
LEMMA JournalEventStreamed ==
    ASSUME Sound, JournalEvent, NEW s, Streamed(s)
    PROVE  Streamed(s)'
<1>1. /\ inflight # <<>> /\ ~journaled /\ evtlog' = evtlog \cup {Head(inflight)} /\ journaled' = TRUE
      /\ UNCHANGED <<engine, inflight, cmdlog, snap, accepted, mode>>
  BY DEF JournalEvent, files, history
<1>2. /\ FilesOK /\ EngineOK /\ mode \in {"Up", "Replaying"} /\ IsSeq(inflight)
      /\ Len(inflight) \in Nat /\ Len(inflight) > 0
  BY JournalEventSound DEF Sound
<1> SUFFICES ASSUME ~ReplacedIn(accepted', s)
             PROVE  (\E n \in 0 .. Len(Stream(s)) : JournaledTo(s, n))'
  BY DEF Streamed
<1>3. PICK n \in 0 .. Len(Stream(s)) : JournaledTo(s, n)
  BY <1>1 DEF Streamed
<1>4. Stream(s)' = Stream(s) /\ BookOf(engine', s) = BookOf(engine, s)
      /\ Flying(s)' = Flying(s) /\ IdealIn(accepted', s, snap'.taken) = IdealIn(accepted, s, snap.taken)
  BY <1>1 DEF Stream, Flying
<1>5. /\ Mine(s) = Numbered(s, Stream(s), n) /\ Follows(s, n)
      /\ IdealIn(accepted, s, snap.taken).book.seq <= n
  BY <1>2, <1>3 DEF JournaledTo, Running
<1>6. Len(Stream(s)) \in Nat
  <2>1. HistoryOK(accepted)
    BY <1>2 DEF FilesOK
  <2>2. Len(accepted) \in 0 .. Len(accepted)
    BY <2>1 DEF HistoryOK, IsSeq
  <2>3. IdealGood(IdealIn(accepted, s, Len(accepted)))
    BY <2>1, <2>2, IdealIsGood
  <2>. QED BY <2>3 DEF IdealGood, IsSeq, Stream
<1>7. CASE ~Flying(s)
  <2>1. Mine(s)' = Mine(s)
    BY <1>1, <1>7 DEF Mine, Flying
  <2>2. Follows(s, n)'
    BY <1>4, <1>5, <1>7 DEF Follows
  <2>3. JournaledTo(s, n)'
    BY <1>4, <1>5, <2>1, <2>2 DEF JournaledTo
  <2>. QED BY <1>4, <2>3
<1>8. CASE Flying(s)
  <2> DEFINE first == BookOf(engine, s).seq - Len(inflight)
             o == Stream(s)
             k == first + 1
             h == [sym |-> s, seq |-> k, ev |-> o[k]]
  <2>1. /\ first >= 0 /\ BookOf(engine, s).seq <= Len(o) /\ first <= n
        /\ \A i \in 1 .. Len(inflight) : inflight[i] = [sym |-> s, seq |-> first + i, ev |-> o[first + i]]
    <3>1. /\ first >= 0 /\ BookOf(engine, s).seq <= Len(o)
          /\ first + (IF journaled THEN 1 ELSE 0) <= n
          /\ \A i \in 1 .. Len(inflight) : inflight[i] = [sym |-> s, seq |-> first + i, ev |-> o[first + i]]
      BY <1>5, <1>8 DEF Follows
    <3>2. BookOf(engine, s).seq \in Nat
      BY <1>2, BookSeq
    <3>. QED BY <1>1, <1>2, <3>1, <3>2
  <2>2. BookOf(engine, s).seq \in Nat
    BY <1>2, BookSeq
  <2>3. first \in Nat /\ k \in Nat /\ k >= 1 /\ k <= Len(o) /\ first + Len(inflight) = BookOf(engine, s).seq
    BY <1>2, <1>6, <2>1, <2>2
  <2>4. Head(inflight) = h
    <3>1. Head(inflight) = inflight[1] /\ 1 \in 1 .. Len(inflight)
      BY <1>1, <1>2, TailFacts
    <3>. QED BY <2>1, <3>1
  <2>5. Mine(s)' = Mine(s) \cup {h}
    <3>1. h.sym = s
      OBVIOUS
    <3> HIDE DEF h
    <3>. QED BY <1>1, <2>4, <3>1 DEF Mine
  <2>6. \A x : n <= x => IdealIn(accepted', s, snap'.taken).book.seq <= x \/ x \notin Nat
    <3>1. IdealIn(accepted, s, snap.taken).book.seq \in Nat
      <4>1. HistoryOK(accepted) /\ snap.taken \in 0 .. Len(accepted)
        BY <1>2 DEF FilesOK, SnapOK
      <4>2. IdealGood(IdealIn(accepted, s, snap.taken))
        BY <4>1, IdealIsGood
      <4>. QED BY <4>2 DEF IdealGood, GoodBook, BookForm
    <3>. QED BY <1>4, <1>5, <1>6, <3>1
  <2>7. ASSUME NEW x \in 0 .. Len(o), first + 1 <= x PROVE Follows(s, x)'
    <3>1. Flying(s)'
      BY <1>4, <1>8
    <3>2. BookOf(engine', s).seq - Len(inflight') = first
      BY <1>1, <1>4
    <3>3. first + (IF journaled' THEN 1 ELSE 0) <= x
      BY <1>1, <2>7
    <3> HIDE DEF first
    <3>4. \A i \in 1 .. Len(inflight') :
             inflight'[i] = [sym |-> s, seq |-> first + i, ev |-> Stream(s)'[first + i]]
      BY <1>1, <1>4, <2>1
    <3>5. first >= 0 /\ BookOf(engine', s).seq <= Len(Stream(s)')
      BY <1>4, <2>1
    <3>. QED BY <3>1, <3>2, <3>3, <3>4, <3>5 DEF Follows
  <2>8. CASE k <= n
    <3>1. h \in Numbered(s, o, n)
      <4>1. k \in 1 .. n
        BY <1>6, <2>3, <2>8
      <4> HIDE DEF k
      <4>. QED BY <4>1 DEF Numbered
    <3>2. Mine(s)' = Numbered(s, o, n)
      BY <1>5, <2>5, <3>1
    <3>3. Follows(s, n)' /\ n \in 0 .. Len(o)
      BY <2>7, <2>8
    <3>4. IdealIn(accepted', s, snap'.taken).book.seq <= n
      BY <1>4, <1>5
    <3> HIDE DEF h, k, first
    <3>5. JournaledTo(s, n)'
      BY <1>4, <3>2, <3>3, <3>4 DEF JournaledTo
    <3>. QED BY <1>4, <3>5
  <2>9. CASE ~(k <= n)
    <3>1. k = n + 1 /\ k \in 0 .. Len(o) /\ n \in Nat
      BY <1>6, <2>1, <2>3, <2>9
    <3>2. Numbered(s, o, k) = Numbered(s, o, n) \cup {h}
      <4> DEFINE g(i) == [sym |-> s, seq |-> i, ev |-> o[i]]
      <4>1. Numbered(s, o, k) = {g(i) : i \in 1 .. k} /\ Numbered(s, o, n) = {g(i) : i \in 1 .. n} /\ h = g(k)
        BY DEF Numbered
      <4>2. 1 .. k = (1 .. n) \cup {k}
        BY <3>1
      <4> HIDE DEF g, h, k
      <4>. QED BY <4>1, <4>2
    <3>3. Mine(s)' = Numbered(s, o, k)
      BY <1>5, <2>5, <3>2
    <3>4. IdealIn(accepted', s, snap'.taken).book.seq <= k
      <4>1. n <= k /\ k \in Nat
        BY <3>1
      <4> HIDE DEF k
      <4>. QED BY <2>6, <4>1
    <3>5. PICK j \in 0 .. Len(o) : j = k
      BY <3>1
    <3>6. Follows(s, j)'
      <4>1. first + 1 <= j
        BY <2>3, <3>5
      <4>. QED BY <2>7, <4>1
    <3> HIDE DEF h, k, first
    <3>7. Mine(s)' = Numbered(s, o, j) /\ IdealIn(accepted', s, snap'.taken).book.seq <= j
      BY <3>3, <3>4, <3>5
    <3>8. JournaledTo(s, j)'
      BY <1>4, <3>6, <3>7 DEF JournaledTo
    <3>. QED BY <1>4, <3>8
  <2>. QED BY <2>8, <2>9
<1>. QED BY <1>7, <1>8

\* The first event on its way has been journaled and goes on to the sink.
LEMMA ForwardStreamed ==
    ASSUME Sound, Forward, NEW s, Streamed(s)
    PROVE  Streamed(s)'
<1>1. /\ journaled /\ inflight' = Tail(inflight) /\ journaled' = FALSE
      /\ UNCHANGED <<engine, snap, accepted, mode, evtlog>>
  BY DEF Forward, files, history
<1>2. /\ FilesOK /\ EngineOK /\ FilesOK' /\ mode \in {"Up", "Replaying"} /\ inflight # <<>>
      /\ IsSeq(inflight)
  BY ForwardSound DEF Sound
<1>3. /\ IsSeq(inflight') /\ Len(inflight) \in Nat /\ Len(inflight) > 0
      /\ Len(inflight') = Len(inflight) - 1
      /\ Head(inflight) = inflight[1]
      /\ \A i \in 1 .. (Len(inflight) - 1) : inflight'[i] = inflight[i + 1]
  BY <1>1, <1>2, TailFacts
<1>4. Stream(s)' = Stream(s) /\ BookOf(engine', s) = BookOf(engine, s)
      /\ IdealIn(accepted', s, snap'.taken) = IdealIn(accepted, s, snap.taken)
  BY <1>1 DEF Stream
<1>5. inflight' # <<>> => Head(inflight').sym = Head(inflight).sym /\ Len(inflight') > 0
  <2> SUFFICES ASSUME inflight' # <<>>
               PROVE  Head(inflight').sym = Head(inflight).sym /\ Len(inflight') > 0
    OBVIOUS
  <2>1. Head(inflight') = inflight'[1] /\ Len(inflight') > 0
    BY <1>3, TailFacts
  <2>2. 1 \in 1 .. (Len(inflight) - 1) /\ 1 \in 1 .. Len(inflight) /\ 2 \in 1 .. Len(inflight)
    BY <1>3, <2>1
  <2>3. inflight'[1] = inflight[2]
    BY <1>3, <2>2
  <2>4. inflight[2].sym = inflight[1].sym
    BY <1>2, <2>2 DEF EngineOK
  <2>. QED BY <1>3, <2>1, <2>3, <2>4
<1>6. inflight' = <<>> => Len(inflight') = 0
  OBVIOUS
<1>7. ASSUME NEW n \in 0 .. Len(Stream(s)), JournaledTo(s, n)
      PROVE  /\ IdealIn(accepted', s, snap'.taken).book.seq <= n
             /\ Running' => Follows(s, n)'
  <2>1. IdealIn(accepted', s, snap'.taken).book.seq <= n /\ Follows(s, n)
    BY <1>2, <1>4, <1>7 DEF JournaledTo, Running
  <2> DEFINE q == BookOf(engine, s).seq
             first == q - Len(inflight)
             o == Stream(s)
  <2>2. q \in Nat
    BY <1>2, BookSeq
  <2>3. CASE ~Flying(s)
    <3>1. (~Flying(s))'
      BY <1>2, <1>5, <2>3 DEF Flying
    <3>. QED BY <1>4, <2>1, <2>3, <3>1 DEF Follows
  <2>4. CASE Flying(s)
    <3>1. /\ first >= 0 /\ q <= Len(o) /\ first + (IF journaled THEN 1 ELSE 0) <= n
          /\ \A i \in 1 .. Len(inflight) : inflight[i] = [sym |-> s, seq |-> first + i, ev |-> o[first + i]]
      BY <2>1, <2>4 DEF Follows
    <3>2. first \in Nat /\ first + 1 <= n
      BY <1>1, <1>3, <2>2, <3>1
    <3>3. CASE inflight' = <<>>
      <4>1. (~Flying(s))'
        BY <3>3 DEF Flying
      <4>2. q <= n
        <5>1. Len(inflight) = 1
          BY <1>3, <1>6, <3>3
        <5>2. first + 1 = q
          BY <2>2, <5>1
        <5>. QED BY <3>2, <5>2
      <4>. QED BY <1>4, <2>1, <4>1, <4>2 DEF Follows
    <3>4. CASE inflight' # <<>>
      <4>1. Flying(s)'
        BY <1>5, <2>4, <3>4 DEF Flying
      <4>2. BookOf(engine', s).seq - Len(inflight') = first + 1
        BY <1>3, <1>4, <2>2
      <4>3. first + 1 >= 0 /\ BookOf(engine', s).seq <= Len(Stream(s)')
        BY <1>4, <3>1, <3>2
      <4>4. first + 1 + (IF journaled' THEN 1 ELSE 0) <= n
        BY <1>1, <3>2
      <4>5. \A i \in 1 .. Len(inflight') :
               inflight'[i] = [sym |-> s, seq |-> first + 1 + i, ev |-> Stream(s)'[first + 1 + i]]
        <5> TAKE i \in 1 .. Len(inflight')
        <5>1. i \in 1 .. (Len(inflight) - 1) /\ i + 1 \in 1 .. Len(inflight)
          BY <1>3
        <5>2. inflight'[i] = inflight[i + 1]
          BY <1>3, <5>1
        <5>3. inflight[i + 1] = [sym |-> s, seq |-> first + (i + 1), ev |-> o[first + (i + 1)]]
          BY <3>1, <5>1
        <5>4. i \in Nat
          BY <1>3
        <5> HIDE DEF first, o
        <5>5. first + (i + 1) = first + 1 + i
          BY <3>2, <5>4
        <5>. QED BY <1>4, <5>2, <5>3, <5>5 DEF o
      <4> HIDE DEF first
      <4>6. Follows(s, n)'
        BY <4>1, <4>2, <4>3, <4>4, <4>5 DEF Follows
      <4>. QED BY <2>1, <4>6
    <3>. QED BY <3>3, <3>4
  <2>. QED BY <2>3, <2>4
<1>. QED BY <1>1, <1>2, <1>7, StreamedOn DEF Grows

-----------------------------------------------------------------------------
(* Every step *)

\* What the library leaves to its caller: no number of a command is beyond Exact, on
\* either side of 0.
EntriesExact == \A e \in Entries : ExactCommand(e.cmd)

\* The engine, its files and its history at the start.
LEMMA InitSound ==
    ASSUME Init
    PROVE  Sound
<1>1. /\ engine = NewEngine(EngineCfg) /\ pending = <<>> /\ inflight = <<>> /\ journaled = FALSE
      /\ mode = "Up" /\ next = 1 /\ cmdlog = <<>> /\ snap = NoSnapshot /\ evtlog = {}
      /\ delivered = {} /\ accepted = <<>> /\ damaged = {} /\ faults = 0
  BY DEF Init
<1>2. /\ NoSnapshot.of = NewEngine(EngineCfg) /\ NoSnapshot.kept = 0 /\ NoSnapshot.torn = <<>>
      /\ NoSnapshot.taken = 0 /\ NoSnapshot.file = FALSE
  BY DEF NoSnapshot
<1>3. GoodEngine(NewEngine(EngineCfg)) /\ DOMAIN NewEngine(EngineCfg).books = {}
  BY ConfigAssumption, NewEngineGood
<1>4. IsSeq(<<>>) /\ Len(<<>>) = 0 /\ \A k \in 1 .. Len(<<>>) : FALSE
  BY DEF IsSeq
<1>5. EngineOK
  <2>1. Configured(engine) /\ \A i, j \in 1 .. Len(inflight) : inflight[i].sym = inflight[j].sym
    BY <1>1, <1>3, <1>4 DEF Configured
  <2>. QED BY <1>1, <1>3, <1>4, <2>1 DEF EngineOK
<1>6. ControlOK
  BY <1>1, <1>4, MaxInputsAssumption DEF ControlOK
<1>7. SnapOK
  <2>1. Len(Records) \in Nat
    BY <1>1, <1>2, <1>3, WriteLays DEF Records
  <2>2. Configured(snap.of)
    BY <1>1, <1>2, <1>3 DEF Configured
  <2>3. snap.kept \in 0 .. Len(Records) /\ snap.taken \in 0 .. Len(accepted)
    BY <1>1, <1>2, <1>4, <2>1
  <2>4. TornOf(Records, snap.kept, snap.torn)
    BY <1>1, <1>2 DEF TornOf
  <2>. QED BY <1>1, <1>2, <1>3, <2>2, <2>3, <2>4 DEF SnapOK
<1>8. HistoryOK(accepted) /\ StreamsOK(accepted) /\ LogOK(cmdlog, accepted)
  BY <1>1, <1>4 DEF HistoryOK, StreamsOK, LogOK
<1>9. FailsOnlyWhenDamaged
  BY <1>1 DEF FailsOnlyWhenDamaged
<1>. QED BY <1>5, <1>6, <1>7, <1>8, <1>9 DEF Sound, FilesOK

\* A step that changes nothing.
LEMMA StutterSound ==
    ASSUME Sound, UNCHANGED vars
    PROVE  Sound'
<1>1. UNCHANGED <<engine, pending, inflight, journaled, next, cmdlog, open, snap, accepted, damaged,
                  mode, evtlog, delivered, faults>>
  BY DEF vars, volatile, files, history
<1>2. EngineOK /\ ControlOK /\ FilesOK /\ FailsOnlyWhenDamaged
  BY DEF Sound
<1>3. FilesOK'
  BY <1>1, <1>2, FilesSame
<1>4. EngineOK'
  BY <1>1, <1>2 DEF EngineOK, Configured
<1>5. ControlOK'
  BY <1>1, <1>2 DEF ControlOK, Idle
<1>6. FailsOnlyWhenDamaged'
  BY <1>1, <1>2 DEF FailsOnlyWhenDamaged, Records
<1>. QED BY <1>3, <1>4, <1>5, <1>6 DEF Sound

\* Whatever happens to the process and its files.
LEMMA SoundStep ==
    ASSUME Sound, [Next]_vars
    PROVE  Sound'
<1>1. CASE \E a \in Additions : AddSymbol(a.sym, a.cfg)
  <2>1. PICK a \in Additions : AddSymbol(a.sym, a.cfg)
    BY <1>1
  <2>2. a.sym \in Symbols /\ a.cfg \in Configs
    BY ConfigAssumption
  <2>. QED BY <2>1, <2>2, AddSymbolSound
<1>2. CASE \E e \in Entries, written \in {"All", "NoNewline", "Part", "Nothing"} : Record(e, written)
  BY <1>2, RecordSound
<1>3. CASE Submit \/ JournalEvent \/ Forward
  BY <1>3, SubmitSound, JournalEventSound, ForwardSound
<1>4. CASE WriteSnapshot \/ BeginJournal
  BY <1>4, WriteSnapshotSound, BeginJournalSound
<1>5. CASE Crash \/ CrashInSnapshot
  BY <1>5, CrashSound, CrashInSnapshotSound
<1>6. CASE \E e \in Entries, written \in {"NoNewline", "Part"} : CrashInRecord(e, written)
  BY <1>6, CrashInRecordSound
<1>7. CASE Recover \/ ReplayLine \/ Resume
  BY <1>7, RecoverSound, ReplayLineSound, ResumeSound
<1>8. CASE RepairJournal \/ DropSnapshot
  BY <1>8, RepairJournalSound, DropSnapshotSound
<1>9. CASE UNCHANGED vars
  BY <1>9, StutterSound
<1>. QED BY <1>1, <1>2, <1>3, <1>4, <1>5, <1>6, <1>7, <1>8, <1>9 DEF Next

\* At the start nothing has been accepted and no event has left.
LEMMA InitExactly ==
    ASSUME Init, NEW s
    PROVE  Exactly(s) /\ Streamed(s)
<1>1. /\ engine = NewEngine(EngineCfg) /\ pending = <<>> /\ inflight = <<>>
      /\ mode = "Up" /\ snap = NoSnapshot /\ evtlog = {} /\ accepted = <<>>
  BY DEF Init
<1>2. NoSnapshot.of = NewEngine(EngineCfg) /\ NoSnapshot.taken = 0
  BY DEF NoSnapshot
<1>3. NewEngine(EngineCfg).cfg = EngineCfg /\ BookOf(NewEngine(EngineCfg), s) = NewBook(EngineCfg)
  BY ConfigAssumption, NewEngineGood
<1>4. IdealIn(<<>>, s, 0) = [book |-> NewBook(EngineCfg), out |-> <<>>] /\ Len(<<>>) = 0
  <2>1. Places(<<>>, s, 0) = {}
    BY DEF Places
  <2>. QED BY <2>1 DEF IdealIn, Places
<1>5. AtSnapshot(s)
  BY <1>1, <1>2, <1>3, <1>4 DEF AtSnapshot
<1>6. InService(s)
  <2>1. Progress(s, 0) /\ InStep(s, 0)
    BY <1>1, <1>2, <1>3, <1>4 DEF Progress, InStep
  <2>. QED BY <1>1, <1>3, <1>4, <2>1 DEF InService
<1>7. Exactly(s)
  BY <1>1, <1>5, <1>6 DEF Exactly
<1>8. NewBook(EngineCfg).seq = 0
  BY DEF NewBook
<1>9. Stream(s) = <<>>
  BY <1>1, <1>4 DEF Stream
<1>10. JournaledTo(s, 0)
  <2>1. Mine(s) = {} /\ Numbered(s, Stream(s), 0) = {}
    BY <1>1 DEF Mine, Numbered
  <2>2. Follows(s, 0)
    BY <1>1, <1>3, <1>8 DEF Follows, Flying
  <2>3. IdealIn(accepted, s, snap.taken).book.seq <= 0
    BY <1>1, <1>2, <1>4, <1>8
  <2>. QED BY <2>1, <2>2, <2>3 DEF JournaledTo
<1>11. 0 \in 0 .. Len(Stream(s))
  BY <1>9, <1>4
<1>. QED BY <1>7, <1>10, <1>11 DEF Streamed

\* One symbol that has lost nothing.
LEMMA ExactStep ==
    ASSUME Sound, EntriesExact, NEW s \in Symbols, s \notin damaged', Exactly(s), Streamed(s),
           [Next]_vars
    PROVE  Exactly(s)' /\ Streamed(s)'
<1>0. FilesOK /\ ControlOK /\ EngineOK
  BY DEF Sound
<1>1. CASE \E a \in Additions : AddSymbol(a.sym, a.cfg)
  <2>1. PICK a \in Additions : AddSymbol(a.sym, a.cfg)
    BY <1>1
  <2>2. a.sym \in Symbols /\ a.cfg \in Configs
    BY ConfigAssumption
  <2>3. Exactly(s)'
    BY <2>1, <2>2, AddSymbolExactly
  <2>. QED BY <1>1, <2>3, QuietSteps
<1>2. CASE \E e \in Entries, written \in {"All", "NoNewline", "Part", "Nothing"} : Record(e, written)
  <2>1. PICK e \in Entries, written \in {"All", "NoNewline", "Part", "Nothing"} : Record(e, written)
    BY <1>2
  <2>2. Exactly(s)'
    BY <2>1, RecordExactly
  <2>3. Streamed(s)'
    BY <2>1, QuietSteps
  <2>. QED BY <2>2, <2>3
<1>3. CASE Submit
  BY <1>3, SubmitExactly, SubmitStreamed
<1>4. CASE JournalEvent
  <2>1. UNCHANGED <<engine, pending, next, cmdlog, snap, accepted, mode>>
    BY <1>4 DEF JournalEvent, files, history
  <2>. QED BY <1>4, <2>1, EventsExactly, JournalEventStreamed
<1>5. CASE Forward
  <2>1. UNCHANGED <<engine, pending, next, cmdlog, snap, accepted, mode>>
    BY <1>5 DEF Forward, files, history
  <2>. QED BY <1>5, <2>1, EventsExactly, ForwardStreamed
<1>6. CASE WriteSnapshot
  BY <1>6, WriteSnapshotExactly, SnapshotSteps
<1>7. CASE BeginJournal
  BY <1>7, BeginJournalExactly, QuietSteps
<1>8. CASE Crash
  BY <1>8, CrashesExactly, QuietSteps
<1>9. CASE \E e \in Entries, written \in {"NoNewline", "Part"} : CrashInRecord(e, written)
  BY <1>9, CrashesExactly, QuietSteps
<1>10. CASE CrashInSnapshot
  BY <1>10, CrashesExactly, SnapshotSteps
<1>11. CASE Recover
  BY <1>11, RecoverExactly, RecoverStreamed
<1>12. CASE ReplayLine
  BY <1>12, ReplayLineExactly, QuietSteps DEF EntriesExact
<1>13. CASE Resume
  BY <1>13, ResumeExactly, QuietSteps
<1>14. CASE RepairJournal
  BY <1>14, RepairExactly, QuietSteps
<1>15. CASE DropSnapshot
  BY <1>15, RepairExactly, SnapshotSteps
<1>16. CASE UNCHANGED vars
  <2>1. UNCHANGED <<engine, pending, inflight, journaled, next, cmdlog, snap, accepted, mode, evtlog>>
    BY <1>16 DEF vars, volatile, files, history
  <2>2. Exactly(s)'
    BY <2>1, EventsExactly
  <2>3. Streamed(s)'
    BY <2>1 DEF Streamed, JournaledTo, Follows, Flying, Mine, Stream, Running
  <2>. QED BY <2>2, <2>3
<1>. QED BY <1>1, <1>2, <1>3, <1>4, <1>5, <1>6, <1>7, <1>8, <1>9, <1>10, <1>11, <1>12, <1>13,
            <1>14, <1>15, <1>16 DEF Next

\* Only a recovery finds damage.
LEMMA DamageStays ==
    ASSUME [Next]_vars
    PROVE  damaged \subseteq damaged'
BY DEF Next, vars, volatile, files, history, AddSymbol, Record, Submit, JournalEvent, Forward,
       WriteSnapshot, BeginJournal, Crash, CrashInRecord, CrashInSnapshot, Stop, Recover, ReplayLine,
       Resume, RepairJournal, DropSnapshot

-----------------------------------------------------------------------------
(* The theorems *)

\* What the engine, the files and the history are like after any crashes, failed writes,
\* cut files and recoveries: the state Recover and the replay loop of matcherrecover find.
THEOREM Soundness == Spec => []Sound
<1>1. Init => Sound
  BY InitSound
<1>2. Sound /\ [Next]_vars => Sound'
  BY SoundStep
<1>. QED BY <1>1, <1>2, PTL DEF Spec

\* The property TypeOK of Engine, Journals and Snapshot: no book, restored or not, holds
\* more than its max_orders, and the journal is never read past its end.
THEOREM TypeCorrect == Spec => []TypeOK
<1>1. Sound => TypeOK
  <2> SUFFICES ASSUME Sound PROVE TypeOK
    OBVIOUS
  <2>1. EngineOK /\ ControlOK /\ SnapOK
    BY DEF Sound, FilesOK
  <2>2. GoodEngine(engine)
    BY <2>1 DEF EngineOK
  <2>3. DOMAIN engine.books \subseteq Nameable
    BY <2>2, EngineFields
  <2>4. ASSUME NEW s \in DOMAIN engine.books
        PROVE  /\ engine.books[s].seq \in Nat
               /\ Len(All(engine.books[s].book)) <= engine.books[s].cfg.max
    BY <2>2, ListingOf DEF Size, OrdersOf
  <2>5. Len(pending) <= 1 /\ (pending # <<>> => inflight = <<>>)
    <3>1. CASE pending = <<>>
      BY <3>1
    <3>2. CASE pending # <<>>
      <4>1. PICK h : pending = <<h>>
        BY <2>1, <3>2 DEF EngineOK
      <4>2. Len(<<h>>) <= 1
        OBVIOUS
      <4>. QED BY <2>1, <3>2, <4>1, <4>2 DEF EngineOK
    <3>. QED BY <3>1, <3>2
  <2>6. journaled => inflight # <<>>
    BY <2>1 DEF EngineOK
  <2>7. snap.kept \in 0 .. Len(Records) /\ snap.taken \in 0 .. Len(accepted)
    BY <2>1 DEF SnapOK
  <2>. QED BY <2>1, <2>3, <2>4, <2>5, <2>6, <2>7 DEF TypeOK, ControlOK
<1>. QED BY <1>1, Soundness, PTL

\* The property FailsOnlyWhenDamaged of matcherrecover: what the library wrote itself it can
\* read again, and Restore puts no order off a ladder, unless a book was given a
\* configuration that the snapshot does not hold.
THEOREM FailsOnly == Spec => []FailsOnlyWhenDamaged
<1>1. Sound => FailsOnlyWhenDamaged
  BY DEF Sound
<1>. QED BY <1>1, Soundness, PTL

\* If every number of a command, on either side of 0, passes through a float64 unchanged,
\* then for every symbol that has lost nothing the engine, the snapshot and the two journals
\* are, at every moment, at a place of its history.  A symbol has lost its past not only
\* when its own lines or records are gone: a record of another book that is cut in its
\* symbol may be read as an empty book of this one (ReadAsBookOf).
THEOREM Exactness == ASSUME EntriesExact PROVE Spec => []IInv
<1>1. Init => IInv
  BY InitSound, InitExactly DEF IInv
<1>2. IInv /\ [Next]_vars => IInv'
  <2> SUFFICES ASSUME IInv, [Next]_vars PROVE IInv'
    OBVIOUS
  <2>1. Sound'
    BY SoundStep DEF IInv
  <2>2. ASSUME NEW s \in Symbols \ damaged' PROVE Exactly(s)' /\ Streamed(s)'
    <3>1. s \in Symbols /\ s \notin damaged' /\ s \in Symbols \ damaged
      BY <2>2, DamageStays
    <3>2. Sound /\ Exactly(s) /\ Streamed(s)
      BY <3>1 DEF IInv
    <3>. QED BY <3>1, <3>2, ExactStep
  <2>. QED BY <2>1, <2>2 DEF IInv
<1>. QED BY <1>1, <1>2, PTL DEF Spec

\* The property RecoversExactly of Recover, Restore and the replay loop: an engine in
\* service has the book of one that never stopped, for every symbol whose lines and records
\* were all read and whose book was not replaced by a cut record of another.
THEOREM RecoversBooks == ASSUME EntriesExact PROVE Spec => []RecoversExactly
<1>1. IInv => RecoversExactly
  <2> SUFFICES ASSUME IInv, mode = "Up", pending = <<>>, NEW s \in Symbols \ damaged
               PROVE  BookOf(engine, s) = Ideal(s).book
    BY DEF RecoversExactly
  <2>1. HistoryOK(accepted) /\ Exactly(s)
    BY DEF IInv, Sound, FilesOK
  <2>2. BookOf(engine, s) = IdealIn(accepted, s, Len(accepted)).book
    BY <2>1, UpToDate
  <2>. QED BY <2>2 DEF Ideal, IdealAfter, IdealIn
<1>. QED BY <1>1, Exactness, PTL

\* The first n events are n.
LEMMA NumberedSize ==
    ASSUME NEW s, NEW out, NEW n \in Nat
    PROVE  Cardinality(Numbered(s, out, n)) = n
<1> DEFINE N == Numbered(s, out, n)
           ev(i) == [sym |-> s, seq |-> i, ev |-> out[i]]
           f == [i \in 1 .. n |-> ev(i)]
<1>1. N = {ev(i) : i \in 1 .. n}
  BY DEF Numbered
<1>2. \A i, j \in 1 .. n : ev(i) = ev(j) => i = j
  OBVIOUS
<1> HIDE DEF ev, N
<1>3. f \in Bijection(1 .. n, N)
  <2>1. f \in [1 .. n -> N] /\ \A i \in 1 .. n : f[i] = ev(i)
    BY <1>1
  <2>2. \A i, j \in 1 .. n : f[i] = f[j] => i = j
    BY <1>2, <2>1
  <2>3. \A e \in N : \E i \in 1 .. n : f[i] = e
    BY <1>1, <2>1
  <2>. QED BY <2>1, <2>2, <2>3 DEF Bijection, Injection, Surjection, IsInjective
<1>4. ExistsBijection(1 .. n, N)
  BY <1>3 DEF ExistsBijection
<1>5. IsFiniteSet(1 .. n) /\ Cardinality(1 .. n) = n
  BY FS_Interval
<1>. QED BY <1>4, <1>5, FS_Bijection DEF N

\* The property PublishedIsStream of EvtJournal and the replay loop: the event journal of
\* such a symbol is the beginning of the stream of an engine that never stopped, whatever
\* a replay has written a second time, and the inner sink has had nothing else.  A book
\* that a cut record replaced would start its numbers again: its symbol is not such a one.
THEOREM PublishesStream == ASSUME EntriesExact PROVE Spec => []PublishedIsStream
<1>1. IInv => PublishedIsStream
  <2> SUFFICES ASSUME IInv PROVE PublishedIsStream
    OBVIOUS
  <2>1. delivered \subseteq evtlog /\ HistoryOK(accepted)
    BY DEF IInv, Sound, EngineOK, FilesOK
  <2>2. ASSUME NEW s \in Symbols \ damaged, ~Replaced(s)
        PROVE  LET mine == {e \in evtlog : e.sym = s}
                   stream == Ideal(s).out
               IN  /\ Cardinality(mine) <= Len(stream)
                   /\ mine = {[sym |-> s, seq |-> i, ev |-> stream[i]] : i \in 1 .. Cardinality(mine)}
    <3>1. Streamed(s) /\ ~ReplacedIn(accepted, s)
      <4>1. Streamed(s)
        BY DEF IInv
      <4>2. ~ReplacedIn(accepted, s)
        BY <2>2 DEF Replaced, ReplacedIn
      <4>. QED BY <4>1, <4>2
    <3>2. PICK n \in 0 .. Len(Stream(s)) : JournaledTo(s, n)
      BY <3>1 DEF Streamed
    <3>3. Ideal(s).out = Stream(s)
      BY DEF Ideal, IdealAfter, IdealIn, Stream
    <3>4. Len(Stream(s)) \in Nat
      <4>1. Len(accepted) \in Nat
        BY <2>1 DEF HistoryOK, IsSeq
      <4>2. IsSeq(Stream(s))
        BY <2>1, <4>1, IdealIsGood DEF IdealGood, Stream
      <4>. QED BY <4>2 DEF IsSeq
    <3>5. Mine(s) = Numbered(s, Stream(s), n) /\ n \in Nat /\ n <= Len(Stream(s))
      BY <3>2, <3>4 DEF JournaledTo
    <3>6. Cardinality(Mine(s)) = n
      BY <3>5, NumberedSize
    <3>7. Mine(s) = {[sym |-> s, seq |-> i, ev |-> Stream(s)[i]] : i \in 1 .. n}
      BY <3>5 DEF Numbered
    <3>. QED BY <3>3, <3>5, <3>6, <3>7 DEF Mine
  <2>. QED BY <2>1, <2>2 DEF PublishedIsStream
<1>. QED BY <1>1, Exactness, PTL

=============================================================================
