------------------------------ MODULE MCHistory ------------------------------
(***************************************************************************)
(* What the program says about the past.  Three questions are about one    *)
(* ledger and its value history, each with the writes that matter to it:   *)
(* "history", the rows across days; "tasks", two backfills at once in the  *)
(* web process; "statements", every write of the ledger, and statements in *)
(* any order.  The fourth, "simulation", is a backtest over pinned market  *)
(* data, and the last two are the snapshot months it is fed from:          *)
(* "adoption", one child at a time over deployments, data versions and     *)
(* month ends; "orphans", two children of one claim.  None reads or writes *)
(* anything of another: a behaviour moves one side and leaves the others   *)
(* at their start.                                                         *)
(***************************************************************************)
EXTENDS SnapshotHistory, BacktestEngine, SnapshotMonths

CONSTANTS k1, k2

VARIABLE part

books == <<ledger, history, engine, vault, part>>

\* What an exchange says of a security on a day.
Says(open, up, down, dividend, num, den) ==
    [trades |-> TRUE, open |-> open, up |-> up, down |-> down,
     dividend |-> dividend, num |-> num, den |-> den]
Plain(open) == Says(open, 1, 1, 0, 1, 1)
Foreign(open) == Says(open, 1, 1, 0, 2, 3)
Shut(num, den) == [Says(0, 1, 1, 0, num, den) EXCEPT !.trades = FALSE]

\* A dividend on the second day and a split on the third, or a halt; a
\* foreign exchange that is shut on the third day and joins shares on the
\* fourth, or loses its rate; a share so cheap that it is split into three.
US == <<Plain(3), Says(3, 1, 1, 1, 1, 1), Says(2, 2, 1, 0, 1, 1), Plain(1)>>
Halted == [US EXCEPT ![2].open = 0]
UK == <<Foreign(3), Foreign(4), Shut(2, 3), Says(4, 1, 2, 1, 2, 3)>>
Unrated == [UK EXCEPT ![4].num = 0]
Cheap == <<Plain(1), Shut(1, 1), Plain(1), Says(1, 3, 1, 0, 1, 1)>>

MCEvidence == {<<a, b, c>> : a \in {US, Halted}, b \in {UK, Unrated}, c \in {Cheap, UK}}

\* The second data version is the first one captured again, the third that of
\* other code; the last two are of a smaller roster, under two revisions of
\* the ticker aliases.
Three == [id \in {1, 2, 3} |-> "x"]
OneMember == [id \in {2} |-> "x"]
Version(n, policy, alias, roster) ==
    [captured |-> n, policy |-> policy, alias |-> alias, roster |-> roster]
Initial == Version(1, "p1", 1, Three)
Lone == Version(4, "p1", 1, OneMember)
MCProfiles ==
    {Initial, Version(2, "p1", 1, Three), Version(3, "p2", 1, Three),
     Lone, Version(5, "p1", 2, OneMember)}

\* Only of the member between the first and the last do the provider and the
\* detectors of the two versions have more to say than one thing.
MCAnswers == [id \in {1, 2, 3} |-> IF id = 2 THEN {1, 2} ELSE {1}]
MCDetect ==
    [policy \in {"p1", "p2"} |->
       [id \in {1, 2, 3} |->
          [days \in {1, 2} |-> IF id = 2 THEN <<policy, days>> ELSE <<"always", id>>]]]
MCExcluded == <<"too short", 0>>

\* What the first version's own child leaves behind for the first month.
OwnRevision(id) == Revision(Initial, id, 2, 1)
OwnMonth ==
    Month(Initial, 1, "reconstructed",
          [id \in {1, 2, 3} |-> [revision |-> OwnRevision(id), result |-> MCDetect["p1"][id][1]]], {})

\* A broker that states its balance: one buy, then a sale of the later file's
\* own.  Another that states none: its second file repeats the first.
First == [key |-> 1, row |-> 1, side |-> "BUY", shares |-> 2, day |-> 1]
Second == [key |-> 2, row |-> 0, side |-> "SELL", shares |-> 1, day |-> 2]
Third == [key |-> 3, row |-> 1, side |-> "BUY", shares |-> 1, day |-> 1]
Fourth == [key |-> 4, row |-> 0, side |-> "SELL", shares |-> 1, day |-> 2]

File(name, balance, asof, of) == [name |-> name, balance |-> balance, asof |-> asof, rows |-> of]
MCStatements ==
    {File("older", "stated", 1, {First}), File("newer", "stated", 2, {First, Second}),
     File("undated", "stated", 0, {}), File("blank", "unstated", 0, {First}),
     File("deltas", "deltas", 0, {Third}), File("more", "deltas", 0, {Third, Fourth})}

\* A ledger that already holds one buy.
OneBuy ==
    /\ trades = {Trade(1, "BUY", 2, 1, "manual")} /\ lastId = 1 /\ revision = 1
    /\ cash = Opening /\ receipts = <<>> /\ rows = <<>>
    /\ loop = Free /\ pending = Nothing /\ today = 1

BooksInit ==
    /\ marker = NoWindow /\ progress = "none" /\ failures = 0
    /\ run = [b \in Backfillers |-> Rest]
    /\ part \in {"history", "tasks", "statements", "simulation", "adoption", "orphans"}
    /\ IF part = "statements" THEN LedgerInit ELSE OneBuy
    /\ EngineInit /\ (part # "simulation" => market = <<US, UK, Cheap>>)
    /\ IF part = "adoption"
       THEN months = <<OwnMonth>> /\ evidence = [id \in 1 .. 3 |-> OwnRevision(id)]
       ELSE months = <<>> /\ evidence = <<>>
    /\ activations = <<IF part = "orphans" THEN Lone ELSE Initial>>
    /\ runtime = Active.policy /\ clock = 2
    /\ claim = Nobody /\ child = [c \in Children |-> Unborn]

FewWrites(days) ==
    \/ \E day \in days : RecordTrade("SELL", 1, day)
    \/ RecordTrade("BUY", 1, 2)
    \/ \E t \in trades : DeleteTrade(t)
    \/ DeletePosition(1, 1)
    \/ InsertCorrection
    \/ /\ Len(rows) < 2
       /\ \E file \in Statements : file.name = "newer" /\ ImportStatement(file, "zero")

\* Every write of the ledger, then any files, with deletions between them.
Imports ==
    \/ receipts = <<>> /\ lastId < 2 /\ WriteTrades
    \/ \E t \in trades : DeleteTrade(t)
    \/ receipts # <<>> /\ (DeletePosition(1, 1) \/ InsertCorrection)
    \/ \E file \in Statements : ImportStatement(file, "zero")

HistoryPart(backfillers, days, last) ==
    \/ today < LastDay /\ FewWrites(days) /\ UNCHANGED history
    \/ rows = <<>> /\ UpdatePortfolioSnapshot(today, "none") /\ UNCHANGED history
    \/ /\ today = LastDay /\ Len(rows) = 1 /\ rows[1].day = today - 1
       /\ rows[1].kind = "backfilled"
       /\ UpdatePortfolioSnapshot(today - 1, "real") /\ UNCHANGED history
    \/ \E b \in backfillers : Backfill(b)
    \/ WebRestart \/ (today < last /\ Tomorrow)
    \/ \E i \in DOMAIN rows : RepairRow(i)

Adoption ==
    \/ \E p \in Profiles, update \in BOOLEAN : Boot(k1, p, update)
    \/ NextMonth(k1) \/ FindRequest(k1) \/ Fetch(k1) \/ Resolve(k1) \/ Commit(k1)
    \/ child[k1].stage = "commit" /\ Leave(k1)
    \/ \E answered \in [DOMAIN Active.roster -> Rows] : PromoteRun(1, answered)
    \/ \E p \in Profiles : p.roster = Three /\ Activate(p)
    \/ \E policy \in Policies : Deploy(policy)
    \/ MonthEnds

Orphans ==
    \/ \E c \in Children :
         \/ \E p \in Profiles : Boot(c, p, c = k1)
         \/ NextMonth(c) \/ FindRequest(c) \/ Fetch(c) \/ Resolve(c) \/ Commit(c)
         \/ claim # c /\ Leave(c)
    \/ Interrupt
    \/ \E answered \in [DOMAIN Active.roster -> Rows] : PromoteRun(1, answered)
    \/ \E p \in Profiles : p.roster = OneMember /\ Activate(p)

OneTask == {CHOOSE b \in Tasks : TRUE}

BooksNext ==
    /\ UNCHANGED part
    /\ \/ /\ part = "history"
          /\ HistoryPart(OneTask \cup {Nightly}, {1, 2}, LastDay) \/ FailRun(Nightly)
          /\ UNCHANGED <<engine, vault>>
       \/ /\ part = "tasks"
          /\ HistoryPart(Tasks, {1}, LastDay - 1) \/ Evict \/ \E b \in Tasks : FailRun(b)
          /\ UNCHANGED <<engine, vault>>
       \/ part = "statements" /\ Imports /\ UNCHANGED <<history, engine, vault>>
       \/ part = "simulation" /\ EngineNext /\ UNCHANGED <<ledger, history, vault>>
       \/ part = "adoption" /\ Adoption /\ UNCHANGED <<ledger, history, engine>>
       \/ part = "orphans" /\ Orphans /\ UNCHANGED <<ledger, history, engine>>

BooksSpec ==
    /\ BooksInit /\ [][BooksNext]_books
    /\ WF_books(/\ part = "history"
                /\ Tomorrow \/ (InsertCorrection /\ UNCHANGED history)
                /\ UNCHANGED <<engine, vault, part>>)
    /\ WF_books(part = "history" /\ Backfill(Nightly) /\ UNCHANGED <<engine, vault, part>>)
=============================================================================
