------------------------ MODULE StrategyAdvice_proofs ------------------------
(***************************************************************************)
(* What strategies are shown of the market and what a recommendation makes  *)
(* of it, for any securities, bars, sessions, scans, settings and published *)
(* artifacts.                                                               *)
(***************************************************************************)
EXTENDS StrategyAdvice, WellFoundedInduction, SequenceTheorems, TLAPS

\* A row of a history; prices are whole numbers.
MarketRow == [session : Nat, high : Nat, low : Nat, close : Nat, volume : Nat, split : Nat \ {0}]

History == Seq(MarketRow)

\* A set of naturals that is not empty has a least member.
LEMMA Least ==
    ASSUME NEW N, N \subseteq Nat, N # {}
    PROVE  \E n \in N : \A m \in N : n <= m
<1>1. PICK n \in N : \A m \in N : ~ (<<m, n>> \in OpToRel(<, Nat))
  BY WFMin, NatLessThanWellFounded
<1>2. ASSUME NEW m \in N, m < n PROVE FALSE
  <2>1. <<m, n>> \in Nat \X Nat /\ <<m, n>>[1] < <<m, n>>[2]
    BY <1>2
  <2> QED
    BY <1>1, <2>1 DEF OpToRel
<1>3. \A m \in N : m \in Nat /\ n \in Nat /\ ~(m < n)
  BY <1>2
<1> QED
  BY <1>3

-----------------------------------------------------------------------------
(* Windows at the end of a sequence do not see its first member.            *)

LEMMA LongIsNotEmpty ==
    ASSUME NEW q, Len(q) \in Nat, Len(q) >= 1
    PROVE  q # <<>>
<1>1. Len(<<>>) = 0
  OBVIOUS
<1>2. Len(q) # Len(<<>>)
  BY <1>1
<1> QED
  BY <1>2, Zenon

LEMMA InitialPart ==
    ASSUME NEW S, NEW q \in Seq(S), NEW n \in 0..Len(q)
    PROVE  /\ SubSeq(q, 1, n) \in Seq(S) /\ Len(SubSeq(q, 1, n)) = n
           /\ \A i \in 1..n : SubSeq(q, 1, n)[i] = q[i]
<1> DEFINE part == SubSeq(q, 1, n)
<1>1. Len(q) \in Nat /\ n \in Nat /\ n \in Int /\ 1 \in Int /\ \A i \in 1..n : i \in 1..Len(q)
  BY LenProperties
<1>2. \A i \in 1..n : q[i] \in S
  BY <1>1, ElementOfSeq
<1>3. /\ part \in Seq(S) /\ Len(part) = IF 1 <= n THEN n - 1 + 1 ELSE 0
      /\ \A i \in 1..n - 1 + 1 : part[i] = q[1 + i - 1]
  BY <1>1, <1>2, SubSeqProperties
<1> HIDE DEF part
<1>4. Len(part) = n
  BY <1>1, <1>3
<1>5. ASSUME NEW i \in 1..n PROVE part[i] = q[i]
  <2>1. i \in 1..n - 1 + 1 /\ 1 + i - 1 = i
    BY <1>1
  <2> QED
    BY <1>3, <2>1
<1> QED
  BY <1>3, <1>4, <1>5 DEF part

LEMMA FinalOfTail ==
    ASSUME NEW S, NEW q \in Seq(S), q # <<>>, NEW n \in Nat, n <= Len(Tail(q))
    PROVE  Final(Tail(q), n) = Final(q, n)
<1> DEFINE t == Tail(q)
<1>1. /\ t \in Seq(S) /\ Len(q) \in Nat /\ Len(t) = Len(q) - 1
      /\ \A i \in 1..Len(t) : t[i] = q[i + 1]
      /\ \A i \in 1..Len(q) : q[i] \in S
      /\ \A i \in 1..Len(t) : t[i] \in S
  BY HeadTailProperties, LenProperties, ElementOfSeq
<1> HIDE DEF t
<1>2. /\ SubSeq(t, Len(t) - n + 1, Len(t)) \in Seq(S)
      /\ Len(SubSeq(t, Len(t) - n + 1, Len(t))) = n
      /\ \A i \in 1..n : SubSeq(t, Len(t) - n + 1, Len(t))[i] = t[(Len(t) - n + 1) + i - 1]
  BY <1>1, SubSeqProperties DEF t
<1>3. /\ SubSeq(q, Len(q) - n + 1, Len(q)) \in Seq(S)
      /\ Len(SubSeq(q, Len(q) - n + 1, Len(q))) = n
      /\ \A i \in 1..n : SubSeq(q, Len(q) - n + 1, Len(q))[i] = q[(Len(q) - n + 1) + i - 1]
  BY <1>1, SubSeqProperties DEF t
<1>4. ASSUME NEW i \in 1..n PROVE t[(Len(t) - n + 1) + i - 1] = q[(Len(q) - n + 1) + i - 1]
  <2>1. /\ (Len(t) - n + 1) + i - 1 \in 1..Len(t)
        /\ ((Len(t) - n + 1) + i - 1) + 1 = (Len(q) - n + 1) + i - 1
    BY <1>1 DEF t
  <2>2. t[(Len(t) - n + 1) + i - 1] = q[((Len(t) - n + 1) + i - 1) + 1]
    BY <1>1, <2>1, Zenon
  <2> QED
    BY <2>1, <2>2, Zenon
<1> QED
  BY <1>2, <1>3, <1>4, SeqEqual DEF Final, t

LEMMA PrecedingOfTail ==
    ASSUME NEW S, NEW q \in Seq(S), q # <<>>, NEW n \in Nat, n + 1 <= Len(Tail(q))
    PROVE  Preceding(Tail(q), n) = Preceding(q, n)
<1> DEFINE t == Tail(q)
<1>1. /\ t \in Seq(S) /\ Len(q) \in Nat /\ Len(t) = Len(q) - 1
      /\ \A i \in 1..Len(t) : t[i] = q[i + 1]
      /\ \A i \in 1..Len(q) : q[i] \in S
      /\ \A i \in 1..Len(t) : t[i] \in S
  BY HeadTailProperties, LenProperties, ElementOfSeq
<1>2. n + 1 <= Len(t)
  OBVIOUS
<1> HIDE DEF t
<1>3. /\ SubSeq(t, Len(t) - n, Len(t) - 1) \in Seq(S)
      /\ Len(SubSeq(t, Len(t) - n, Len(t) - 1)) = n
      /\ \A i \in 1..n : SubSeq(t, Len(t) - n, Len(t) - 1)[i] = t[(Len(t) - n) + i - 1]
  <2>1. /\ Len(t) - n \in Int /\ Len(t) - 1 \in Int /\ Len(t) - n <= Len(t)
        /\ (Len(t) - 1) - (Len(t) - n) + 1 = n
        /\ (IF Len(t) - n <= Len(t) - 1 THEN (Len(t) - 1) - (Len(t) - n) + 1 ELSE 0) = n
        /\ \A i \in Len(t) - n..Len(t) - 1 : i \in 1..Len(t)
    BY <1>1, <1>2
  <2>2. \A i \in Len(t) - n..Len(t) - 1 : t[i] \in S
    BY <1>1, <2>1, Zenon
  <2> QED
    BY <2>1, <2>2, SubSeqProperties
<1>4. /\ SubSeq(q, Len(q) - n, Len(q) - 1) \in Seq(S)
      /\ Len(SubSeq(q, Len(q) - n, Len(q) - 1)) = n
      /\ \A i \in 1..n : SubSeq(q, Len(q) - n, Len(q) - 1)[i] = q[(Len(q) - n) + i - 1]
  <2>1. /\ Len(q) - n \in Int /\ Len(q) - 1 \in Int /\ Len(q) - n <= Len(q)
        /\ (Len(q) - 1) - (Len(q) - n) + 1 = n
        /\ (IF Len(q) - n <= Len(q) - 1 THEN (Len(q) - 1) - (Len(q) - n) + 1 ELSE 0) = n
        /\ \A i \in Len(q) - n..Len(q) - 1 : i \in 1..Len(q)
    BY <1>1, <1>2
  <2>2. \A i \in Len(q) - n..Len(q) - 1 : q[i] \in S
    BY <1>1, <2>1, Zenon
  <2> QED
    BY <2>1, <2>2, SubSeqProperties
<1>5. ASSUME NEW i \in 1..n PROVE t[(Len(t) - n) + i - 1] = q[(Len(q) - n) + i - 1]
  <2>1. /\ (Len(t) - n) + i - 1 \in 1..Len(t)
        /\ ((Len(t) - n) + i - 1) + 1 = (Len(q) - n) + i - 1
    BY <1>1, <1>2
  <2> QED
    BY <1>1, <2>1
<1> QED
  BY <1>3, <1>4, <1>5, SeqEqual DEF Preceding, t

\* The prices and volumes of a history, and of what is left of it.
LEMMA Columns ==
    ASSUME NEW rows \in History
    PROVE  /\ Closes(rows) \in Seq(Nat) /\ Len(Closes(rows)) = Len(rows)
           /\ Volumes(rows) \in Seq(Nat) /\ Len(Volumes(rows)) = Len(rows)
           /\ \A i \in 1..Len(rows) : Closes(rows)[i] = rows[i].close /\ Volumes(rows)[i] = rows[i].volume
<1> DEFINE n == Len(rows)
           closes == [i \in 1..n |-> rows[i].close]
           volumes == [i \in 1..n |-> rows[i].volume]
<1>1. n \in Nat /\ DOMAIN rows = 1..n /\ \A i \in 1..n : rows[i] \in MarketRow
  BY LenProperties, ElementOfSeq DEF History
<1>2. \A i \in 1..n : rows[i].close \in Nat /\ rows[i].volume \in Nat
  BY <1>1 DEF MarketRow
<1>3. Closes(rows) = closes /\ Volumes(rows) = volumes
  BY <1>1 DEF Closes, Volumes
<1> HIDE DEF n
<1>4. closes \in Seq(Nat) /\ Len(closes) = n /\ volumes \in Seq(Nat) /\ Len(volumes) = n
  BY <1>1, <1>2
<1>5. \A i \in 1..n : closes[i] = rows[i].close /\ volumes[i] = rows[i].volume
  OBVIOUS
<1> QED
  BY <1>3, <1>4, <1>5 DEF n

LEMMA NextIndex == ASSUME NEW n \in Nat, NEW i \in 1..n - 1 PROVE i + 1 \in 1..n
  OBVIOUS

LEMMA ColumnsOfTail ==
    ASSUME NEW rows \in History, rows # <<>>
    PROVE  /\ Tail(rows) \in History /\ Len(Tail(rows)) = Len(rows) - 1
           /\ Closes(Tail(rows)) = Tail(Closes(rows)) /\ Closes(rows) # <<>>
           /\ Volumes(Tail(rows)) = Tail(Volumes(rows)) /\ Volumes(rows) # <<>>
<1>1. /\ Len(rows) \in Nat \ {0}
      /\ Tail(rows) \in History /\ Len(Tail(rows)) = Len(rows) - 1
      /\ \A i \in 1..Len(rows) - 1 : Tail(rows)[i] = rows[i + 1]
  BY HeadTailProperties, LenProperties, EmptySeq DEF History
<1>2. /\ Closes(rows) # <<>> /\ Volumes(rows) # <<>>
      /\ Closes(rows) \in Seq(Nat) /\ Volumes(rows) \in Seq(Nat)
      /\ Len(Closes(rows)) = Len(rows) /\ Len(Volumes(rows)) = Len(rows)
  BY <1>1, Columns, EmptySeq
<1>3. /\ Tail(Closes(rows)) \in Seq(Nat) /\ Len(Tail(Closes(rows))) = Len(rows) - 1
      /\ \A i \in 1..Len(rows) - 1 : Tail(Closes(rows))[i] = Closes(rows)[i + 1]
      /\ Tail(Volumes(rows)) \in Seq(Nat) /\ Len(Tail(Volumes(rows))) = Len(rows) - 1
      /\ \A i \in 1..Len(rows) - 1 : Tail(Volumes(rows))[i] = Volumes(rows)[i + 1]
  BY <1>2, HeadTailProperties
<1>4. ASSUME NEW i \in 1..Len(rows) - 1
      PROVE  /\ Closes(Tail(rows))[i] = Tail(Closes(rows))[i]
             /\ Volumes(Tail(rows))[i] = Tail(Volumes(rows))[i]
  <2>1. i \in 1..Len(Tail(rows)) /\ i + 1 \in 1..Len(rows)
    <3>1. Len(rows) \in Nat /\ Len(Tail(rows)) = Len(rows) - 1
      BY <1>1
    <3>2. i + 1 \in 1..Len(rows)
      BY <3>1, NextIndex, Zenon
    <3> QED
      BY <3>1, <3>2, Zenon
  <2> QED
    <3>1. /\ Closes(Tail(rows))[i] = Tail(rows)[i].close
          /\ Volumes(Tail(rows))[i] = Tail(rows)[i].volume
      BY <1>1, <2>1, Columns
    <3>2. /\ Closes(rows)[i + 1] = rows[i + 1].close
          /\ Volumes(rows)[i + 1] = rows[i + 1].volume
      BY <2>1, Columns
    <3> QED
      BY <1>1, <1>3, <3>1, <3>2
<1>5. /\ Closes(Tail(rows)) \in Seq(Nat) /\ Len(Closes(Tail(rows))) = Len(rows) - 1
      /\ Volumes(Tail(rows)) \in Seq(Nat) /\ Len(Volumes(Tail(rows))) = Len(rows) - 1
  BY <1>1, Columns
<1>6. Closes(Tail(rows)) = Tail(Closes(rows))
  <2>1. /\ Len(Closes(Tail(rows))) = Len(Tail(Closes(rows)))
        /\ \A i \in 1..Len(Closes(Tail(rows))) : Closes(Tail(rows))[i] = Tail(Closes(rows))[i]
    BY <1>3, <1>4, <1>5, Zenon
  <2> QED
    BY <1>3, <1>5, <2>1, SeqEqual, Zenon
<1>7. Volumes(Tail(rows)) = Tail(Volumes(rows))
  <2>1. /\ Len(Volumes(Tail(rows))) = Len(Tail(Volumes(rows)))
        /\ \A i \in 1..Len(Volumes(Tail(rows))) : Volumes(Tail(rows))[i] = Tail(Volumes(rows))[i]
    BY <1>3, <1>4, <1>5, Zenon
  <2> QED
    BY <1>3, <1>5, <2>1, SeqEqual, Zenon
<1> QED
  BY <1>1, <1>2, <1>6, <1>7, Zenon

LEMMA LastOfTail ==
    ASSUME NEW S, NEW q \in Seq(S), Len(q) >= 2
    PROVE  Tail(q) # <<>> /\ Last(Tail(q)) = Last(q)
<1>1. /\ Tail(q) \in Seq(S) /\ Len(q) \in Nat /\ Len(Tail(q)) = Len(q) - 1
      /\ \A i \in 1..Len(Tail(q)) : Tail(q)[i] = q[i + 1]
  BY HeadTailProperties, LenProperties, EmptySeq
<1>2. Tail(q) # <<>>
  <2>1. Len(Tail(q)) \in Nat /\ Len(Tail(q)) >= 1
    BY <1>1
  <2> QED
    BY <2>1, LongIsNotEmpty, Zenon
<1>3. Tail(q)[Len(q) - 1] = q[(Len(q) - 1) + 1]
  BY <1>1
<1> QED
  BY <1>1, <1>2, <1>3 DEF Last

\* Hence none of what the rules compute of a window does, as long as what is left
\* fills the window.
LEMMA WindowsOfTail ==
    ASSUME NEW rows \in History, rows # <<>>, NEW n \in Nat \ {0}
    PROVE  /\ n <= Len(Tail(rows)) =>
                /\ Total(Final(Closes(Tail(rows)), n)) = Total(Final(Closes(rows), n))
                /\ AboveMean(Tail(rows), n) = AboveMean(rows, n)
           /\ n + 1 <= Len(Tail(rows)) =>
                /\ Preceding(Tail(rows), n) = Preceding(rows, n)
                /\ Total(Preceding(Closes(Tail(rows)), n)) = Total(Preceding(Closes(rows), n))
                /\ \A pct : Heavy(Tail(rows), n, pct) = Heavy(rows, n, pct)
<1>1. /\ Tail(rows) \in History /\ Len(Tail(rows)) = Len(rows) - 1 /\ Len(rows) \in Nat
      /\ Closes(Tail(rows)) = Tail(Closes(rows)) /\ Closes(rows) # <<>>
      /\ Volumes(Tail(rows)) = Tail(Volumes(rows)) /\ Volumes(rows) # <<>>
      /\ Closes(rows) \in Seq(Nat) /\ Volumes(rows) \in Seq(Nat)
      /\ Len(Tail(Closes(rows))) = Len(Tail(rows)) /\ Len(Tail(Volumes(rows))) = Len(Tail(rows))
  BY Columns, ColumnsOfTail, LenProperties DEF History
<1>2. n <= Len(Tail(rows)) => Last(Tail(rows)) = Last(rows)
  BY <1>1, LastOfTail DEF History
<1>3. n <= Len(Tail(rows)) => Final(Closes(Tail(rows)), n) = Final(Closes(rows), n)
  BY <1>1, FinalOfTail
<1>4. ASSUME n + 1 <= Len(Tail(rows))
      PROVE  /\ Preceding(Tail(rows), n) = Preceding(rows, n)
             /\ Preceding(Closes(Tail(rows)), n) = Preceding(Closes(rows), n)
             /\ Preceding(Volumes(Tail(rows)), n) = Preceding(Volumes(rows), n)
  <2>1. n \in Nat /\ n + 1 <= Len(Tail(Closes(rows))) /\ n + 1 <= Len(Tail(Volumes(rows)))
    BY <1>1, <1>4
  <2>2. Preceding(Tail(rows), n) = Preceding(rows, n)
    BY <1>4, <2>1, PrecedingOfTail DEF History
  <2>3. Preceding(Tail(Closes(rows)), n) = Preceding(Closes(rows), n)
    BY <1>1, <2>1, PrecedingOfTail
  <2>4. Preceding(Tail(Volumes(rows)), n) = Preceding(Volumes(rows), n)
    BY <1>1, <2>1, PrecedingOfTail
  <2> QED
    BY <1>1, <2>2, <2>3, <2>4
<1>5. n + 1 <= Len(Tail(rows)) => n <= Len(Tail(rows))
  BY <1>1
<1> QED
  BY <1>2, <1>3, <1>4, <1>5 DEF AboveMean, Heavy

-----------------------------------------------------------------------------
(* Nor do the rules, save for the weeks.                                    *)

LEMMA TrendWindowCovers ==
    ASSUME NEW p \in Settings
    PROVE  /\ TrendWindow(p) \in Nat /\ TrendWindow(p) >= Windows.d204
           /\ TrendWindow(p) >= p.breakout + 1 /\ TrendWindow(p) >= Windows.d50 + 1
<1> DEFINE asked == {Windows.d204, p.breakout + 1, Windows.d50 + 1}
<1>1. Windows.d204 \in Nat /\ p.breakout + 1 \in Nat /\ Windows.d50 + 1 \in Nat
  BY AdviceAssumption, RulesAssumption
<1>2. \E x \in asked : \A y \in asked : x >= y
  BY <1>1
<1>3. Max(asked) \in asked /\ \A y \in asked : Max(asked) >= y
  BY <1>2 DEF Max
<1>4. TrendWindow(p) = Max(asked)
  BY DEF TrendWindow
<1> QED
  BY <1>1, <1>3, <1>4

LEMMA NoRowsNoSignal ==
    ASSUME NEW rule, NEW scan, NEW cost, NEW p \in Settings
    PROVE  ~Enters(rule, <<>>, scan, p) /\ ~Exits(rule, <<>>, scan, cost, p)
<1>1. Len(<<>>) = 0
  OBVIOUS
<1>2. /\ p.box \in Nat \ {0} /\ p.slow \in Nat /\ p.entry \in Nat \ {0} /\ p.exit \in Nat \ {0}
      /\ p.breakout \in Nat \ {0} /\ p.fast \in Nat \ {0} /\ p.fast < p.slow
      /\ Windows.d50 \in Nat \ {0} /\ Windows.d150 \in Nat \ {0}
  BY AdviceAssumption, RulesAssumption
<1>3. ~BoxBreakout(<<>>, p) /\ ~BoxBreakdown(<<>>, p)
  BY <1>1, <1>2 DEF BoxBreakout, BoxBreakdown
<1>4. Crossover(<<>>, p) = 0
  BY <1>1, <1>2 DEF Crossover
<1>5. ~ChannelBreakout(<<>>, p) /\ ~ChannelBreach(<<>>, p)
  BY <1>1, <1>2 DEF ChannelBreakout, ChannelBreach
<1>6. ~BaseQualifies(<<>>, scan, p) /\ ~BaseExit(<<>>, scan, cost, p) /\ ~TrendExit(<<>>, scan, cost, p)
  BY <1>1, <1>2 DEF BaseQualifies, BaseExit, TrendExit
<1>7. ~TrendQualifies(<<>>, scan, p)
  BY <1>1, <1>2, TrendWindowCovers DEF TrendQualifies
<1> QED
  BY <1>3, <1>4, <1>5, <1>6, <1>7 DEF Enters, Exits

LEMMA CrossoverOfTail ==
    ASSUME NEW rows \in History, rows # <<>>, NEW p \in Settings, Crossover(Tail(rows), p) # 0
    PROVE  Crossover(rows, p) = Crossover(Tail(rows), p)
<1>1. /\ p.slow \in Nat \ {0} /\ p.fast \in Nat \ {0} /\ p.fast < p.slow
      /\ Len(Tail(rows)) \in Nat /\ Len(Tail(rows)) = Len(rows) - 1 /\ Len(rows) \in Nat
  BY AdviceAssumption, ColumnsOfTail, LenProperties DEF History
<1>2. Len(Tail(rows)) >= p.slow + 1
  BY <1>1 DEF Crossover
<1>3. /\ p.fast <= Len(Tail(rows)) /\ p.slow <= Len(Tail(rows))
      /\ p.fast + 1 <= Len(Tail(rows)) /\ p.slow + 1 <= Len(Tail(rows))
      /\ ~(Len(Tail(rows)) < p.slow + 1) /\ ~(Len(rows) < p.slow + 1)
  BY <1>1, <1>2
<1>4. /\ Total(Final(Closes(Tail(rows)), p.fast)) = Total(Final(Closes(rows), p.fast))
      /\ Total(Final(Closes(Tail(rows)), p.slow)) = Total(Final(Closes(rows), p.slow))
      /\ Total(Preceding(Closes(Tail(rows)), p.fast)) = Total(Preceding(Closes(rows), p.fast))
      /\ Total(Preceding(Closes(Tail(rows)), p.slow)) = Total(Preceding(Closes(rows), p.slow))
  BY <1>1, <1>3, WindowsOfTail
<1> QED
  BY <1>3, <1>4 DEF Crossover

\* Every exit on what is left of a history is one on all of it, whether its scan
\* is there or not.
LEMMA ExitsOnLess ==
    ASSUME NEW rule, NEW rows \in History, NEW less, less \in {rows, <<>>} \/ (rows # <<>> /\ less = Tail(rows)),
           NEW scan, NEW seen \in {scan, NoScan}, NEW cost, NEW p \in Settings,
           Exits(rule, less, seen, cost, p)
    PROVE  Exits(rule, rows, scan, cost, p)
<1>1. less # <<>>
  BY NoRowsNoSignal
<1>2. /\ p.box \in Nat \ {0} /\ p.exit \in Nat \ {0}
      /\ Windows.d50 \in Nat \ {0} /\ Windows.d150 \in Nat \ {0}
  BY AdviceAssumption, RulesAssumption
<1>3. StageFails(seen) => StageFails(scan)
  BY DEF StageFails, NoScan
<1>4. seen.base \in {"Invalid", "Damaged"} => scan.base \in {"Invalid", "Damaged"}
  BY DEF NoScan
<1>5. CASE less = rows
  BY <1>3, <1>4, <1>5 DEF Exits, BaseExit, TrendExit
<1>6. CASE rows # <<>> /\ less = Tail(rows)
  <2>1. Len(less) \in Nat /\ Len(less) = Len(rows) - 1 /\ Len(rows) \in Nat /\ Len(less) >= 1
    BY <1>1, <1>6, ColumnsOfTail, LenProperties, EmptySeq DEF History
  <2>2. Last(less) = Last(rows)
    <3>1. Len(rows) >= 2 /\ rows \in Seq(MarketRow)
      BY <2>1 DEF History
    <3>2. Last(Tail(rows)) = Last(rows)
      BY <3>1, LastOfTail
    <3> QED
      BY <1>6, <3>2
  <2>3. ASSUME BoxBreakdown(less, p) PROVE BoxBreakdown(rows, p)
    <3>1. p.box + 1 <= Len(less) /\ p.box + 1 <= Len(rows)
      BY <1>2, <2>1, <2>3 DEF BoxBreakdown
    <3>2. Preceding(less, p.box) = Preceding(rows, p.box)
      BY <1>2, <1>6, <3>1, WindowsOfTail
    <3> QED
      BY <2>1, <2>2, <2>3, <3>1, <3>2, <1>2 DEF BoxBreakdown
  <2>4. ASSUME ChannelBreach(less, p) PROVE ChannelBreach(rows, p)
    <3>1. p.exit + 1 <= Len(less) /\ p.exit + 1 <= Len(rows)
      BY <1>2, <2>1, <2>4 DEF ChannelBreach
    <3>2. Preceding(less, p.exit) = Preceding(rows, p.exit)
      BY <1>2, <1>6, <3>1, WindowsOfTail
    <3> QED
      BY <2>1, <2>2, <2>4, <3>1, <3>2, <1>2 DEF ChannelBreach
  <2>5. ASSUME Crossover(less, p) = -1 PROVE Crossover(rows, p) = -1
    BY <1>6, <2>5, CrossoverOfTail
  <2>6. ASSUME BaseExit(less, seen, cost, p) PROVE BaseExit(rows, scan, cost, p)
    <3>1. Windows.d50 <= Len(less) /\ Windows.d50 <= Len(rows)
      BY <1>2, <2>1, <2>6 DEF BaseExit
    <3>2. AboveMean(less, Windows.d50) = AboveMean(rows, Windows.d50)
      BY <1>2, <1>6, <3>1, WindowsOfTail
    <3> QED
      BY <1>2, <1>3, <1>4, <2>1, <2>2, <2>6, <3>1, <3>2 DEF BaseExit, Stopped
  <2>7. ASSUME TrendExit(less, seen, cost, p) PROVE TrendExit(rows, scan, cost, p)
    <3>1. Windows.d150 <= Len(less) /\ Windows.d150 <= Len(rows)
      BY <1>2, <2>1, <2>7 DEF TrendExit
    <3>2. AboveMean(less, Windows.d150) = AboveMean(rows, Windows.d150)
      BY <1>2, <1>6, <3>1, WindowsOfTail
    <3> QED
      BY <1>2, <1>3, <2>1, <2>2, <2>7, <3>1, <3>2 DEF TrendExit, Stopped
  <2> QED
    BY <2>3, <2>4, <2>5, <2>6, <2>7 DEF Exits
<1> QED
  BY <1>1, <1>5, <1>6

-----------------------------------------------------------------------------
(* The weeks: without its oldest row a history has the same weekly closes,  *)
(* or all but the oldest of them.                                           *)

AreWeeks(h, rows, n) ==
    h = [i \in 0..n |-> IF i = 0 THEN <<>> ELSE AfterRow(h[i - 1], rows, i)]

LEMMA WeeksExist ==
    ASSUME NEW rows, NEW last \in Nat
    PROVE  \E h : AreWeeks(h, rows, last)
<1> DEFINE N == {n \in Nat : ~ \E h : AreWeeks(h, rows, n)}
<1> SUFFICES ASSUME ~ \E h : AreWeeks(h, rows, last) PROVE FALSE
  OBVIOUS
<1>1. N \subseteq Nat /\ N # {}
  OBVIOUS
<1>2. PICK n \in N : \A m \in N : n <= m
  <2> HIDE DEF N
  <2> QED
    BY <1>1, Least
<1>3. n \in Nat /\ ~ \E h : AreWeeks(h, rows, n)
  OBVIOUS
<1>4. n # 0
  <2> SUFFICES ASSUME n = 0 PROVE FALSE
    OBVIOUS
  <2> DEFINE h == [i \in 0..0 |-> <<>>]
  <2>1. AreWeeks(h, rows, 0)
    BY DEF AreWeeks
  <2> QED
    BY <1>3, <2>1
<1>5. PICK k : AreWeeks(k, rows, n - 1)
  <2>1. n - 1 \in Nat /\ n - 1 < n
    BY <1>3, <1>4
  <2>2. n - 1 \notin N
    <3> HIDE DEF N
    <3> QED
      BY <1>1, <1>2, <2>1
  <2> QED
    BY <2>1, <2>2
<1> DEFINE h == [i \in 0..n |-> IF i = 0 THEN <<>> ELSE AfterRow(k[i - 1], rows, i)]
<1>6. ASSUME NEW i \in 0..n - 1 PROVE h[i] = k[i]
  <2>1. i \in 0..n /\ h[i] = IF i = 0 THEN <<>> ELSE AfterRow(k[i - 1], rows, i)
    BY <1>3, <1>6
  <2>2. k[i] = IF i = 0 THEN <<>> ELSE AfterRow(k[i - 1], rows, i)
    BY <1>5, <1>6 DEF AreWeeks
  <2> QED
    BY <2>1, <2>2
<1>7. ASSUME NEW i \in 0..n, i # 0 PROVE h[i - 1] = k[i - 1]
  <2>1. i - 1 \in 0..n - 1
    BY <1>3, <1>7
  <2> HIDE DEF h
  <2> QED
    BY <1>6, <2>1
<1>8. AreWeeks(h, rows, n)
  BY <1>7 DEF AreWeeks
<1> QED
  BY <1>3, <1>8

\* The weekly closes of the first n rows.
WeeksOf(rows, n) == (CHOOSE h : AreWeeks(h, rows, Len(rows)))[n]

LEMMA WeeksUnfold ==
    ASSUME NEW rows \in History
    PROVE  /\ AllWeeks(rows) = WeeksOf(rows, Len(rows)) /\ WeeksOf(rows, 0) = <<>>
           /\ \A n \in 1..Len(rows) : WeeksOf(rows, n) = AfterRow(WeeksOf(rows, n - 1), rows, n)
<1> DEFINE f == CHOOSE h : AreWeeks(h, rows, Len(rows))
<1>1. Len(rows) \in Nat
  BY LenProperties DEF History
<1>2. AreWeeks(f, rows, Len(rows))
  BY <1>1, WeeksExist
<1>3. AllWeeks(rows) = f[Len(rows)] /\ \A n : WeeksOf(rows, n) = f[n]
  BY DEF AllWeeks, WeeksOf, AreWeeks
<1> HIDE DEF f
<1>4. f[0] = <<>> /\ \A n \in 1..Len(rows) : f[n] = AfterRow(f[n - 1], rows, n)
  BY <1>1, <1>2 DEF AreWeeks
<1> QED
  BY <1>3, <1>4

LEMMA WeeksType ==
    ASSUME NEW rows \in History, NEW n \in 0..Len(rows)
    PROVE  WeeksOf(rows, n) \in Seq(Nat) /\ (n # 0 => Len(WeeksOf(rows, n)) >= 1)
<1> DEFINE Good(k) == WeeksOf(rows, k) \in Seq(Nat) /\ (k # 0 => Len(WeeksOf(rows, k)) >= 1)
           N == {k \in Nat : k <= Len(rows) /\ ~Good(k)}
<1> SUFFICES ASSUME ~Good(n) PROVE FALSE
  OBVIOUS
<1>0. Len(rows) \in Nat /\ \A i \in 1..Len(rows) : rows[i].close \in Nat
  <2>1. Len(rows) \in Nat /\ \A i \in 1..Len(rows) : rows[i] \in MarketRow
    BY LenProperties, ElementOfSeq DEF History
  <2> QED
    BY <2>1 DEF MarketRow
<1>1. N \subseteq Nat /\ n \in N
  BY <1>0
<1>2. PICK k \in N : \A m \in N : k <= m
  <2> HIDE DEF N
  <2> QED
    BY <1>1, Least
<1>3. k \in 0..Len(rows) /\ ~Good(k)
  BY <1>0
<1>4. k # 0
  <2>1. WeeksOf(rows, 0) = <<>> /\ <<>> \in Seq(Nat)
    BY WeeksUnfold
  <2> QED
    BY <1>3, <2>1
<1>5. Good(k - 1)
  <2>1. k - 1 \notin N /\ k - 1 \in Nat /\ k - 1 <= Len(rows)
    <3> HIDE DEF N
    <3> QED
      BY <1>0, <1>1, <1>2, <1>3, <1>4
  <2> QED
    BY <2>1
<1> DEFINE w == WeeksOf(rows, k - 1)
           c == rows[k].close
<1>6. WeeksOf(rows, k) = AfterRow(w, rows, k) /\ c \in Nat
  BY <1>0, <1>3, <1>4, WeeksUnfold
<1>7. w \in Seq(Nat) /\ (k > 1 => Len(w) >= 1) /\ Len(w) \in Nat
  BY <1>3, <1>4, <1>5, LenProperties
<1> HIDE DEF w, c
<1>8. CASE k > 1 /\ Week[rows[k - 1].session] = Week[rows[k].session]
  <2>1. WeeksOf(rows, k) = [w EXCEPT ![Len(w)] = c]
    BY <1>6, <1>8 DEF AfterRow, c
  <2>2. Len(w) \in 1..Len(w)
    BY <1>7, <1>8
  <2> QED
    BY <1>3, <1>6, <1>7, <1>8, <2>1, <2>2, ExceptSeq
<1>9. CASE ~(k > 1 /\ Week[rows[k - 1].session] = Week[rows[k].session])
  <2>1. WeeksOf(rows, k) = Append(w, c)
    BY <1>6, <1>9 DEF AfterRow, c
  <2>2. Append(w, c) \in Seq(Nat) /\ Len(Append(w, c)) = Len(w) + 1
    BY <1>6, <1>7, AppendProperties
  <2> QED
    BY <1>3, <1>7, <2>1, <2>2
<1> QED
  BY <1>8, <1>9

\* A close of a further row, on weeks without the oldest.
LEMMA WeekOnTail ==
    ASSUME NEW w \in Seq(Nat), Len(w) >= 2, NEW c \in Nat
    PROVE  /\ Append(Tail(w), c) = Tail(Append(w, c)) /\ Len(Append(w, c)) >= 2
           /\ [Tail(w) EXCEPT ![Len(Tail(w))] = c] = Tail([w EXCEPT ![Len(w)] = c])
           /\ Len([w EXCEPT ![Len(w)] = c]) >= 2
<1>1. Len(w) \in Nat /\ w # <<>>
  BY LenProperties, LongIsNotEmpty
<1>2. Append(Tail(w), c) = Tail(Append(w, c)) /\ Len(Append(w, c)) >= 2
  BY <1>1, HeadTailAppend, AppendProperties
<1> DEFINE t == Tail(w)
           x == [w EXCEPT ![Len(w)] = c]
           y == [t EXCEPT ![Len(t)] = c]
<1>3. t \in Seq(Nat) /\ Len(t) = Len(w) - 1 /\ \A i \in 1..Len(t) : t[i] = w[i + 1]
  BY <1>1, HeadTailProperties
<1> HIDE DEF t
<1>4. Len(w) \in 1..Len(w) /\ Len(t) \in 1..Len(t)
  <2>1. Len(w) \in Nat /\ Len(t) = Len(w) - 1 /\ Len(w) >= 2
    BY <1>1, <1>3
  <2>2. Len(t) \in Nat /\ Len(t) >= 1
    BY <2>1
  <2> QED
    BY <2>1, <2>2
<1>5. x \in Seq(Nat) /\ Len(x) = Len(w) /\ \A i \in 1..Len(w) : x[i] = IF i = Len(w) THEN c ELSE w[i]
  BY <1>4, ExceptSeq
<1>6. y \in Seq(Nat) /\ Len(y) = Len(t) /\ \A i \in 1..Len(t) : y[i] = IF i = Len(t) THEN c ELSE t[i]
  BY <1>3, <1>4, ExceptSeq
<1> HIDE DEF x, y
<1>7. x # <<>>
  BY <1>1, <1>5, LongIsNotEmpty
<1>8. Tail(x) \in Seq(Nat) /\ Len(Tail(x)) = Len(x) - 1 /\ \A i \in 1..Len(Tail(x)) : Tail(x)[i] = x[i + 1]
  BY <1>5, <1>7, HeadTailProperties
<1>9. ASSUME NEW i \in 1..Len(t) PROVE y[i] = Tail(x)[i]
  <2>1. i \in 1..Len(Tail(x)) /\ i + 1 \in 1..Len(w) /\ (i = Len(t) <=> i + 1 = Len(w))
    BY <1>1, <1>3, <1>5, <1>8
  <2>2. y[i] = IF i = Len(t) THEN c ELSE w[i + 1]
    BY <1>3, <1>6
  <2>3. Tail(x)[i] = IF i + 1 = Len(w) THEN c ELSE w[i + 1]
    BY <1>5, <1>8, <2>1
  <2> QED
    BY <2>1, <2>2, <2>3
<1>10. y = Tail(x)
  BY <1>1, <1>3, <1>5, <1>6, <1>8, <1>9, SeqEqual
<1> QED
  BY <1>1, <1>2, <1>5, <1>10 DEF t, x, y

LEMMA FirstRow == \A w, rows : AfterRow(w, rows, 1) = Append(w, rows[1].close)
<1>1. ~(1 > 1)
  OBVIOUS
<1> QED
  BY <1>1, Zenon DEF AfterRow

LEMMA WeeksOfTail ==
    ASSUME NEW rows \in History, rows # <<>>, NEW n \in 1..Len(rows) - 1
    PROVE  LET u == WeeksOf(Tail(rows), n)
               w == WeeksOf(rows, n + 1) IN
           u = w \/ (Len(w) >= 2 /\ u = Tail(w))
<1> DEFINE rest == Tail(rows)
           Good(k) == \/ WeeksOf(rest, k) = WeeksOf(rows, k + 1)
                      \/ Len(WeeksOf(rows, k + 1)) >= 2 /\ WeeksOf(rest, k) = Tail(WeeksOf(rows, k + 1))
           N == {k \in Nat : 1 <= k /\ k <= Len(rows) - 1 /\ ~Good(k)}
<1> SUFFICES ASSUME ~Good(n) PROVE FALSE
  OBVIOUS
<1>0. /\ Len(rows) \in Nat /\ rest \in History /\ Len(rest) = Len(rows) - 1
      /\ \A i \in 1..Len(rows) : rows[i].close \in Nat
      /\ \A i \in 1..Len(rest) : rest[i] = rows[i + 1]
  <2>1. /\ Len(rows) \in Nat /\ \A i \in 1..Len(rows) : rows[i] \in MarketRow
        /\ rest \in History /\ Len(rest) = Len(rows) - 1
        /\ \A i \in 1..Len(rest) : rest[i] = rows[i + 1]
    BY LenProperties, ElementOfSeq, HeadTailProperties DEF History
  <2> QED
    BY <2>1 DEF MarketRow
<1> HIDE DEF rest
<1>1. N \subseteq Nat /\ n \in N
  BY <1>0
<1>2. PICK k \in N : \A m \in N : k <= m
  <2> HIDE DEF N
  <2> QED
    BY <1>1, Least
<1>3. k \in 1..Len(rest) /\ k + 1 \in 2..Len(rows) /\ ~Good(k)
  BY <1>0
<1> DEFINE u == WeeksOf(rest, k - 1)
           w == WeeksOf(rows, k)
           c == rows[k + 1].close
           same == Week[rows[k].session] = Week[rows[k + 1].session]
<1>4. /\ WeeksOf(rest, k) = AfterRow(u, rest, k) /\ rest[k] = rows[k + 1] /\ c \in Nat
      /\ WeeksOf(rows, k + 1) = AfterRow(w, rows, k + 1)
  <2>1. (k + 1) - 1 = k
    BY <1>3
  <2> QED
    BY <1>0, <1>3, <2>1, WeeksUnfold
<1>5. /\ w \in Seq(Nat) /\ Len(w) >= 1 /\ Len(w) \in Nat
  BY <1>0, <1>3, WeeksType, LenProperties
<1>6. AfterRow(w, rows, k + 1) = IF same THEN [w EXCEPT ![Len(w)] = c] ELSE Append(w, c)
  <2>1. k + 1 > 1 /\ (k + 1) - 1 = k
    BY <1>3
  <2> QED
    BY <2>1 DEF AfterRow
<1>7. CASE k = 1
  <2>1. u = <<>>
    BY <1>0, <1>7, WeeksUnfold
  <2>2. WeeksOf(rest, k) = Append(<<>>, c)
    <3>1. AfterRow(u, rest, 1) = Append(u, rest[1].close)
      BY FirstRow
    <3> QED
      BY <1>4, <1>7, <2>1, <3>1
  <2>3. w = Append(<<>>, rows[1].close)
    <3>1. w = AfterRow(WeeksOf(rows, 0), rows, 1) /\ WeeksOf(rows, 0) = <<>>
      BY <1>0, <1>3, <1>7, WeeksUnfold
    <3> QED
      BY <3>1, FirstRow
  <2>4. rows[1].close \in Nat
    BY <1>0, <1>3
  <2> DEFINE d == rows[1].close
  <2>5. w = <<d>> /\ Len(w) = 1 /\ WeeksOf(rest, k) = <<c>>
    BY <2>2, <2>3
  <2> HIDE DEF u, w, c, d
  <2>6. CASE same
    <3>1. [w EXCEPT ![Len(w)] = c] = <<c>>
      BY <2>5
    <3> QED
      BY <1>3, <1>4, <1>6, <2>5, <2>6, <3>1
  <2>7. CASE ~same
    <3>1. Tail(w) = <<>> /\ w # <<>>
      <4>1. <<>> \in Seq(Nat)
        OBVIOUS
      <4> QED
        BY <1>5, <2>3, <4>1, HeadTailAppend, LongIsNotEmpty DEF d
    <3>2. Append(Tail(w), c) = Tail(Append(w, c)) /\ Len(Append(w, c)) = Len(w) + 1
      BY <1>4, <1>5, <3>1, HeadTailAppend, AppendProperties
    <3>3. WeeksOf(rest, k) = Tail(Append(w, c)) /\ Len(Append(w, c)) >= 2
      BY <1>5, <2>2, <2>5, <3>1, <3>2
    <3> QED
      BY <1>3, <1>4, <1>6, <2>7, <3>3
  <2> QED
    BY <2>6, <2>7
<1>8. CASE k # 1
  <2>1. Good(k - 1)
    <3>1. k - 1 \notin N /\ k - 1 \in Nat /\ 1 <= k - 1 /\ k - 1 <= Len(rows) - 1
      <4> HIDE DEF N
      <4> QED
        BY <1>0, <1>1, <1>2, <1>3, <1>8
    <3> HIDE DEF Good
    <3> QED
      BY <3>1
  <2>2. u = w \/ (Len(w) >= 2 /\ u = Tail(w))
    <3>1. (k - 1) + 1 = k
      BY <1>3
    <3> QED
      BY <2>1, <3>1
  <2>3. AfterRow(u, rest, k) = IF same THEN [u EXCEPT ![Len(u)] = c] ELSE Append(u, c)
    <3>1. k > 1 /\ k - 1 \in 1..Len(rest) /\ (k - 1) + 1 = k
      BY <1>3, <1>8
    <3>2. rest[k - 1] = rows[k]
      BY <1>0, <3>1
    <3> QED
      BY <1>4, <3>1, <3>2 DEF AfterRow
  <2> HIDE DEF u, w, c, same
  <2>4. CASE u = w
    BY <1>3, <1>4, <1>6, <2>3, <2>4
  <2>5. CASE Len(w) >= 2 /\ u = Tail(w)
    <3>1. /\ Append(u, c) = Tail(Append(w, c)) /\ Len(Append(w, c)) >= 2
          /\ [u EXCEPT ![Len(u)] = c] = Tail([w EXCEPT ![Len(w)] = c])
          /\ Len([w EXCEPT ![Len(w)] = c]) >= 2
      BY <1>4, <1>5, <2>5, WeekOnTail
    <3> QED
      BY <1>3, <1>4, <1>6, <2>3, <3>1
  <2> QED
    BY <2>2, <2>4, <2>5
<1> QED
  BY <1>7, <1>8

LEMMA WeeklyOfTail ==
    ASSUME NEW rows \in History, Len(rows) >= 2
    PROVE  LET u == WeeklyCloses(Tail(rows))
               w == WeeklyCloses(rows) IN
           w \in Seq(Nat) /\ (u = w \/ (w # <<>> /\ u = Tail(w)))
<1> DEFINE n == Windows.w52
           rest == Tail(rows)
           b == AllWeeks(rest)
           a == AllWeeks(rows)
<1>1. /\ n \in Nat /\ Len(rows) \in Nat /\ rows # <<>>
      /\ rest \in History /\ Len(rest) = Len(rows) - 1
  BY RulesAssumption, LenProperties, LongIsNotEmpty, ColumnsOfTail DEF History
<1>2. b = WeeksOf(rest, Len(rest)) /\ a = WeeksOf(rows, Len(rows))
  BY <1>1, WeeksUnfold
<1>3. a \in Seq(Nat) /\ Len(a) \in Nat
  <2>1. Len(rows) \in 0..Len(rows)
    BY <1>1
  <2> QED
    BY <1>1, <1>2, <2>1, WeeksType, LenProperties
<1>4. b = a \/ (Len(a) >= 2 /\ b = Tail(a))
  <2>1. Len(rows) - 1 \in 1..Len(rows) - 1 /\ (Len(rows) - 1) + 1 = Len(rows)
    BY <1>1
  <2> QED
    BY <1>1, <1>2, <2>1, WeeksOfTail
<1>5. /\ WeeklyCloses(rest) = IF Len(b) <= n THEN b ELSE Final(b, n)
      /\ WeeklyCloses(rows) = IF Len(a) <= n THEN a ELSE Final(a, n)
  BY DEF WeeklyCloses
<1> HIDE DEF n, rest, a, b
<1>6. ASSUME Len(a) > n PROVE Final(a, n) \in Seq(Nat)
  <2>1. \A i \in (Len(a) - n + 1)..Len(a) : a[i] \in Nat
    BY <1>1, <1>3, <1>6, ElementOfSeq
  <2> QED
    <3>1. Len(a) - n + 1 \in Int /\ Len(a) \in Int
      BY <1>1, <1>3, LenProperties
    <3> QED
      BY <2>1, <3>1, SubSeqProperties, Zenon DEF Final
<1>7. CASE b = a
  BY <1>1, <1>3, <1>5, <1>6, <1>7 DEF rest
<1>8. CASE Len(a) >= 2 /\ b = Tail(a)
  <2>1. a # <<>> /\ b \in Seq(Nat) /\ Len(b) = Len(a) - 1
    BY <1>3, <1>8, LongIsNotEmpty, HeadTailProperties
  <2>2. CASE Len(a) <= n
    BY <1>1, <1>3, <1>5, <1>8, <2>1, <2>2 DEF rest
  <2>3. CASE Len(a) > n
    <3>1. Final(b, n) = Final(a, n)
      BY <1>1, <1>3, <1>8, <2>1, <2>3, FinalOfTail
    <3>2. Len(b) = n => Final(b, n) = b
      <4>1. Len(b) = n => Len(b) - n + 1 = 1
        BY <1>1
      <4> QED
        BY <2>1, <4>1, SubSeqFull DEF Final
    <3>3. WeeklyCloses(rest) = Final(a, n)
      BY <1>1, <1>3, <1>5, <2>1, <2>3, <3>1, <3>2
    <3> QED
      BY <1>1, <1>3, <1>5, <1>6, <2>3, <3>3 DEF rest
  <2> QED
    BY <1>1, <1>3, <2>2, <2>3
<1> QED
  BY <1>4, <1>7, <1>8

LEMMA SlopeOfTail ==
    ASSUME NEW w \in Seq(Nat), w # <<>>, NEW n \in Nat, n + Windows.lag <= Len(Tail(w))
    PROVE  Slope(Tail(w), n) = Slope(w, n)
<1> DEFINE t == Tail(w)
           k == Len(t) - Windows.lag
           past == SubSeq(w, 1, k + 1)
           rest == SubSeq(t, 1, k)
<1>1. /\ Windows.lag \in Nat \ {0} /\ Len(w) \in Nat /\ Len(t) \in Nat
      /\ t \in Seq(Nat) /\ Len(t) = Len(w) - 1 /\ \A i \in 1..Len(t) : t[i] = w[i + 1]
  BY RulesAssumption, LenProperties, HeadTailProperties
<1>2. /\ n <= Len(t) /\ n <= k /\ k \in 0..Len(t) /\ k + 1 \in 0..Len(w)
      /\ Len(w) - Windows.lag = k + 1 /\ Len(t) - Windows.lag = k
  <2> DEFINE lag == Windows.lag
  <2>1. lag \in Nat \ {0} /\ Len(w) \in Nat /\ Len(t) = Len(w) - 1 /\ n + lag <= Len(t)
    BY <1>1
  <2> HIDE DEF lag, t
  <2>2. /\ n <= Len(t) /\ n <= Len(t) - lag /\ Len(t) - lag \in 0..Len(t)
        /\ (Len(t) - lag) + 1 \in 0..Len(w) /\ Len(w) - lag = (Len(t) - lag) + 1
    BY <2>1
  <2> QED
    BY <2>2 DEF lag
<1>3. Final(t, n) = Final(w, n)
  BY <1>2, FinalOfTail
<1> HIDE DEF t, k
<1>4. past \in Seq(Nat) /\ Len(past) = k + 1 /\ \A i \in 1..k + 1 : past[i] = w[i]
  BY <1>2, InitialPart
<1>5. rest \in Seq(Nat) /\ Len(rest) = k /\ \A i \in 1..k : rest[i] = t[i]
  BY <1>1, <1>2, InitialPart
<1> HIDE DEF past, rest
<1>6. past # <<>>
  BY <1>2, <1>4, LongIsNotEmpty
<1>7. /\ Tail(past) \in Seq(Nat) /\ Len(Tail(past)) = k
      /\ \A i \in 1..k : Tail(past)[i] = past[i + 1]
  BY <1>2, <1>4, <1>6, HeadTailProperties
<1>8. ASSUME NEW i \in 1..k PROVE rest[i] = Tail(past)[i]
  <2>1. i + 1 \in 1..k + 1 /\ i \in 1..Len(t)
    BY <1>1, <1>2
  <2> QED
    BY <1>1, <1>4, <1>5, <1>7, <2>1
<1>9. rest = Tail(past)
  BY <1>5, <1>7, <1>8, SeqEqual
<1>10. Final(rest, n) = Final(past, n)
  BY <1>2, <1>4, <1>5, <1>6, <1>9, FinalOfTail
<1>11. /\ Slope(t, n) = Total(Final(t, n)) - Total(Final(rest, n))
       /\ Slope(w, n) = Total(Final(w, n)) - Total(Final(past, n))
  BY <1>2 DEF Slope, past, rest
<1> QED
  BY <1>3, <1>10, <1>11 DEF t

LEMMA StageOfTail ==
    ASSUME NEW rows \in History, rows # <<>>, Len(Tail(rows)) >= Windows.d204, Stage(Tail(rows)) = 2
    PROVE  Stage(rows) = 2
<1> DEFINE rest == Tail(rows)
           u == WeeklyCloses(rest)
           w == WeeklyCloses(rows)
           most == Max({Windows.w30, Windows.w40})
<1>1. /\ Windows.d150 \in Nat \ {0} /\ Windows.d200 \in Nat \ {0} /\ Windows.d204 \in Nat
      /\ Windows.d150 <= Windows.d200 /\ Windows.d200 <= Windows.d204
      /\ Windows.w30 \in Nat /\ Windows.w40 \in Nat /\ Windows.lag \in Nat \ {0}
  BY RulesAssumption
<1>2. most \in Nat /\ Windows.w30 <= most /\ Windows.w40 <= most
  <2>1. \E x \in {Windows.w30, Windows.w40} : \A y \in {Windows.w30, Windows.w40} : x >= y
    BY <1>1
  <2>2. most \in {Windows.w30, Windows.w40} /\ \A y \in {Windows.w30, Windows.w40} : most >= y
    BY <2>1 DEF Max
  <2> QED
    BY <1>1, <2>2
<1>3. /\ rest \in History /\ Len(rest) = Len(rows) - 1 /\ Len(rows) \in Nat /\ Len(rest) \in Nat
      /\ Windows.d150 <= Len(rest) /\ Windows.d200 <= Len(rest) /\ Len(rows) >= 2
  BY <1>1, ColumnsOfTail, LenProperties DEF History
<1>4. /\ AboveMean(rest, Windows.d150) = AboveMean(rows, Windows.d150)
      /\ Total(Final(Closes(rest), Windows.d150)) = Total(Final(Closes(rows), Windows.d150))
      /\ Total(Final(Closes(rest), Windows.d200)) = Total(Final(Closes(rows), Windows.d200))
  BY <1>1, <1>3, WindowsOfTail
<1>5. w \in Seq(Nat) /\ (u = w \/ (w # <<>> /\ u = Tail(w)))
  BY <1>3, WeeklyOfTail
<1>6. /\ ~(Len(u) < most + Windows.lag) /\ Slope(u, Windows.w40) > 0
      /\ AboveMean(rest, Windows.d150) > 0
      /\ Windows.d200 * Total(Final(Closes(rest), Windows.d150))
           > Windows.d150 * Total(Final(Closes(rest), Windows.d200))
  BY DEF Stage
<1> HIDE DEF rest, u, w, most
<1>7. ~(Len(w) < most + Windows.lag) /\ Slope(w, Windows.w40) > 0
  <2>1. CASE u = w
    BY <1>6, <2>1
  <2>2. CASE w # <<>> /\ u = Tail(w)
    <3>1. u \in Seq(Nat) /\ Len(u) = Len(w) - 1 /\ Len(w) \in Nat
      BY <1>5, <2>2, HeadTailProperties, LenProperties
    <3>2. Windows.w40 + Windows.lag <= Len(u) /\ ~(Len(w) < most + Windows.lag)
      <4> DEFINE lag == Windows.lag
                 w40 == Windows.w40
      <4>1. /\ ~(Len(u) < most + lag) /\ lag \in Nat \ {0} /\ w40 \in Nat /\ most \in Nat /\ w40 <= most
            /\ Len(u) = Len(w) - 1 /\ Len(w) \in Nat
        BY <1>1, <1>2, <1>6, <3>1, Zenon
      <4> HIDE DEF lag, w40
      <4>2. w40 + lag <= Len(u) /\ ~(Len(w) < most + lag)
        BY <4>1
      <4> QED
        BY <4>2, Zenon DEF lag, w40
    <3>3. Slope(u, Windows.w40) = Slope(w, Windows.w40)
      BY <1>1, <1>5, <2>2, <3>2, SlopeOfTail
    <3> QED
      BY <1>6, <3>2, <3>3
  <2> QED
    BY <1>5, <2>1, <2>2
<1> QED
  BY <1>4, <1>6, <1>7 DEF Stage, rest, u, w, most

\* Every entry on what is left of a history is one on all of it.
LEMMA EntersOnLess ==
    ASSUME NEW rule, NEW rows \in History, NEW less, less \in {rows, <<>>} \/ (rows # <<>> /\ less = Tail(rows)),
           NEW scan, NEW seen \in {scan, NoScan}, NEW p \in Settings,
           Enters(rule, less, seen, p)
    PROVE  Enters(rule, rows, scan, p)
<1>1. less # <<>>
  BY NoRowsNoSignal
<1>2. /\ p.box \in Nat \ {0} /\ p.entry \in Nat \ {0} /\ p.breakout \in Nat \ {0}
      /\ Windows.d50 \in Nat \ {0} /\ Windows.d204 \in Nat
  BY AdviceAssumption, RulesAssumption
<1>3. BaseQualifies(less, seen, p) \/ TrendQualifies(less, seen, p) => seen = scan
  BY DEF BaseQualifies, TrendQualifies, NoScan
<1>4. CASE less = rows
  BY <1>3, <1>4 DEF Enters
<1>5. CASE rows # <<>> /\ less = Tail(rows)
  <2>1. Len(less) \in Nat /\ Len(less) = Len(rows) - 1 /\ Len(rows) \in Nat /\ Len(less) >= 1
    BY <1>1, <1>5, ColumnsOfTail, LenProperties, EmptySeq DEF History
  <2>2. Last(less) = Last(rows)
    <3>1. Len(rows) >= 2 /\ rows \in Seq(MarketRow)
      BY <2>1 DEF History
    <3>2. Last(Tail(rows)) = Last(rows)
      BY <3>1, LastOfTail
    <3> QED
      BY <1>5, <3>2
  <2>3. ASSUME BoxBreakout(less, p) PROVE BoxBreakout(rows, p)
    <3>1. p.box + 1 <= Len(less) /\ p.box + 1 <= Len(rows)
      BY <1>2, <2>1, <2>3 DEF BoxBreakout
    <3>2. /\ Preceding(less, p.box) = Preceding(rows, p.box)
          /\ Heavy(less, p.box, p.relativeVolume) = Heavy(rows, p.box, p.relativeVolume)
      BY <1>2, <1>5, <3>1, WindowsOfTail
    <3> QED
      BY <2>1, <2>2, <2>3, <3>1, <3>2, <1>2 DEF BoxBreakout
  <2>4. ASSUME ChannelBreakout(less, p) PROVE ChannelBreakout(rows, p)
    <3>1. p.entry + 1 <= Len(less) /\ p.entry + 1 <= Len(rows)
      BY <1>2, <2>1, <2>4 DEF ChannelBreakout
    <3>2. Preceding(less, p.entry) = Preceding(rows, p.entry)
      BY <1>2, <1>5, <3>1, WindowsOfTail
    <3> QED
      BY <2>1, <2>2, <2>4, <3>1, <3>2, <1>2 DEF ChannelBreakout
  <2>5. ASSUME Crossover(less, p) = 1 PROVE Crossover(rows, p) = 1
    BY <1>5, <2>5, CrossoverOfTail
  <2>6. ASSUME BaseQualifies(less, seen, p) PROVE BaseQualifies(rows, scan, p)
    <3>1. Windows.d50 + 1 <= Len(less) /\ Windows.d50 + 1 <= Len(rows)
      BY <1>2, <2>1, <2>6 DEF BaseQualifies
    <3>2. Heavy(less, Windows.d50, p.relativeVolume) = Heavy(rows, Windows.d50, p.relativeVolume)
      BY <1>2, <1>5, <3>1, WindowsOfTail
    <3> QED
      BY <1>2, <1>3, <2>1, <2>2, <2>6, <3>1, <3>2 DEF BaseQualifies
  <2>7. ASSUME TrendQualifies(less, seen, p) PROVE TrendQualifies(rows, scan, p)
    <3>1. /\ TrendWindow(p) <= Len(less) /\ TrendWindow(p) <= Len(rows)
          /\ Windows.d204 <= Len(less) /\ p.breakout + 1 <= Len(less) /\ Windows.d50 + 1 <= Len(less)
      <4>1. Len(less) >= TrendWindow(p)
        BY <2>7 DEF TrendQualifies
      <4>2. /\ TrendWindow(p) \in Nat /\ TrendWindow(p) >= Windows.d204
            /\ TrendWindow(p) >= p.breakout + 1 /\ TrendWindow(p) >= Windows.d50 + 1
        BY TrendWindowCovers
      <4> QED
        BY <1>2, <2>1, <4>1, <4>2
    <3>2. /\ Heavy(less, Windows.d50, p.relativeVolume) = Heavy(rows, Windows.d50, p.relativeVolume)
          /\ Preceding(less, p.breakout) = Preceding(rows, p.breakout)
      BY <1>2, <1>5, <3>1, WindowsOfTail
    <3>3. Stage(rows) = 2
      BY <1>5, <2>7, <3>1, StageOfTail DEF TrendQualifies
    <3>4. scan.stage = 2
      BY <1>3, <2>7 DEF TrendQualifies
    <3>5. TrendWindow(p) \in Nat /\ Len(rows) >= TrendWindow(p)
      BY <2>1, <3>1, TrendWindowCovers
    <3>6. Last(less).close > Highest(Preceding(less, p.breakout)) /\ Heavy(less, Windows.d50, p.relativeVolume)
      BY <2>7 DEF TrendQualifies
    <3> QED
      BY <2>2, <3>2, <3>3, <3>4, <3>5, <3>6 DEF TrendQualifies
  <2> QED
    BY <2>3, <2>4, <2>5, <2>6, <2>7 DEF Enters
<1> QED
  BY <1>1, <1>4, <1>5

-----------------------------------------------------------------------------
(* Split products.                                                          *)

Factor(splits, after, through, i) ==
    IF after < splits[i].session /\ splits[i].session <= through THEN splits[i].value ELSE 1

AreProducts(h, splits, after, through, n) ==
    h = [i \in 0..n |-> IF i = 0 THEN 1 ELSE h[i - 1] * Factor(splits, after, through, i)]

LEMMA ProductsExist ==
    ASSUME NEW splits, NEW after, NEW through, NEW last \in Nat
    PROVE  \E h : AreProducts(h, splits, after, through, last)
<1> DEFINE Has(n) == \E h : AreProducts(h, splits, after, through, n)
           N == {n \in Nat : ~Has(n)}
<1> SUFFICES ASSUME ~Has(last) PROVE FALSE
  OBVIOUS
<1>1. N \subseteq Nat /\ N # {}
  OBVIOUS
<1>2. PICK n \in N : \A m \in N : n <= m
  <2> HIDE DEF N
  <2> QED
    BY <1>1, Least
<1>3. n \in Nat /\ ~ \E h : AreProducts(h, splits, after, through, n)
  OBVIOUS
<1>4. n # 0
  <2> SUFFICES ASSUME n = 0 PROVE FALSE
    OBVIOUS
  <2> DEFINE h == [i \in 0..0 |-> 1]
  <2>1. AreProducts(h, splits, after, through, 0)
    BY DEF AreProducts
  <2> QED
    BY <1>3, <2>1
<1>5. PICK k : AreProducts(k, splits, after, through, n - 1)
  <2>1. n - 1 \in Nat /\ n - 1 < n
    BY <1>3, <1>4
  <2>2. n - 1 \notin N
    <3> HIDE DEF N
    <3> QED
      BY <1>1, <1>2, <2>1
  <2> QED
    BY <2>1, <2>2
<1> DEFINE h == [i \in 0..n |-> IF i = 0 THEN 1 ELSE k[i - 1] * Factor(splits, after, through, i)]
<1>6. ASSUME NEW i \in 0..n - 1 PROVE h[i] = k[i]
  <2>1. i \in 0..n /\ h[i] = IF i = 0 THEN 1 ELSE k[i - 1] * Factor(splits, after, through, i)
    BY <1>3, <1>6
  <2>2. k[i] = IF i = 0 THEN 1 ELSE k[i - 1] * Factor(splits, after, through, i)
    BY <1>5, <1>6 DEF AreProducts
  <2> QED
    BY <2>1, <2>2
<1>7. ASSUME NEW i \in 0..n, i # 0 PROVE h[i - 1] = k[i - 1]
  <2>1. i - 1 \in 0..n - 1
    BY <1>3, <1>7
  <2> HIDE DEF h
  <2> QED
    BY <1>6, <2>1
<1>8. AreProducts(h, splits, after, through, n)
  BY <1>7 DEF AreProducts
<1> QED
  BY <1>3, <1>8

\* The product of those of the first n splits that count.
Product(splits, after, through, n) == (CHOOSE h : AreProducts(h, splits, after, through, Len(splits)))[n]

LEMMA ProductUnfolds ==
    ASSUME NEW splits, Len(splits) \in Nat, NEW after, NEW through
    PROVE  /\ SplitProduct(splits, after, through) = Product(splits, after, through, Len(splits))
           /\ Product(splits, after, through, 0) = 1
           /\ \A n \in 1..Len(splits) : Product(splits, after, through, n) =
                Product(splits, after, through, n - 1) * Factor(splits, after, through, n)
<1> DEFINE f == CHOOSE h : AreProducts(h, splits, after, through, Len(splits))
<1>1. AreProducts(f, splits, after, through, Len(splits))
  BY ProductsExist
<1>2. /\ SplitProduct(splits, after, through) = f[Len(splits)]
      /\ \A n : Product(splits, after, through, n) = f[n]
  BY DEF SplitProduct, Product, AreProducts, Factor
<1> HIDE DEF f
<1>3. /\ f[0] = 1
      /\ \A n \in 1..Len(splits) : f[n] = f[n - 1] * Factor(splits, after, through, n)
  BY <1>1 DEF AreProducts
<1> QED
  BY <1>2, <1>3

\* Splits of a history: sessions are numbers, and factors positive ones.
SplitList(splits) ==
    /\ Len(splits) \in Nat
    /\ \A i \in 1..Len(splits) : splits[i].session \in Nat /\ splits[i].value \in Nat \ {0}

LEMMA ProductPositive ==
    ASSUME NEW splits, SplitList(splits), NEW after \in Int, NEW through \in Int, NEW n \in 0..Len(splits)
    PROVE  Product(splits, after, through, n) \in Nat \ {0}
<1> DEFINE Good(k) == Product(splits, after, through, k) \in Nat \ {0}
           N == {k \in Nat : k <= Len(splits) /\ ~Good(k)}
<1> SUFFICES ASSUME ~Good(n) PROVE FALSE
  OBVIOUS
<1>0. Len(splits) \in Nat
  BY DEF SplitList
<1>1. N \subseteq Nat /\ n \in N
  BY <1>0
<1>2. PICK k \in N : \A m \in N : k <= m
  <2> HIDE DEF N
  <2> QED
    BY <1>1, Least
<1>3. k \in 0..Len(splits) /\ ~Good(k)
  BY <1>0
<1>4. k # 0
  <2>1. Product(splits, after, through, 0) = 1
    BY <1>0, ProductUnfolds
  <2> QED
    BY <1>3, <2>1
<1>5. Good(k - 1)
  <2>1. k - 1 \notin N /\ k - 1 \in Nat /\ k - 1 <= Len(splits)
    <3> HIDE DEF N
    <3> QED
      BY <1>0, <1>1, <1>2, <1>3, <1>4
  <2> QED
    BY <2>1
<1>6. Product(splits, after, through, k) = Product(splits, after, through, k - 1) * Factor(splits, after, through, k)
  <2>1. k \in 1..Len(splits)
    BY <1>0, <1>3, <1>4
  <2> HIDE DEF Good, N
  <2> QED
    BY <1>0, <2>1, ProductUnfolds
<1>7. Factor(splits, after, through, k) \in Nat \ {0}
  BY <1>3, <1>4 DEF Factor, SplitList
<1> QED
  BY <1>3, <1>5, <1>6, <1>7

\* Splits up to a session, times those from there on.
LEMMA ProductSplits ==
    ASSUME NEW splits, SplitList(splits), NEW after \in Int, NEW middle \in Int, NEW through \in Int,
           after <= middle, middle <= through, NEW n \in 0..Len(splits)
    PROVE  Product(splits, after, through, n) =
             Product(splits, after, middle, n) * Product(splits, middle, through, n)
<1> DEFINE Good(k) == Product(splits, after, through, k) =
                        Product(splits, after, middle, k) * Product(splits, middle, through, k)
           N == {k \in Nat : k <= Len(splits) /\ ~Good(k)}
<1> SUFFICES ASSUME ~Good(n) PROVE FALSE
  OBVIOUS
<1>0. Len(splits) \in Nat
  BY DEF SplitList
<1>1. N \subseteq Nat /\ n \in N
  BY <1>0
<1>2. PICK k \in N : \A m \in N : k <= m
  <2> HIDE DEF N
  <2> QED
    BY <1>1, Least
<1>3. k \in 0..Len(splits) /\ ~Good(k)
  BY <1>0
<1>4. k # 0
  <2>1. /\ Product(splits, after, through, 0) = 1 /\ Product(splits, after, middle, 0) = 1
        /\ Product(splits, middle, through, 0) = 1
    BY <1>0, ProductUnfolds
  <2> QED
    BY <1>3, <2>1
<1>5. Good(k - 1)
  <2>1. k - 1 \notin N /\ k - 1 \in Nat /\ k - 1 <= Len(splits)
    <3> HIDE DEF N
    <3> QED
      BY <1>0, <1>1, <1>2, <1>3, <1>4
  <2> QED
    BY <2>1
<1> DEFINE a == Product(splits, after, middle, k - 1)
           b == Product(splits, middle, through, k - 1)
           x == Factor(splits, after, middle, k)
           y == Factor(splits, middle, through, k)
<1>6. k - 1 \in 0..Len(splits) /\ k \in 1..Len(splits)
  BY <1>0, <1>3, <1>4
<1>7. a \in Nat \ {0} /\ b \in Nat \ {0}
  BY <1>6, ProductPositive
<1>8. x \in Nat /\ y \in Nat /\ Factor(splits, after, through, k) = x * y
  <2>1. splits[k].session \in Nat /\ splits[k].value \in Nat
    BY <1>6 DEF SplitList
  <2> QED
    BY <2>1 DEF Factor
<1>9. /\ Product(splits, after, through, k) = (a * b) * (x * y)
      /\ Product(splits, after, middle, k) = a * x
      /\ Product(splits, middle, through, k) = b * y
  <2>1. \A from, to : Product(splits, from, to, k) = Product(splits, from, to, k - 1) * Factor(splits, from, to, k)
    BY <1>0, <1>6, ProductUnfolds, Zenon
  <2>2. Product(splits, after, through, k) = Product(splits, after, through, k - 1) * (x * y)
    BY <1>8, <2>1, Zenon
  <2> QED
    BY <1>5, <2>1, <2>2, Zenon
<1> HIDE DEF a, b, x, y
<1>10. (a * b) * (x * y) = (a * x) * (b * y)
  BY <1>7, <1>8
<1> QED
  BY <1>3, <1>9, <1>10

\* Splits that do not count may be gone.
LEMMA ProductOfFewer ==
    ASSUME NEW splits, SplitList(splits), NEW fewer, Len(fewer) \in 0..Len(splits),
           NEW after \in Int, NEW through \in Int,
           \A i \in 1..Len(fewer) : fewer[i] = splits[i],
           \A i \in Len(fewer) + 1..Len(splits) : Factor(splits, after, through, i) = 1
    PROVE  SplitProduct(splits, after, through) = SplitProduct(fewer, after, through)
<1> DEFINE least(k) == IF k <= Len(fewer) THEN k ELSE Len(fewer)
           Good(k) == Product(splits, after, through, k) = Product(fewer, after, through, least(k))
           N == {k \in Nat : k <= Len(splits) /\ ~Good(k)}
<1>0. Len(splits) \in Nat /\ Len(fewer) \in Nat
  BY DEF SplitList
<1>1. N = {}
  <2> SUFFICES ASSUME N # {} PROVE FALSE
    OBVIOUS
  <2>1. N \subseteq Nat
    OBVIOUS
  <2>2. PICK k \in N : \A m \in N : k <= m
    <3> HIDE DEF N
    <3> QED
      BY <2>1, Least
  <2>3. k \in 0..Len(splits) /\ ~Good(k)
    BY <1>0
  <2>4. k # 0
    <3>1. least(0) = 0
      BY <1>0
    <3> QED
      BY <1>0, <2>3, <3>1, ProductUnfolds
  <2>5. Good(k - 1)
    <3>1. k - 1 \notin N /\ k - 1 \in Nat /\ k - 1 <= Len(splits)
      <4> HIDE DEF N
      <4> QED
        BY <1>0, <2>1, <2>2, <2>3, <2>4
    <3> HIDE DEF Good
    <3> QED
      BY <3>1
  <2>6. Product(splits, after, through, k) = Product(splits, after, through, k - 1) * Factor(splits, after, through, k)
    <3>1. k \in 1..Len(splits)
      BY <1>0, <2>3, <2>4
    <3> HIDE DEF Good, N
    <3> QED
      BY <1>0, <3>1, ProductUnfolds
  <2>7. CASE k <= Len(fewer)
    <3>1. least(k) = k /\ least(k - 1) = k - 1 /\ k \in 1..Len(fewer)
      BY <1>0, <2>3, <2>4, <2>7
    <3>2. Product(fewer, after, through, k) = Product(fewer, after, through, k - 1) * Factor(fewer, after, through, k)
      BY <1>0, <3>1, ProductUnfolds
    <3>3. Factor(fewer, after, through, k) = Factor(splits, after, through, k)
      BY <3>1 DEF Factor
    <3> QED
      BY <2>3, <2>5, <2>6, <3>1, <3>2, <3>3
  <2>8. CASE ~(k <= Len(fewer))
    <3>1. least(k) = Len(fewer) /\ least(k - 1) = Len(fewer) /\ k \in Len(fewer) + 1..Len(splits)
          /\ k - 1 \in 0..Len(splits)
      BY <1>0, <2>3, <2>4, <2>8
    <3>2. Factor(splits, after, through, k) = 1
      BY <3>1
    <3>3. Product(splits, after, through, k - 1) \in Nat
      BY <3>1, ProductPositive
    <3> HIDE DEF least
    <3> QED
      BY <2>3, <2>5, <2>6, <3>1, <3>2, <3>3
  <2> QED
    BY <2>7, <2>8
<1>2. Good(Len(splits))
  <2>1. Len(splits) \notin N
    BY <1>1
  <2> HIDE DEF Good
  <2> QED
    BY <1>0, <2>1
<1>3. least(Len(splits)) = Len(fewer)
  BY <1>0
<1> QED
  BY <1>0, <1>2, <1>3, ProductUnfolds

-----------------------------------------------------------------------------
(* A day's history, out of what has traded.                                 *)

InOrder(rows) == \A i, j \in 1..Len(rows) : i < j => rows[i].session < rows[j].session

LEMMA ThroughIsPart ==
    ASSUME NEW rows \in History, InOrder(rows), NEW day \in Int
    PROVE  \E n \in 0..Len(rows) :
             /\ Through(rows, day) = SubSeq(rows, 1, n)
             /\ \A i \in 1..n : rows[i].session <= day
             /\ \A i \in n + 1..Len(rows) : rows[i].session > day
<1> DEFINE Cut(n) == /\ \A i \in 1..n : rows[i].session <= day
                     /\ n < Len(rows) => rows[n + 1].session > day
           N == {n \in 0..Len(rows) : n < Len(rows) => rows[n + 1].session > day}
<1>0. Len(rows) \in Nat /\ \A i \in 1..Len(rows) : rows[i].session \in Nat
  <2>1. Len(rows) \in Nat /\ \A i \in 1..Len(rows) : rows[i] \in MarketRow
    BY LenProperties, ElementOfSeq DEF History
  <2> QED
    BY <2>1 DEF MarketRow
<1>1. N \subseteq Nat /\ Len(rows) \in N
  BY <1>0
<1>2. PICK m \in N : \A k \in N : m <= k
  <2> HIDE DEF N
  <2> QED
    BY <1>1, Least
<1>3. m \in 0..Len(rows) /\ (m < Len(rows) => rows[m + 1].session > day)
  OBVIOUS
<1>4. ASSUME NEW i \in 1..m PROVE rows[i].session <= day
  <2>1. i - 1 \in 0..Len(rows) /\ i - 1 < Len(rows) /\ (i - 1) + 1 = i /\ i \in 1..Len(rows) /\ i - 1 < m
    BY <1>0, <1>3
  <2>2. i - 1 \notin N
    <3> HIDE DEF N
    <3> QED
      BY <1>0, <1>1, <1>2, <2>1
  <2>3. ~(rows[i].session > day)
    BY <2>1, <2>2
  <2> QED
    BY <1>0, <2>1, <2>3
<1>5. \E n \in 0..Len(rows) : Cut(n)
  BY <1>3, <1>4
<1> DEFINE n == CHOOSE k \in 0..Len(rows) : Cut(k)
<1>6. n \in 0..Len(rows) /\ Cut(n)
  BY <1>5
<1>7. Through(rows, day) = SubSeq(rows, 1, n)
  BY DEF Through
<1> HIDE DEF n
<1>8. ASSUME NEW i \in n + 1..Len(rows) PROVE rows[i].session > day
  <2>1. n + 1 \in 1..Len(rows) /\ rows[n + 1].session > day /\ i \in 1..Len(rows) /\ (i = n + 1 \/ n + 1 < i)
    BY <1>0, <1>6
  <2>2. n + 1 < i => rows[n + 1].session < rows[i].session
    BY <2>1 DEF InOrder
  <2> QED
    BY <1>0, <2>1, <2>2
<1> QED
  BY <1>6, <1>7, <1>8

\* One cut is where sessions pass the day.
LEMMA ThroughIs ==
    ASSUME NEW rows \in History, InOrder(rows), NEW day \in Int, NEW n \in 0..Len(rows),
           \A i \in 1..n : rows[i].session <= day,
           \A i \in n + 1..Len(rows) : rows[i].session > day
    PROVE  Through(rows, day) = SubSeq(rows, 1, n)
<1>0. Len(rows) \in Nat /\ \A i \in 1..Len(rows) : rows[i].session \in Nat
  <2>1. Len(rows) \in Nat /\ \A i \in 1..Len(rows) : rows[i] \in MarketRow
    BY LenProperties, ElementOfSeq DEF History
  <2> QED
    BY <2>1 DEF MarketRow
<1>1. PICK m \in 0..Len(rows) :
             /\ Through(rows, day) = SubSeq(rows, 1, m)
             /\ \A i \in 1..m : rows[i].session <= day
             /\ \A i \in m + 1..Len(rows) : rows[i].session > day
  BY ThroughIsPart
<1>2. ~(m < n)
  <2> SUFFICES ASSUME m < n PROVE FALSE
    OBVIOUS
  <2>1. m + 1 \in 1..n /\ m + 1 \in m + 1..Len(rows) /\ m + 1 \in 1..Len(rows)
    BY <1>0
  <2>2. rows[m + 1].session <= day /\ rows[m + 1].session > day /\ rows[m + 1].session \in Nat
    BY <1>0, <1>1, <2>1
  <2> QED
    BY <2>2
<1>3. ~(n < m)
  <2> SUFFICES ASSUME n < m PROVE FALSE
    OBVIOUS
  <2>1. n + 1 \in 1..m /\ n + 1 \in n + 1..Len(rows) /\ n + 1 \in 1..Len(rows)
    BY <1>0
  <2>2. rows[n + 1].session <= day /\ rows[n + 1].session > day /\ rows[n + 1].session \in Nat
    BY <1>0, <1>1, <2>1
  <2> QED
    BY <2>2
<1>4. m = n
  BY <1>0, <1>2, <1>3
<1> QED
  BY <1>1, <1>4

\* What is left of a history is one, in the same order.
LEMMA PartIsHistory ==
    ASSUME NEW rows \in History, InOrder(rows), NEW n \in 0..Len(rows)
    PROVE  /\ SubSeq(rows, 1, n) \in History /\ InOrder(SubSeq(rows, 1, n)) /\ Len(SubSeq(rows, 1, n)) = n
           /\ \A i \in 1..n : SubSeq(rows, 1, n)[i] = rows[i] /\ rows[i] \in MarketRow
<1> DEFINE part == SubSeq(rows, 1, n)
<1>1. Len(rows) \in Nat /\ \A i \in 1..Len(rows) : rows[i] \in MarketRow
  BY LenProperties, ElementOfSeq DEF History
<1>2. part \in History /\ Len(part) = n /\ \A i \in 1..n : part[i] = rows[i]
  BY InitialPart DEF History
<1> HIDE DEF part
<1>3. \A i \in 1..n : i \in 1..Len(rows)
  BY <1>1
<1>4. InOrder(part)
  BY <1>2, <1>3 DEF InOrder
<1> QED
  BY <1>1, <1>2, <1>3, <1>4 DEF part

\* Scaling: what becomes of the fields.
LEMMA ScaledRow ==
    ASSUME NEW row \in MarketRow, NEW up \in Nat \ {0}, NEW down \in Nat \ {0}, NEW share \in Nat
    PROVE  Scaled(row, up, down, share) =
             [session |-> row.session, high |-> (row.high * up) \div down,
              low |-> (row.low * up) \div down, close |-> (row.close * up) \div down,
              volume |-> row.volume * share, split |-> row.split]
<1> DEFINE new == Scaled(row, up, down, share)
           old == [session |-> row.session, high |-> (row.high * up) \div down,
                   low |-> (row.low * up) \div down, close |-> (row.close * up) \div down,
                   volume |-> row.volume * share, split |-> row.split]
           names == {"session", "high", "low", "close", "volume", "split"}
<1>1. DOMAIN row = names
  BY DEF MarketRow
<1>2. new = [x \in names |-> IF x = "high" THEN (row.high * up) \div down
                             ELSE IF x = "low" THEN (row.low * up) \div down
                             ELSE IF x = "close" THEN (row.close * up) \div down
                             ELSE IF x = "volume" THEN row.volume * share ELSE row[x]]
  BY <1>1 DEF Scaled
<1>3. old = [x \in names |-> IF x = "high" THEN (row.high * up) \div down
                             ELSE IF x = "low" THEN (row.low * up) \div down
                             ELSE IF x = "close" THEN (row.close * up) \div down
                             ELSE IF x = "volume" THEN row.volume * share ELSE row[x]]
  OBVIOUS
<1> QED
  BY <1>2, <1>3, Zenon

LEMMA ScaledIsRow ==
    ASSUME NEW row \in MarketRow, NEW up \in Nat \ {0}, NEW down \in Nat \ {0}, NEW share \in Nat
    PROVE  Scaled(row, up, down, share) \in MarketRow
<1>1. /\ row.session \in Nat /\ row.high \in Nat /\ row.low \in Nat /\ row.close \in Nat
      /\ row.volume \in Nat /\ row.split \in Nat \ {0}
  BY DEF MarketRow
<1>2. row.high * up \in Nat /\ row.low * up \in Nat /\ row.close * up \in Nat /\ row.volume * share \in Nat
  BY <1>1
<1>3. (row.high * up) \div down \in Nat /\ (row.low * up) \div down \in Nat /\ (row.close * up) \div down \in Nat
  BY <1>2
<1> QED
  BY <1>1, <1>2, <1>3, ScaledRow DEF MarketRow

LEMMA ScaledSession ==
    ASSUME NEW row \in MarketRow, NEW up \in Nat \ {0}, NEW down \in Nat \ {0}, NEW share \in Nat
    PROVE  Scaled(row, up, down, share).session = row.session
  BY ScaledRow

LEMMA UnscaledRow ==
    ASSUME NEW row \in MarketRow, NEW down \in Nat \ {0}, NEW share \in Nat
    PROVE  Scaled(row, 1, down, share) =
             [session |-> row.session, high |-> (row.high * 1) \div down,
              low |-> (row.low * 1) \div down, close |-> (row.close * 1) \div down,
              volume |-> row.volume * share, split |-> row.split]
<1> DEFINE one == 1
<1>1. one \in Nat \ {0}
  OBVIOUS
<1> HIDE DEF one
<1>2. Scaled(row, one, down, share) =
             [session |-> row.session, high |-> (row.high * one) \div down,
              low |-> (row.low * one) \div down, close |-> (row.close * one) \div down,
              volume |-> row.volume * share, split |-> row.split]
  BY <1>1, ScaledRow
<1> QED
  BY <1>2 DEF one

LEMMA UpscaledRow ==
    ASSUME NEW row \in MarketRow, NEW up \in Nat \ {0}
    PROVE  Scaled(row, up, 1, 1) =
             [session |-> row.session, high |-> (row.high * up) \div 1,
              low |-> (row.low * up) \div 1, close |-> (row.close * up) \div 1,
              volume |-> row.volume * 1, split |-> row.split]
<1> DEFINE one == 1
<1>1. one \in Nat \ {0} /\ one \in Nat
  OBVIOUS
<1> HIDE DEF one
<1>2. Scaled(row, up, one, one) =
             [session |-> row.session, high |-> (row.high * up) \div one,
              low |-> (row.low * up) \div one, close |-> (row.close * up) \div one,
              volume |-> row.volume * one, split |-> row.split]
  BY <1>1, ScaledRow
<1> QED
  BY <1>2 DEF one

LEMMA SplitsOfHistory ==
    ASSUME NEW rows \in History
    PROVE  /\ SplitList(SplitsOf(rows)) /\ Len(SplitsOf(rows)) = Len(rows) /\ Len(rows) \in Nat
           /\ \A i \in 1..Len(rows) : SplitsOf(rows)[i] = [session |-> rows[i].session, value |-> rows[i].split]
<1> DEFINE n == Len(rows)
           list == [i \in 1..n |-> [session |-> rows[i].session, value |-> rows[i].split]]
<1>1. n \in Nat /\ DOMAIN rows = 1..n /\ \A i \in 1..n : rows[i] \in MarketRow
  BY LenProperties, ElementOfSeq DEF History
<1>2. \A i \in 1..n : rows[i].session \in Nat /\ rows[i].split \in Nat \ {0}
  BY <1>1 DEF MarketRow
<1>3. SplitsOf(rows) = list
  BY <1>1 DEF SplitsOf
<1> HIDE DEF n
<1>4. Len(list) = n
  BY <1>1
<1>5. \A i \in 1..n : list[i] = [session |-> rows[i].session, value |-> rows[i].split]
  OBVIOUS
<1>6. \A i \in 1..n : list[i].session \in Nat /\ list[i].value \in Nat \ {0}
  BY <1>2, <1>5
<1> HIDE DEF list
<1> QED
  BY <1>1, <1>3, <1>4, <1>5, <1>6 DEF SplitList, n

\* Undoing what the provider did gives the rows as they traded.
LEMMA WholePrice ==
    ASSUME NEW price \in Nat, NEW units \in Nat \ {0}, price % units = 0
    PROVE  (((price * 1) \div units) * units) \div 1 = price
<1> DEFINE q == price \div units
<1>1. q \in Nat /\ price = q * units + (price % units)
  OBVIOUS
<1>2. price * 1 = price
  OBVIOUS
<1> HIDE DEF q
<1>3. q * units = price
  <2>1. q * units \in Nat
    BY <1>1
  <2> QED
    BY <1>1, <2>1
<1>4. price \div 1 = price
  OBVIOUS
<1> QED
  BY <1>2, <1>3, <1>4 DEF q

LEMMA AsTradedIsTraded ==
    ASSUME NEW rows \in History, StaysWhole(rows)
    PROVE  AsTraded(Captured(rows)) = rows /\ Captured(rows).splits = SplitsOf(rows)
<1> DEFINE n == Len(rows)
           U(i) == SplitProduct(SplitsOf(rows), rows[i].session, LastSession)
           native == [i \in DOMAIN rows |-> Scaled(rows[i], 1, U(i), 1)]
<1>1. n \in Nat /\ DOMAIN rows = 1..n /\ \A i \in 1..n : rows[i] \in MarketRow
  BY LenProperties, ElementOfSeq DEF History
<1>2. Captured(rows) = [splits |-> SplitsOf(rows), rows |-> native]
  BY DEF Captured
<1>3. ASSUME NEW i \in 1..n
      PROVE  /\ U(i) \in Nat \ {0}
             /\ native[i] \in MarketRow /\ native[i].session = rows[i].session
             /\ Scaled(native[i], U(i), 1, 1) = rows[i]
  <2>1. /\ rows[i] \in MarketRow /\ rows[i].session \in Nat /\ rows[i].high \in Nat
        /\ rows[i].low \in Nat /\ rows[i].close \in Nat /\ rows[i].volume \in Nat
        /\ rows[i] = [session |-> rows[i].session, high |-> rows[i].high, low |-> rows[i].low,
                      close |-> rows[i].close, volume |-> rows[i].volume, split |-> rows[i].split]
    BY <1>1 DEF MarketRow
  <2>2. U(i) \in Nat \ {0}
    <3>1. LastSession \in Int /\ rows[i].session \in Int /\ SplitList(SplitsOf(rows))
          /\ Len(SplitsOf(rows)) \in 0..Len(SplitsOf(rows)) /\ Len(SplitsOf(rows)) \in Nat
      BY <1>1, <2>1, SplitsOfHistory, AdviceAssumption
    <3> QED
      BY <3>1, ProductPositive, ProductUnfolds
  <2>3. rows[i].high % U(i) = 0 /\ rows[i].low % U(i) = 0 /\ rows[i].close % U(i) = 0
    BY <1>1 DEF StaysWhole
  <2>4. native[i] = Scaled(rows[i], 1, U(i), 1)
    BY <1>1
  <2> HIDE DEF native, U
  <2>0. 1 \in Nat \ {0} /\ 1 \in Nat /\ U(i) \in Nat
    BY <2>2
  <2>5. native[i] \in MarketRow
    BY <2>0, <2>1, <2>2, <2>4, ScaledIsRow, Zenon
  <2>6. native[i] = [session |-> rows[i].session, high |-> (rows[i].high * 1) \div U(i),
                     low |-> (rows[i].low * 1) \div U(i), close |-> (rows[i].close * 1) \div U(i),
                     volume |-> rows[i].volume * 1, split |-> rows[i].split]
    BY <2>0, <2>1, <2>2, <2>4, UnscaledRow
  <2>7. /\ native[i].session = rows[i].session /\ native[i].split = rows[i].split
        /\ native[i].high = (rows[i].high * 1) \div U(i) /\ native[i].low = (rows[i].low * 1) \div U(i)
        /\ native[i].close = (rows[i].close * 1) \div U(i) /\ native[i].volume = rows[i].volume * 1
    BY <2>6
  <2>8. Scaled(native[i], U(i), 1, 1) =
          [session |-> native[i].session, high |-> (native[i].high * U(i)) \div 1,
           low |-> (native[i].low * U(i)) \div 1, close |-> (native[i].close * U(i)) \div 1,
           volume |-> native[i].volume * 1, split |-> native[i].split]
    BY <2>2, <2>5, UpscaledRow
  <2>9. /\ (native[i].high * U(i)) \div 1 = rows[i].high
        /\ (native[i].low * U(i)) \div 1 = rows[i].low
        /\ (native[i].close * U(i)) \div 1 = rows[i].close
    BY <2>1, <2>2, <2>3, <2>7, WholePrice
  <2>10. native[i].volume * 1 = rows[i].volume
    BY <2>1, <2>7
  <2>11. Scaled(native[i], U(i), 1, 1) = rows[i]
    BY <2>1, <2>7, <2>8, <2>9, <2>10
  <2> QED
    BY <2>2, <2>5, <2>7, <2>11
<1>4. AsTraded(Captured(rows)) = [i \in 1..n |-> Scaled(native[i], U(i), 1, 1)]
  <2>1. AsTraded(Captured(rows)) =
          [i \in DOMAIN native |-> Scaled(native[i], SplitProduct(SplitsOf(rows), native[i].session, LastSession), 1, 1)]
    BY <1>2 DEF AsTraded
  <2>2. DOMAIN native = 1..n
    BY <1>1
  <2>3. \A i \in 1..n : SplitProduct(SplitsOf(rows), native[i].session, LastSession) = U(i)
    BY <1>3
  <2> HIDE DEF native, n
  <2> QED
    BY <2>1, <2>2, <2>3
<1>5. rows = [i \in 1..n |-> rows[i]]
  BY <1>1, LenProperties DEF History
<1>6. [i \in 1..n |-> Scaled(native[i], U(i), 1, 1)] = [i \in 1..n |-> rows[i]]
  <2> HIDE DEF native, n, U
  <2> QED
    BY <1>3
<1> HIDE DEF native, n, U
<1>7. AsTraded(Captured(rows)) = rows
  BY <1>4, <1>5, <1>6, Zenon
<1> QED
  BY <1>2, <1>7 DEF native, n, U

\* The rows of a day, in its units.
Plane(rows, day) ==
    LET held == Through(rows, day) IN
    [i \in DOMAIN held |->
        LET factor == SplitProduct(SplitsOf(rows), held[i].session, day) IN
        Scaled(held[i], 1, factor, factor)]

LEMMA ShownIsPlane ==
    ASSUME NEW rows \in History, StaysWhole(rows), NEW day
    PROVE  SplitContinuous(Captured(rows), day) = Plane(rows, day)
  BY AsTradedIsTraded DEF SplitContinuous, Plane

LEMMA PlaneIs ==
    ASSUME NEW rows \in History, InOrder(rows), NEW day \in Nat, NEW n \in 0..Len(rows),
           Through(rows, day) = SubSeq(rows, 1, n)
    PROVE  /\ Plane(rows, day) \in History /\ Len(Plane(rows, day)) = n /\ InOrder(Plane(rows, day))
           /\ \A i \in 1..n :
                LET factor == SplitProduct(SplitsOf(rows), rows[i].session, day) IN
                /\ factor \in Nat \ {0} /\ rows[i] \in MarketRow
                /\ Plane(rows, day)[i] = Scaled(rows[i], 1, factor, factor)
                /\ Plane(rows, day)[i].session = rows[i].session
                /\ Plane(rows, day)[i].close = (rows[i].close * 1) \div factor
<1> DEFINE held == Through(rows, day)
           F(i) == SplitProduct(SplitsOf(rows), rows[i].session, day)
           plane == [i \in 1..n |-> Scaled(rows[i], 1, F(i), F(i))]
<1>1. /\ n \in Nat /\ held \in History /\ Len(held) = n /\ DOMAIN held = 1..n
      /\ \A i \in 1..n : held[i] = rows[i] /\ rows[i] \in MarketRow
  BY PartIsHistory, LenProperties DEF History
<1>2. ASSUME NEW i \in 1..n
      PROVE  /\ F(i) \in Nat \ {0} /\ Scaled(rows[i], 1, F(i), F(i)) \in MarketRow
             /\ Scaled(rows[i], 1, F(i), F(i)).session = rows[i].session
             /\ Scaled(rows[i], 1, F(i), F(i)).close = (rows[i].close * 1) \div F(i)
  <2>1. rows[i] \in MarketRow /\ rows[i].session \in Int
    BY <1>1 DEF MarketRow
  <2>2. F(i) \in Nat \ {0}
    <3>1. /\ SplitList(SplitsOf(rows)) /\ day \in Int
          /\ Len(SplitsOf(rows)) \in 0..Len(SplitsOf(rows)) /\ Len(SplitsOf(rows)) \in Nat
      BY <1>1, SplitsOfHistory
    <3> QED
      BY <2>1, <3>1, ProductPositive, ProductUnfolds
  <2> HIDE DEF F
  <2>0. 1 \in Nat \ {0} /\ F(i) \in Nat
    BY <2>2
  <2>3. Scaled(rows[i], 1, F(i), F(i)) \in MarketRow
    BY <2>0, <2>1, <2>2, ScaledIsRow, Zenon
  <2>4. Scaled(rows[i], 1, F(i), F(i)) =
             [session |-> rows[i].session, high |-> (rows[i].high * 1) \div F(i),
              low |-> (rows[i].low * 1) \div F(i), close |-> (rows[i].close * 1) \div F(i),
              volume |-> rows[i].volume * F(i), split |-> rows[i].split]
    BY <2>0, <2>1, <2>2, UnscaledRow
  <2> QED
    BY <2>2, <2>3, <2>4
<1>3. Plane(rows, day) = plane
  <2>1. Plane(rows, day) = [i \in 1..n |-> Scaled(held[i], 1, SplitProduct(SplitsOf(rows), held[i].session, day),
                                                  SplitProduct(SplitsOf(rows), held[i].session, day))]
    BY <1>1 DEF Plane
  <2> QED
    BY <1>1, <2>1
<1>4. \A i \in 1..n : Scaled(rows[i], 1, F(i), F(i)) \in MarketRow
  BY <1>2
<1> HIDE DEF held, F
<1>5. plane \in History /\ Len(plane) = n
  BY <1>1, <1>4 DEF History
<1>6. \A i \in 1..n : plane[i] = Scaled(rows[i], 1, F(i), F(i)) /\ plane[i].session = rows[i].session
  BY <1>2
<1>7. InOrder(plane)
  <2>1. \A i \in 1..n : i \in 1..Len(rows)
    BY <1>1, LenProperties DEF History
  <2> HIDE DEF plane
  <2> QED
    BY <1>5, <1>6, <2>1 DEF InOrder
<1> HIDE DEF plane
<1> QED
  BY <1>1, <1>2, <1>3, <1>5, <1>6, <1>7 DEF F

LEMMA PlaneShape ==
    ASSUME NEW rows \in History, InOrder(rows), NEW day \in Nat, NEW n \in 0..Len(rows),
           Through(rows, day) = SubSeq(rows, 1, n)
    PROVE  Plane(rows, day) \in History /\ Len(Plane(rows, day)) = n /\ InOrder(Plane(rows, day))
  BY PlaneIs, Zenon

LEMMA PlaneRow ==
    ASSUME NEW rows \in History, InOrder(rows), NEW day \in Nat, NEW n \in 0..Len(rows),
           Through(rows, day) = SubSeq(rows, 1, n), NEW i \in 1..n
    PROVE  Plane(rows, day)[i] = Scaled(rows[i], 1, SplitProduct(SplitsOf(rows), rows[i].session, day),
                                        SplitProduct(SplitsOf(rows), rows[i].session, day))
  BY PlaneIs, Zenon

LEMMA PlaneCloses ==
    ASSUME NEW rows \in History, InOrder(rows), NEW day \in Nat, NEW n \in 0..Len(rows),
           Through(rows, day) = SubSeq(rows, 1, n), NEW i \in 1..n
    PROVE  /\ Plane(rows, day)[i].session = rows[i].session
           /\ Plane(rows, day)[i].close = (rows[i].close * 1) \div SplitProduct(SplitsOf(rows), rows[i].session, day)
  BY PlaneIs, Zenon

\* What trades later does not move the history of a day.
LEMMA PlaneOfMore ==
    ASSUME NEW rows \in History, InOrder(rows), NEW more \in History, InOrder(more), NEW day \in Nat,
           Len(rows) <= Len(more),
           \A i \in 1..Len(rows) : more[i] = rows[i],
           \A i \in Len(rows) + 1..Len(more) : more[i].session > day
    PROVE  Through(more, day) = Through(rows, day) /\ Plane(more, day) = Plane(rows, day)
<1>1. /\ Len(rows) \in Nat /\ Len(more) \in Nat
      /\ \A i \in 1..Len(rows) : rows[i] \in MarketRow /\ rows[i].session \in Nat
  <2>1. Len(rows) \in Nat /\ Len(more) \in Nat /\ \A i \in 1..Len(rows) : rows[i] \in MarketRow
    BY LenProperties, ElementOfSeq DEF History
  <2> QED
    BY <2>1 DEF MarketRow
<1>2. PICK n \in 0..Len(rows) :
        /\ Through(rows, day) = SubSeq(rows, 1, n)
        /\ \A i \in 1..n : rows[i].session <= day
        /\ \A i \in n + 1..Len(rows) : rows[i].session > day
  <2>1. day \in Int
    OBVIOUS
  <2> QED
    BY <2>1, ThroughIsPart
<1>3. Through(more, day) = SubSeq(more, 1, n)
  <2>1. n \in 0..Len(more) /\ \A i \in 1..n : more[i].session <= day
    <3>1. \A i \in 1..n : i \in 1..Len(rows)
      BY <1>1
    <3> QED
      BY <1>1, <1>2, <3>1
  <2>2. ASSUME NEW i \in n + 1..Len(more) PROVE more[i].session > day
    <3>1. (i \in n + 1..Len(rows) /\ i \in 1..Len(rows)) \/ i \in Len(rows) + 1..Len(more)
      BY <1>1
    <3> QED
      BY <1>2, <3>1
  <2>3. \A i \in n + 1..Len(more) : more[i].session > day
    BY <2>2
  <2>4. day \in Int
    OBVIOUS
  <2> QED
    BY <2>1, <2>3, <2>4, ThroughIs, Zenon
<1>4. n \in 0..Len(more)
  BY <1>1
<1>5. /\ SubSeq(rows, 1, n) \in History /\ SubSeq(more, 1, n) \in History
      /\ Len(SubSeq(rows, 1, n)) = n /\ Len(SubSeq(more, 1, n)) = n
      /\ \A i \in 1..n : SubSeq(rows, 1, n)[i] = rows[i]
      /\ \A i \in 1..n : SubSeq(more, 1, n)[i] = more[i]
  BY <1>4, PartIsHistory
<1>6. \A i \in 1..n : i \in 1..Len(rows)
  BY <1>1
<1>7. SubSeq(more, 1, n) = SubSeq(rows, 1, n)
  <2>1. \A i \in 1..n : SubSeq(more, 1, n)[i] = SubSeq(rows, 1, n)[i]
    BY <1>5, <1>6
  <2> QED
    BY <1>5, <2>1, SeqEqual DEF History
<1>8. ASSUME NEW i \in 1..n
      PROVE  SplitProduct(SplitsOf(more), more[i].session, day) = SplitProduct(SplitsOf(rows), rows[i].session, day)
  <2> DEFINE splits == SplitsOf(more)
             fewer == SplitsOf(rows)
             after == rows[i].session
  <2>1. /\ SplitList(splits) /\ Len(splits) = Len(more) /\ Len(fewer) = Len(rows)
        /\ \A k \in 1..Len(more) : splits[k] = [session |-> more[k].session, value |-> more[k].split]
        /\ \A k \in 1..Len(rows) : fewer[k] = [session |-> rows[k].session, value |-> rows[k].split]
    BY SplitsOfHistory
  <2>2. more[i] = rows[i] /\ after \in Int /\ day \in Int
    BY <1>1, <1>6
  <2> HIDE DEF splits, fewer, after
  <2>3. \A k \in 1..Len(fewer) : fewer[k] = splits[k]
    <3>1. \A k \in 1..Len(rows) : k \in 1..Len(more)
      BY <1>1
    <3> QED
      BY <2>1, <3>1
  <2>4. ASSUME NEW k \in Len(fewer) + 1..Len(splits) PROVE Factor(splits, after, day, k) = 1
    <3>1. k \in 1..Len(more) /\ more[k].session > day
      BY <1>1, <2>1
    <3>2. splits[k] = [session |-> more[k].session, value |-> more[k].split]
      BY <2>1, <3>1
    <3>3. splits[k].session = more[k].session
      BY <3>2
    <3>4. more[k] \in MarketRow
      BY <3>1, ElementOfSeq DEF History
    <3>5. more[k].session \in Nat
      BY <3>4 DEF MarketRow
    <3>6. ~(splits[k].session <= day)
      BY <3>1, <3>3, <3>5
    <3> QED
      BY <3>6 DEF Factor
  <2>5. Len(fewer) \in 0..Len(splits)
    BY <1>1, <2>1
  <2>6. SplitProduct(splits, after, day) = SplitProduct(fewer, after, day)
    BY <2>1, <2>2, <2>3, <2>4, <2>5, ProductOfFewer
  <2> QED
    BY <2>2, <2>6 DEF splits, fewer, after
<1>9. /\ Plane(rows, day) \in History /\ Len(Plane(rows, day)) = n
      /\ Plane(more, day) \in History /\ Len(Plane(more, day)) = n
  BY <1>2, <1>3, <1>4, PlaneIs
<1>10. ASSUME NEW i \in 1..n PROVE Plane(more, day)[i] = Plane(rows, day)[i]
  <2> DEFINE factor == SplitProduct(SplitsOf(rows), rows[i].session, day)
             other == SplitProduct(SplitsOf(more), more[i].session, day)
  <2>1. Plane(rows, day)[i] = Scaled(rows[i], 1, factor, factor)
    BY <1>2, PlaneRow, Zenon
  <2>2. Plane(more, day)[i] = Scaled(more[i], 1, other, other)
    BY <1>3, <1>4, PlaneRow, Zenon
  <2>3. other = factor /\ more[i] = rows[i]
    BY <1>6, <1>8
  <2> HIDE DEF factor, other
  <2> QED
    BY <2>1, <2>2, <2>3
<1> QED
  BY <1>2, <1>3, <1>7, <1>9, <1>10, SeqEqual DEF History

-----------------------------------------------------------------------------
(* The market: what was shown of a day is what it still is.                 *)

BarsInOrder ==
    /\ bars \in [Stocks -> History]
    /\ \A s \in Stocks : InOrder(bars[s]) /\ \A i \in 1..Len(bars[s]) : bars[s][i].session <= session

CutsWhole == \A s \in Stocks, day \in Nat : StaysWhole(Through(bars[s], day))

DaysShown ==
    /\ shown \in Seq([Stocks -> History]) /\ Len(shown) = session
    /\ \A day \in 1..session : shown[day] = [s \in Stocks |-> Plane(bars[s], day)]

AdviceInv == session \in 0..LastSession /\ BarsInOrder /\ CutsWhole /\ DaysShown

\* All that has traded, on a day that has it all.
LEMMA ThroughAll ==
    ASSUME NEW rows \in History, InOrder(rows), NEW day \in Nat, \A i \in 1..Len(rows) : rows[i].session <= day
    PROVE  Through(rows, day) = rows
<1>1. Len(rows) \in Nat
  BY LenProperties DEF History
<1>2. Len(rows) \in 0..Len(rows) /\ \A i \in Len(rows) + 1..Len(rows) : rows[i].session > day
  BY <1>1
<1>3. Through(rows, day) = SubSeq(rows, 1, Len(rows))
  <2>1. day \in Int
    OBVIOUS
  <2>2. Len(rows) \in 0..Len(rows) /\ \A i \in 1..Len(rows) : rows[i].session <= day
    BY <1>1
  <2> QED
    BY <1>2, <2>1, <2>2, ThroughIs, Zenon
<1> QED
  BY <1>3, SubSeqFull DEF History

LEMMA RowAppended ==
    ASSUME NEW rows \in History, InOrder(rows), NEW row \in MarketRow,
           \A i \in 1..Len(rows) : rows[i].session < row.session
    PROVE  /\ Append(rows, row) \in History /\ InOrder(Append(rows, row))
           /\ Len(Append(rows, row)) = Len(rows) + 1 /\ Len(rows) \in Nat
           /\ \A i \in 1..Len(rows) : Append(rows, row)[i] = rows[i]
           /\ Append(rows, row)[Len(rows) + 1] = row
<1> DEFINE more == Append(rows, row)
<1>1. /\ more \in History /\ Len(more) = Len(rows) + 1 /\ Len(rows) \in Nat
      /\ \A i \in 1..Len(rows) : more[i] = rows[i]
      /\ more[Len(rows) + 1] = row
  BY AppendProperties, LenProperties DEF History
<1> HIDE DEF more
<1>2. ASSUME NEW i \in 1..Len(more), NEW j \in 1..Len(more), i < j
      PROVE  more[i].session < more[j].session
  <2>1. i \in 1..Len(rows) /\ (j \in 1..Len(rows) \/ j = Len(rows) + 1)
    BY <1>1, <1>2
  <2> QED
    BY <1>1, <1>2, <2>1 DEF InOrder
<1> QED
  BY <1>1, <1>2 DEF InOrder, more

LEMMA TradingDayStep ==
    ASSUME AdviceInv, TradingDay
    PROVE  AdviceInv'
<1>1. /\ session \in Nat /\ session' = session + 1
      /\ bars \in [Stocks -> History]
      /\ \A s \in Stocks : InOrder(bars[s]) /\ \A i \in 1..Len(bars[s]) : bars[s][i].session <= session
  BY DEF AdviceInv, BarsInOrder, TradingDay
<1>2. PICK bar \in [Stocks -> UNION {Bars[s] : s \in Stocks} \cup {<<>>}] :
        /\ \A s \in Stocks : bar[s] \in Bars[s]
        /\ bars' = [s \in Stocks |->
             IF bar[s] = <<>> THEN bars[s] ELSE Append(bars[s], RowOf(session', bar[s]))]
  BY DEF TradingDay
<1>3. ASSUME NEW s \in Stocks
      PROVE  /\ bars[s] \in History /\ bars'[s] \in History /\ InOrder(bars[s]) /\ InOrder(bars'[s])
             /\ Len(bars[s]) \in Nat /\ Len(bars'[s]) \in Nat /\ Len(bars[s]) <= Len(bars'[s])
             /\ \A i \in 1..Len(bars[s]) : bars'[s][i] = bars[s][i]
             /\ \A i \in Len(bars[s]) + 1..Len(bars'[s]) : bars'[s][i].session = session'
             /\ \A i \in 1..Len(bars'[s]) : bars'[s][i].session <= session'
  <2>1. bars[s] \in History /\ Len(bars[s]) \in Nat /\ InOrder(bars[s])
        /\ \A i \in 1..Len(bars[s]) : bars[s][i].session \in Nat /\ bars[s][i].session <= session
    <3>1. bars[s] \in History /\ Len(bars[s]) \in Nat /\ InOrder(bars[s])
          /\ \A i \in 1..Len(bars[s]) : bars[s][i] \in MarketRow /\ bars[s][i].session <= session
      BY <1>1, LenProperties, ElementOfSeq DEF History
    <3> QED
      BY <3>1 DEF MarketRow
  <2>2. CASE bar[s] = <<>>
    <3>1. bars'[s] = bars[s]
      BY <1>2, <2>2
    <3>2. \A i \in Len(bars[s]) + 1..Len(bars[s]) : FALSE
      BY <2>1
    <3>3. \A i \in 1..Len(bars[s]) : bars[s][i].session <= session'
      BY <1>1, <2>1
    <3> QED
      BY <2>1, <3>1, <3>2, <3>3
  <2>3. CASE bar[s] # <<>>
    <3> DEFINE row == RowOf(session', bar[s])
    <3>1. bars'[s] = Append(bars[s], row)
      BY <1>2, <2>3
    <3>2. row \in MarketRow /\ row.session = session'
      <4>1. bar[s] \in [high : Nat \ {0}, low : Nat \ {0}, close : Nat \ {0}, volume : Nat, split : Nat \ {0}]
        BY <1>2, <2>3, AdviceAssumption
      <4> QED
        BY <1>1, <4>1 DEF RowOf, MarketRow
    <3> HIDE DEF row
    <3>3. \A i \in 1..Len(bars[s]) : bars[s][i].session < row.session
      BY <1>1, <2>1, <3>2
    <3>4. /\ bars'[s] \in History /\ InOrder(bars'[s])
          /\ Len(bars'[s]) = Len(bars[s]) + 1
          /\ \A i \in 1..Len(bars[s]) : bars'[s][i] = bars[s][i]
          /\ bars'[s][Len(bars[s]) + 1] = row
      BY <2>1, <3>1, <3>2, <3>3, RowAppended
    <3>5. ASSUME NEW i \in 1..Len(bars'[s]) PROVE bars'[s][i].session <= session'
      <4>1. i \in 1..Len(bars[s]) \/ i = Len(bars[s]) + 1
        BY <2>1, <3>4
      <4>2. session' \in Nat /\ session <= session'
        BY <1>1
      <4> QED
        BY <1>1, <2>1, <3>2, <3>4, <4>1, <4>2
    <3>6. \A i \in Len(bars[s]) + 1..Len(bars'[s]) : i = Len(bars[s]) + 1
      BY <2>1, <3>4
    <3> QED
      BY <2>1, <3>2, <3>4, <3>5, <3>6
  <2> QED
    BY <2>2, <2>3
<1>4. ASSUME NEW s \in Stocks, NEW day \in Nat, day <= session
      PROVE  Through(bars'[s], day) = Through(bars[s], day) /\ Plane(bars'[s], day) = Plane(bars[s], day)
  <2>1. \A i \in Len(bars[s]) + 1..Len(bars'[s]) : bars'[s][i].session > day
    BY <1>1, <1>3, <1>4
  <2> QED
    BY <1>3, <2>1, PlaneOfMore
<1>5. ASSUME NEW s \in Stocks PROVE StaysWhole(bars'[s])
  BY DEF TradingDay
<1>6. BarsInOrder'
  <2>1. bars' \in [Stocks -> History]
    BY <1>2, <1>3
  <2> QED
    BY <1>3, <2>1 DEF BarsInOrder
<1>7. CutsWhole'
  <2> SUFFICES ASSUME NEW s \in Stocks, NEW day \in Nat PROVE StaysWhole(Through(bars'[s], day))
    BY DEF CutsWhole, StaysWhole
  <2>1. CASE day <= session
    <3>1. StaysWhole(Through(bars[s], day))
      BY DEF AdviceInv, CutsWhole
    <3> QED
      BY <1>4, <2>1, <3>1
  <2>2. CASE ~(day <= session)
    <3>1. session' <= day /\ session' \in Nat
      BY <1>1, <2>2
    <3>2. \A i \in 1..Len(bars'[s]) : bars'[s][i].session \in Nat /\ bars'[s][i].session <= session'
      <4>1. \A i \in 1..Len(bars'[s]) : bars'[s][i] \in MarketRow
        BY <1>3, ElementOfSeq DEF History
      <4> QED
        BY <1>3, <4>1 DEF MarketRow
    <3>3. \A i \in 1..Len(bars'[s]) : bars'[s][i].session <= day
      BY <3>1, <3>2
    <3>4. Through(bars'[s], day) = bars'[s]
      BY <1>3, <3>3, ThroughAll
    <3> QED
      BY <1>5, <3>4
  <2> QED
    BY <2>1, <2>2
<1>8. DaysShown'
  <2> DEFINE now == PriceHistories(bars', session')
  <2>1. /\ shown \in Seq([Stocks -> History]) /\ Len(shown) = session
        /\ \A day \in 1..session : shown[day] = [s \in Stocks |-> Plane(bars[s], day)]
        /\ shown' = Append(shown, now)
    BY DEF AdviceInv, DaysShown, TradingDay
  <2>2. now = [s \in Stocks |-> Plane(bars'[s], session')]
    <3>1. \A s \in Stocks : SplitContinuous(Captured(bars'[s]), session') = Plane(bars'[s], session')
      BY <1>3, <1>5, ShownIsPlane
    <3> QED
      BY <3>1 DEF PriceHistories
  <2>3. now \in [Stocks -> History]
    <3>1. ASSUME NEW s \in Stocks PROVE Plane(bars'[s], session') \in History
      <4>1. session' \in Nat /\ session' \in Int
        BY <1>1
      <4>2. PICK n \in 0..Len(bars'[s]) : Through(bars'[s], session') = SubSeq(bars'[s], 1, n)
        BY <1>3, <4>1, ThroughIsPart
      <4> QED
        BY <1>3, <4>1, <4>2, PlaneIs
    <3> QED
      BY <2>2, <3>1
  <2> HIDE DEF now
  <2>4. /\ shown' \in Seq([Stocks -> History]) /\ Len(shown') = session'
        /\ \A day \in 1..session : shown'[day] = shown[day]
        /\ shown'[session'] = now
    BY <1>1, <2>1, <2>3, AppendProperties
  <2>5. ASSUME NEW day \in 1..session' PROVE shown'[day] = [s \in Stocks |-> Plane(bars'[s], day)]
    <3>1. CASE day = session'
      BY <2>2, <2>4, <3>1
    <3>2. CASE day # session'
      <4>1. day \in 1..session /\ day \in Nat /\ day <= session
        BY <1>1, <3>2
      <4>2. \A s \in Stocks : Plane(bars'[s], day) = Plane(bars[s], day)
        BY <1>4, <4>1
      <4> QED
        BY <2>1, <2>4, <4>1, <4>2
    <3> QED
      BY <3>1, <3>2
  <2>6. DaysShown' = (/\ shown' \in Seq([Stocks -> History]) /\ Len(shown') = session'
                      /\ \A day \in 1..session' : shown'[day] = [s \in Stocks |-> Plane(bars'[s], day)])
    BY DEF DaysShown, Plane, Through, SplitProduct, SplitsOf, Scaled
  <2> QED
    BY <2>4, <2>5, <2>6
<1>9. session' \in 0..LastSession
  <2>1. session \in 0..LastSession /\ session < LastSession
    BY DEF AdviceInv, TradingDay
  <2> QED
    BY <1>1, <2>1, AdviceAssumption
<1> QED
  BY <1>6, <1>7, <1>8, <1>9 DEF AdviceInv

LEMMA AdviceInvStep ==
    ASSUME AdviceInv, [AdviceNext]_advice
    PROVE  AdviceInv'
<1>1. CASE TradingDay
  BY <1>1, TradingDayStep
<1>2. CASE UNCHANGED <<session, bars, shown>>
  BY <1>2 DEF AdviceInv, BarsInOrder, CutsWhole, DaysShown
<1>3. CommitMonth => UNCHANGED <<session, bars, shown>>
  BY DEF CommitMonth
<1>4. UNCHANGED advice => UNCHANGED <<session, bars, shown>>
  BY DEF advice
<1> QED
  BY <1>1, <1>2, <1>3, <1>4 DEF AdviceNext

LEMMA AdviceInvInit ==
    ASSUME AdviceInit
    PROVE  AdviceInv
<1>1. session = 0 /\ bars = [s \in Stocks |-> <<>>] /\ shown = <<>>
  BY DEF AdviceInit
<1>2. <<>> \in History /\ InOrder(<<>>) /\ Len(<<>>) = 0
  BY DEF History, InOrder
<1>3. BarsInOrder
  BY <1>1, <1>2 DEF BarsInOrder
<1>4. CutsWhole
  <2> SUFFICES ASSUME NEW s \in Stocks, NEW day \in Nat PROVE StaysWhole(Through(bars[s], day))
    BY DEF CutsWhole
  <2>1. bars[s] = <<>> /\ \A i \in 1..Len(<<>>) : <<>>[i].session <= day
    BY <1>1
  <2>2. Through(bars[s], day) = <<>>
    BY <1>2, <2>1, ThroughAll
  <2>3. DOMAIN <<>> = {}
    OBVIOUS
  <2> QED
    BY <2>2, <2>3 DEF StaysWhole
<1>5. DaysShown
  <2>1. <<>> \in Seq([Stocks -> History])
    OBVIOUS
  <2> QED
    BY <1>1, <1>2, <2>1 DEF DaysShown
<1> QED
  BY <1>1, <1>3, <1>4, <1>5, AdviceAssumption DEF AdviceInv

LEMMA AdviceInvariant == AdviceSpec => []AdviceInv
<1>1. AdviceInit => AdviceInv
  BY AdviceInvInit
<1>2. AdviceInv /\ [AdviceNext]_advice => AdviceInv'
  BY AdviceInvStep
<1> QED
  BY <1>1, <1>2, PTL DEF AdviceSpec

\* What is shown of a day: histories in order, of sessions up to it.
LEMMA ShownIsHistory ==
    ASSUME AdviceInv, NEW day \in 1..session, NEW s \in Stocks
    PROVE  /\ shown[day][s] = Plane(bars[s], day)
           /\ shown[day][s] \in History /\ InOrder(shown[day][s])
           /\ \A i \in 1..Len(shown[day][s]) : shown[day][s][i].session <= day
<1>1. /\ session \in Nat /\ day \in Nat /\ day \in Int
      /\ bars[s] \in History /\ InOrder(bars[s])
      /\ shown[day] = [t \in Stocks |-> Plane(bars[t], day)]
  BY DEF AdviceInv, BarsInOrder, DaysShown
<1>2. PICK n \in 0..Len(bars[s]) :
        /\ Through(bars[s], day) = SubSeq(bars[s], 1, n)
        /\ \A i \in 1..n : bars[s][i].session <= day
  BY <1>1, ThroughIsPart
<1>3. /\ Plane(bars[s], day) \in History /\ InOrder(Plane(bars[s], day)) /\ Len(Plane(bars[s], day)) = n
      /\ \A i \in 1..n : Plane(bars[s], day)[i].session = bars[s][i].session
  <2>1. Plane(bars[s], day) \in History /\ InOrder(Plane(bars[s], day)) /\ Len(Plane(bars[s], day)) = n
    BY <1>1, <1>2, PlaneShape, Zenon
  <2>2. ASSUME NEW i \in 1..n PROVE Plane(bars[s], day)[i].session = bars[s][i].session
    BY <1>1, <1>2, PlaneCloses, Zenon
  <2> QED
    BY <2>1, <2>2
<1> QED
  BY <1>1, <1>2, <1>3

-----------------------------------------------------------------------------
(* Missing evidence.                                                        *)

\* The rows of a security that traded on the day, of a history.
OnDay(rows, day) == IF rows # <<>> /\ Last(rows).session = day THEN rows ELSE <<>>

LEMMA OnDayOfTail ==
    ASSUME NEW rows \in History, rows # <<>>, NEW day
    PROVE  \/ OnDay(Tail(rows), day) = <<>>
           \/ OnDay(rows, day) # <<>> /\ OnDay(Tail(rows), day) = Tail(OnDay(rows, day))
<1>1. CASE Tail(rows) = <<>>
  BY <1>1 DEF OnDay
<1>2. CASE Tail(rows) # <<>>
  <2>1. Len(Tail(rows)) = Len(rows) - 1 /\ Tail(rows) \in Seq(MarketRow) /\ Len(rows) \in Nat
        /\ rows \in Seq(MarketRow)
    BY ColumnsOfTail, LenProperties DEF History
  <2>2. Len(rows) >= 2
    BY <1>2, <2>1, EmptySeq
  <2>3. Last(Tail(rows)) = Last(rows)
    BY <2>1, <2>2, LastOfTail
  <2> QED
    BY <2>3 DEF OnDay
<1> QED
  BY <1>1, <1>2

LEMMA OnDayOfFront ==
    ASSUME NEW rows \in History, rows # <<>>, InOrder(rows), NEW day \in Nat,
           \A i \in 1..Len(rows) : rows[i].session <= day
    PROVE  OnDay(Front(rows), day) = <<>>
<1> DEFINE n == Len(rows) - 1
<1>1. Len(rows) \in Nat /\ Len(rows) >= 1 /\ rows \in Seq(MarketRow)
  BY LenProperties, EmptySeq DEF History
<1>2. n \in 0..Len(rows) /\ n < Len(rows) /\ Len(rows) = n + 1 /\ n \in Nat
  BY <1>1
<1>3. Front(rows) = SubSeq(rows, 1, n)
  BY DEF Front
<1> HIDE DEF n
<1>4. Len(Front(rows)) = n /\ \A i \in 1..n : Front(rows)[i] = rows[i] /\ rows[i] \in MarketRow
  BY <1>2, <1>3, PartIsHistory
<1>5. CASE n = 0
  <2>1. Front(rows) \in History
    BY <1>2, <1>3, PartIsHistory
  <2>2. Front(rows) = <<>>
    BY <1>4, <1>5, <2>1, EmptySeq DEF History
  <2> QED
    BY <2>2 DEF OnDay
<1>6. CASE n # 0
  <2>1. n \in 1..n /\ n \in 1..Len(rows) /\ n + 1 \in 1..Len(rows)
    BY <1>2, <1>6
  <2>2. rows[n].session < rows[n + 1].session /\ rows[n + 1].session <= day
    BY <1>2, <2>1 DEF InOrder
  <2>3. rows[n].session \in Nat /\ rows[n + 1].session \in Nat
    <3>1. rows[n] \in MarketRow /\ rows[n + 1] \in MarketRow
      BY <1>1, <2>1, ElementOfSeq
    <3> QED
      BY <3>1 DEF MarketRow
  <2>4. Last(Front(rows)) = rows[n]
    BY <1>4, <2>1 DEF Last
  <2>5. Last(Front(rows)).session # day
    BY <2>2, <2>3, <2>4
  <2> QED
    BY <2>5 DEF OnDay
<1> QED
  BY <1>5, <1>6

\* With less to see, a security's rows of the day are all there, but for the
\* oldest, or are none of the day.
LEMMA HiddenIsLess ==
    ASSUME AdviceInv, session > 0, NEW less \in Hidden(Today)
    PROVE  /\ less.universe = Stocks /\ Today.universe = Stocks
           /\ \A s \in Stocks :
                /\ Today.rows[s] \in History /\ OfDay(Today, s) \in History
                /\ \/ OfDay(less, s) \in {OfDay(Today, s), <<>>}
                   \/ OfDay(Today, s) # <<>> /\ OfDay(less, s) = Tail(OfDay(Today, s))
                /\ less.scan[s] \in {Today.scan[s], NoScan}
           /\ \/ less.rows[Benchmark] = Today.rows[Benchmark]
              \/ Today.rows[Benchmark] # <<>> /\ less.rows[Benchmark] = Tail(Today.rows[Benchmark])
<1> DEFINE rows == shown[session]
           scan == [s \in Stocks |-> LatestScan(months, s, session)]
<1>1. session \in Nat /\ session \in 1..session
  BY DEF AdviceInv
<1>2. /\ Today = [day |-> session, universe |-> Stocks, rows |-> rows, scan |-> scan]
      /\ DOMAIN rows = Stocks /\ DOMAIN scan = Stocks
  BY <1>1 DEF Today, ViewOn, AdviceInv, DaysShown
<1>3. \A s \in Stocks : /\ rows[s] \in History /\ InOrder(rows[s])
                        /\ \A i \in 1..Len(rows[s]) : rows[s][i].session <= session
  BY <1>1, ShownIsHistory
<1>4. \A s \in Stocks : OfDay(Today, s) = OnDay(rows[s], session)
  BY <1>2 DEF OfDay, OnDay
<1> HIDE DEF rows, scan
<1>5. Today.rows = rows /\ Today.scan = scan /\ Today.universe = Stocks /\ Today.day = session
  BY <1>2
<1>6. \A s \in Stocks : OfDay(Today, s) \in History
  <2>1. <<>> \in History
    BY DEF History
  <2> QED
    BY <1>3, <1>4, <2>1 DEF OnDay
<1>7. Benchmark \in Stocks
  BY RulesAssumption
<1>8. ASSUME NEW x \in Stocks, NEW new, less = [Today EXCEPT !.rows[x] = new]
      PROVE  /\ less.universe = Stocks /\ less.scan = scan /\ less.day = session
             /\ less.rows = [rows EXCEPT ![x] = new]
             /\ less.rows[x] = new /\ \A s \in Stocks \ {x} : less.rows[s] = rows[s]
             /\ OfDay(less, x) = OnDay(new, session)
             /\ \A s \in Stocks \ {x} : OfDay(less, s) = OfDay(Today, s)
  <2>1. /\ less = [day |-> session, universe |-> Stocks, rows |-> [rows EXCEPT ![x] = new], scan |-> scan]
    BY <1>2, <1>8
  <2>2. /\ less.universe = Stocks /\ less.scan = scan /\ less.day = session
        /\ less.rows = [rows EXCEPT ![x] = new]
    BY <2>1
  <2>3. less.rows[x] = new /\ \A s \in Stocks \ {x} : less.rows[s] = rows[s]
    BY <1>2, <2>2
  <2>4. OfDay(less, x) = OnDay(new, session)
    BY <2>2, <2>3 DEF OfDay, OnDay
  <2>5. \A s \in Stocks \ {x} : OfDay(less, s) = OnDay(rows[s], session)
    BY <2>2, <2>3 DEF OfDay, OnDay
  <2> QED
    BY <1>4, <2>2, <2>3, <2>4, <2>5
<1> DEFINE OldestGone(x) == less = [Today EXCEPT !.rows[x] = IF @ = <<>> THEN @ ELSE Tail(@)]
           NewestGone(x) == less = [Today EXCEPT !.rows[x] = IF @ = <<>> THEN @ ELSE Front(@)]
<1>9. ASSUME NEW x \in Stocks, OldestGone(x) \/ (x # Benchmark /\ NewestGone(x))
      PROVE  /\ less.universe = Stocks /\ less.scan = scan
             /\ \A s \in Stocks :
                  \/ OfDay(less, s) \in {OfDay(Today, s), <<>>}
                  \/ OfDay(Today, s) # <<>> /\ OfDay(less, s) = Tail(OfDay(Today, s))
             /\ \/ less.rows[Benchmark] = rows[Benchmark]
                \/ rows[Benchmark] # <<>> /\ less.rows[Benchmark] = Tail(rows[Benchmark])
  <2>1. CASE OldestGone(x)
    <3> DEFINE new == IF rows[x] = <<>> THEN rows[x] ELSE Tail(rows[x])
    <3>1. less = [Today EXCEPT !.rows[x] = new]
      BY <1>5, <2>1
    <3>2. \/ OnDay(new, session) \in {OnDay(rows[x], session), <<>>}
          \/ OnDay(rows[x], session) # <<>> /\ OnDay(new, session) = Tail(OnDay(rows[x], session))
      BY <1>3, OnDayOfTail
    <3>3. new = rows[x] \/ (rows[x] # <<>> /\ new = Tail(rows[x]))
      OBVIOUS
    <3> HIDE DEF new
    <3>4. /\ less.universe = Stocks /\ less.scan = scan /\ less.rows[x] = new
          /\ \A s \in Stocks \ {x} : less.rows[s] = rows[s] /\ OfDay(less, s) = OfDay(Today, s)
          /\ OfDay(less, x) = OnDay(new, session) /\ OfDay(Today, x) = OnDay(rows[x], session)
      BY <1>4, <1>8, <3>1, Zenon
    <3>5. ASSUME NEW s \in Stocks
          PROVE  \/ OfDay(less, s) \in {OfDay(Today, s), <<>>}
                 \/ OfDay(Today, s) # <<>> /\ OfDay(less, s) = Tail(OfDay(Today, s))
      <4>1. CASE s = x
        BY <3>2, <3>4, <4>1, Zenon
      <4>2. CASE s # x
        BY <3>4, <4>2, Zenon
      <4> QED
        BY <4>1, <4>2
    <3>6. \/ less.rows[Benchmark] = rows[Benchmark]
          \/ rows[Benchmark] # <<>> /\ less.rows[Benchmark] = Tail(rows[Benchmark])
      <4>1. CASE x = Benchmark
        BY <3>3, <3>4, <4>1, Zenon
      <4>2. CASE x # Benchmark
        BY <1>7, <3>4, <4>2, Zenon
      <4> QED
        BY <4>1, <4>2
    <3> QED
      BY <3>4, <3>5, <3>6, Zenon
  <2>2. CASE x # Benchmark /\ NewestGone(x)
    <3> DEFINE new == IF rows[x] = <<>> THEN rows[x] ELSE Front(rows[x])
    <3>1. less = [Today EXCEPT !.rows[x] = new]
      BY <1>5, <2>2
    <3>2. OnDay(new, session) \in {OnDay(rows[x], session), <<>>}
      BY <1>1, <1>3, OnDayOfFront
    <3> HIDE DEF new
    <3>3. x # Benchmark
      BY <2>2
    <3>4. /\ less.universe = Stocks /\ less.scan = scan
          /\ \A s \in Stocks \ {x} : less.rows[s] = rows[s] /\ OfDay(less, s) = OfDay(Today, s)
          /\ OfDay(less, x) = OnDay(new, session) /\ OfDay(Today, x) = OnDay(rows[x], session)
      BY <1>4, <1>8, <3>1, Zenon
    <3>5. \A s \in Stocks : OfDay(less, s) \in {OfDay(Today, s), <<>>}
      BY <3>2, <3>4, Zenon
    <3>6. less.rows[Benchmark] = rows[Benchmark]
      BY <1>7, <3>3, <3>4, Zenon
    <3> QED
      BY <3>4, <3>5, <3>6, Zenon
  <2> QED
    BY <1>9, <2>1, <2>2
<1>10. ASSUME NEW x \in Stocks, less = [Today EXCEPT !.scan[x] = NoScan]
       PROVE  /\ less.universe = Stocks /\ less.rows = rows
              /\ \A s \in Stocks : less.scan[s] \in {scan[s], NoScan} /\ OfDay(less, s) = OfDay(Today, s)
  <2>1. less = [day |-> session, universe |-> Stocks, rows |-> rows, scan |-> [scan EXCEPT ![x] = NoScan]]
    BY <1>2, <1>10
  <2>2. /\ less.universe = Stocks /\ less.rows = rows /\ less.day = session
        /\ less.scan = [scan EXCEPT ![x] = NoScan]
    BY <2>1
  <2>3. \A s \in Stocks : less.scan[s] \in {scan[s], NoScan}
    BY <1>2, <2>2
  <2>4. \A s \in Stocks : OfDay(less, s) = OfDay(Today, s)
    BY <1>5, <2>2 DEF OfDay
  <2> QED
    BY <2>2, <2>3, <2>4
<1>11. \/ \E x \in Stocks : OldestGone(x) \/ (x # Benchmark /\ NewestGone(x))
       \/ \E x \in Stocks : less = [Today EXCEPT !.scan[x] = NoScan]
  BY DEF Hidden
<1> HIDE DEF OldestGone, NewestGone
<1>12. CASE \E x \in Stocks : OldestGone(x) \/ (x # Benchmark /\ NewestGone(x))
  <2>1. /\ less.universe = Stocks /\ less.scan = scan
        /\ \A s \in Stocks :
             \/ OfDay(less, s) \in {OfDay(Today, s), <<>>}
             \/ OfDay(Today, s) # <<>> /\ OfDay(less, s) = Tail(OfDay(Today, s))
        /\ \/ less.rows[Benchmark] = rows[Benchmark]
           \/ rows[Benchmark] # <<>> /\ less.rows[Benchmark] = Tail(rows[Benchmark])
    BY <1>9, <1>12, Zenon
  <2> QED
    BY <1>3, <1>5, <1>6, <2>1
<1>13. CASE \E x \in Stocks : less = [Today EXCEPT !.scan[x] = NoScan]
  BY <1>3, <1>5, <1>6, <1>10, <1>13
<1> QED
  BY <1>11, <1>12, <1>13

LEMMA AdviceInvSparesTheBlind ==
    ASSUME AdviceInv
    PROVE  MissingEvidenceNeverTrades
<1> SUFFICES ASSUME session > 0, NEW rule \in Rules, NEW p \in Settings, NEW less \in Hidden(Today)
             PROVE  /\ EntrySignals(rule, less, p) \subseteq EntrySignals(rule, Today, p)
                    /\ \A portfolio \in Holdings :
                         OrdinaryExits(rule, less, portfolio, p) \subseteq OrdinaryExits(rule, Today, portfolio, p)
  BY DEF MissingEvidenceNeverTrades
<1>1. /\ less.universe = Stocks /\ Today.universe = Stocks
      /\ \A s \in Stocks :
           /\ Today.rows[s] \in History /\ OfDay(Today, s) \in History
           /\ \/ OfDay(less, s) \in {OfDay(Today, s), <<>>}
              \/ OfDay(Today, s) # <<>> /\ OfDay(less, s) = Tail(OfDay(Today, s))
           /\ less.scan[s] \in {Today.scan[s], NoScan}
      /\ \/ less.rows[Benchmark] = Today.rows[Benchmark]
         \/ Today.rows[Benchmark] # <<>> /\ less.rows[Benchmark] = Tail(Today.rows[Benchmark])
  BY HiddenIsLess
<1>2. ASSUME EntrySignalsPermitted(less, p) PROVE EntrySignalsPermitted(Today, p)
  <2>1. CASE ~p.regime \/ less.rows[Benchmark] = Today.rows[Benchmark]
    BY <1>1, <1>2, <2>1 DEF EntrySignalsPermitted
  <2>2. CASE p.regime /\ Today.rows[Benchmark] # <<>> /\ less.rows[Benchmark] = Tail(Today.rows[Benchmark])
    <3> DEFINE rows == Today.rows[Benchmark]
    <3>1. rows \in History /\ rows # <<>> /\ Benchmark \in Stocks /\ p.regimeLength \in Nat \ {0}
      BY <1>1, <2>2, RulesAssumption, AdviceAssumption
    <3>2. Len(Tail(rows)) >= p.regimeLength /\ AboveMean(Tail(rows), p.regimeLength) > 0
      BY <1>2, <2>2 DEF EntrySignalsPermitted
    <3> HIDE DEF rows
    <3>3. Len(Tail(rows)) \in Nat /\ Len(Tail(rows)) = Len(rows) - 1 /\ Len(rows) \in Nat
      BY <3>1, ColumnsOfTail, LenProperties DEF History
    <3>4. p.regimeLength <= Len(Tail(rows)) /\ Len(rows) >= p.regimeLength
      BY <3>1, <3>2, <3>3
    <3>5. AboveMean(Tail(rows), p.regimeLength) = AboveMean(rows, p.regimeLength)
      BY <3>1, <3>4, WindowsOfTail
    <3>6. AboveMean(rows, p.regimeLength) > 0
      BY <3>2, <3>5
    <3> QED
      BY <1>1, <3>1, <3>4, <3>6 DEF EntrySignalsPermitted, rows
  <2> QED
    BY <1>1, <2>1, <2>2
<1>3. ASSUME NEW s \in Stocks, Enters(rule, OfDay(less, s), less.scan[s], p)
      PROVE  Enters(rule, OfDay(Today, s), Today.scan[s], p)
  BY <1>1, <1>3, EntersOnLess
<1>4. ASSUME NEW s \in Stocks, NEW cost, Exits(rule, OfDay(less, s), less.scan[s], cost, p)
      PROVE  Exits(rule, OfDay(Today, s), Today.scan[s], cost, p)
  BY <1>1, <1>4, ExitsOnLess
<1>5. EntrySignals(rule, less, p) \subseteq EntrySignals(rule, Today, p)
  BY <1>1, <1>2, <1>3 DEF EntrySignals
<1>6. ASSUME NEW portfolio \in Holdings
      PROVE  OrdinaryExits(rule, less, portfolio, p) \subseteq OrdinaryExits(rule, Today, portfolio, p)
  BY <1>1, <1>4 DEF OrdinaryExits
<1> QED
  BY <1>5, <1>6

\* Whatever the market did and whatever was committed, a strategy that is shown
\* less evidence of a security gives no signal that it would not give shown all of
\* it: neither a buy nor an ordinary exit.
THEOREM MissingEvidenceNeverTraded == AdviceSpec => []MissingEvidenceNeverTrades
<1>1. AdviceInv => MissingEvidenceNeverTrades
  BY AdviceInvSparesTheBlind
<1> QED
  BY <1>1, AdviceInvariant, PTL

-----------------------------------------------------------------------------
(* What was known on a day.                                                 *)

\* From one day to the next: the products of the splits.
LEMMA ProductsChain ==
    ASSUME NEW rows \in History
    PROVE  \A x, y, z \in Int : x <= y /\ y <= z =>
             SplitProduct(SplitsOf(rows), x, z) =
               SplitProduct(SplitsOf(rows), x, y) * SplitProduct(SplitsOf(rows), y, z)
<1> TAKE x, y, z \in Int
<1> HAVE x <= y /\ y <= z
<1> DEFINE splits == SplitsOf(rows)
           n == Len(splits)
<1>1. SplitList(splits) /\ n \in Nat /\ n \in 0..n
  BY SplitsOfHistory
<1> HIDE DEF splits
<1>2. /\ SplitProduct(splits, x, z) = Product(splits, x, z, n)
      /\ SplitProduct(splits, x, y) = Product(splits, x, y, n)
      /\ SplitProduct(splits, y, z) = Product(splits, y, z, n)
  BY <1>1, ProductUnfolds
<1>3. Product(splits, x, z, n) = Product(splits, x, y, n) * Product(splits, y, z, n)
  BY <1>1, ProductSplits
<1> QED
  BY <1>2, <1>3 DEF splits

LEMMA ProductsCompose ==
    ASSUME NEW rows \in History, NEW after \in Int, NEW middle \in Int, NEW through \in Int,
           after <= middle, middle <= through
    PROVE  /\ SplitProduct(SplitsOf(rows), after, through) =
                SplitProduct(SplitsOf(rows), after, middle) * SplitProduct(SplitsOf(rows), middle, through)
           /\ SplitProduct(SplitsOf(rows), after, middle) \in Nat \ {0}
           /\ SplitProduct(SplitsOf(rows), middle, through) \in Nat \ {0}
<1> DEFINE splits == SplitsOf(rows)
           n == Len(splits)
<1>1. SplitList(splits) /\ n \in Nat /\ n \in 0..n
  BY SplitsOfHistory
<1> HIDE DEF splits
<1>2. /\ SplitProduct(splits, after, through) = Product(splits, after, through, n)
      /\ SplitProduct(splits, after, middle) = Product(splits, after, middle, n)
      /\ SplitProduct(splits, middle, through) = Product(splits, middle, through, n)
  BY <1>1, ProductUnfolds
<1>3. Product(splits, after, middle, n) \in Nat \ {0} /\ Product(splits, middle, through, n) \in Nat \ {0}
  BY <1>1, ProductPositive
<1>4. Product(splits, after, through, n) = Product(splits, after, middle, n) * Product(splits, middle, through, n)
  BY <1>1, ProductSplits
<1> QED
  BY <1>2, <1>3, <1>4 DEF splits

LEMMA NothingAfter ==
    ASSUME NEW rows \in History, NEW day \in Int, NEW last \in Int,
           \A i \in 1..Len(rows) : rows[i].session <= day
    PROVE  SplitProduct(SplitsOf(rows), day, last) = 1
<1> DEFINE splits == SplitsOf(rows)
           none == <<>>
<1>1. /\ SplitList(splits) /\ Len(splits) = Len(rows) /\ Len(rows) \in Nat
      /\ \A k \in 1..Len(rows) : splits[k] = [session |-> rows[k].session, value |-> rows[k].split]
  BY SplitsOfHistory
<1> HIDE DEF splits
<1>2. Len(none) = 0 /\ Len(none) \in 0..Len(splits) /\ Len(none) \in Nat
  BY <1>1
<1>3. ASSUME NEW k \in Len(none) + 1..Len(splits) PROVE Factor(splits, day, last, k) = 1
  <2>1. k \in 1..Len(rows)
    BY <1>1, <1>2
  <2>2. splits[k].session = rows[k].session /\ splits[k].session \in Nat
    <3>1. splits[k] = [session |-> rows[k].session, value |-> rows[k].split]
      BY <1>1, <2>1
    <3>2. splits[k].session \in Nat
      BY <1>1, <2>1 DEF SplitList
    <3> QED
      BY <3>1, <3>2
  <2>3. ~(day < splits[k].session)
    BY <2>1, <2>2
  <2> QED
    BY <2>3 DEF Factor
<1>4. \A k \in 1..Len(none) : none[k] = splits[k]
  BY <1>2
<1> HIDE DEF none
<1>5. SplitProduct(splits, day, last) = SplitProduct(none, day, last)
  BY <1>1, <1>2, <1>3, <1>4, ProductOfFewer
<1>6. SplitProduct(none, day, last) = 1
  <2>1. SplitProduct(none, day, last) = Product(none, day, last, Len(none)) /\ Product(none, day, last, 0) = 1
    BY <1>2, ProductUnfolds, Zenon
  <2> QED
    BY <1>2, <2>1, Zenon
<1> QED
  BY <1>5, <1>6 DEF splits

\* All the splits of the rows up to a day are those up to the day of all rows.
LEMMA ProductOfPart ==
    ASSUME NEW rows \in History, InOrder(rows), NEW day \in Int, NEW n \in 0..Len(rows),
           \A i \in 1..n : rows[i].session <= day,
           \A i \in n + 1..Len(rows) : rows[i].session > day,
           NEW after \in Int, after <= day, NEW last \in Int, day <= last
    PROVE  SplitProduct(SplitsOf(SubSeq(rows, 1, n)), after, last) = SplitProduct(SplitsOf(rows), after, day)
<1> DEFINE part == SubSeq(rows, 1, n)
           splits == SplitsOf(rows)
           fewer == SplitsOf(part)
<1>1. /\ part \in History /\ Len(part) = n /\ Len(rows) \in Nat /\ n \in Nat
      /\ \A i \in 1..n : part[i] = rows[i]
  BY PartIsHistory, LenProperties DEF History
<1> HIDE DEF part
<1>2. /\ SplitList(splits) /\ Len(splits) = Len(rows) /\ Len(fewer) = n
      /\ \A k \in 1..Len(rows) : splits[k] = [session |-> rows[k].session, value |-> rows[k].split]
      /\ \A k \in 1..n : fewer[k] = [session |-> part[k].session, value |-> part[k].split]
  BY <1>1, SplitsOfHistory
<1> HIDE DEF splits, fewer
<1>3. \A k \in 1..Len(fewer) : fewer[k] = splits[k]
  <2>1. \A k \in 1..n : k \in 1..Len(rows)
    BY <1>1
  <2> QED
    BY <1>1, <1>2, <2>1
<1>4. ASSUME NEW k \in Len(fewer) + 1..Len(splits) PROVE Factor(splits, after, day, k) = 1
  <2>1. k \in 1..Len(rows) /\ k \in n + 1..Len(rows)
    BY <1>1, <1>2
  <2>2. splits[k].session = rows[k].session /\ splits[k].session \in Nat
    <3>1. splits[k] = [session |-> rows[k].session, value |-> rows[k].split]
      BY <1>2, <2>1
    <3>2. splits[k].session \in Nat
      BY <1>2, <2>1 DEF SplitList
    <3> QED
      BY <3>1, <3>2
  <2>3. ~(splits[k].session <= day)
    BY <2>1, <2>2
  <2> QED
    BY <2>3 DEF Factor
<1>5. Len(fewer) \in 0..Len(splits)
  BY <1>1, <1>2
<1>6. SplitProduct(splits, after, day) = SplitProduct(fewer, after, day)
  BY <1>2, <1>3, <1>4, <1>5, ProductOfFewer
<1>7. SplitProduct(fewer, day, last) = 1
  <2>1. \A i \in 1..Len(part) : part[i].session <= day
    BY <1>1
  <2> QED
    BY <1>1, <2>1, NothingAfter DEF fewer
<1>8. /\ SplitProduct(fewer, after, last) = SplitProduct(fewer, after, day) * SplitProduct(fewer, day, last)
      /\ SplitProduct(fewer, after, day) \in Nat
  BY <1>1, ProductsCompose DEF fewer
<1> QED
  BY <1>6, <1>7, <1>8 DEF part, splits, fewer

LEMMA ExactQuotient ==
    ASSUME NEW x \in Nat, NEW f \in Nat \ {0}, NEW k \in Nat \ {0}, x % (f * k) = 0
    PROVE  (x * 1) \div f = k * ((x * 1) \div (f * k))
<1> DEFINE m == f * k
           q == x \div m
           z == k * q
<1>1. m \in Nat \ {0}
  BY SMT
<1>2. q \in Nat /\ x = q * m
  <2> HIDE DEF m
  <2>1. q \in Nat /\ x = q * m + (x % m)
    BY <1>1
  <2>2. q * m \in Nat
    BY <1>1, <2>1
  <2>3. x % m = 0
    BY DEF m
  <2> QED
    BY <2>1, <2>2, <2>3
<1> HIDE DEF q
<1>3. z \in Nat /\ x = z * f
  BY <1>2
<1> HIDE DEF z, m
<1>4. x \div f = z
  <2> DEFINE y == x \div f
             r == x % f
  <2>1. y \in Nat /\ r \in Nat /\ r < f /\ x = y * f + r
    OBVIOUS
  <2> HIDE DEF y, r
  <2>2. CASE y < z
    <3>1. z - y \in Nat /\ z - y >= 1 /\ (z - y) * f = r
      BY <1>3, <2>1, <2>2
    <3>2. (z - y) * f >= f
      BY <3>1
    <3> QED
      BY <2>1, <3>1, <3>2
  <2>3. CASE z < y
    <3>1. y - z \in Nat /\ y - z >= 1 /\ (y - z) * f = 0 - r
      BY <1>3, <2>1, <2>3
    <3>2. (y - z) * f >= f
      BY <3>1
    <3> QED
      BY <2>1, <3>1, <3>2
  <2> QED
    BY <1>3, <2>1, <2>2, <2>3 DEF y
<1>5. x * 1 = x
  OBVIOUS
<1> QED
  BY <1>4, <1>5 DEF z, m, q

\* A comparison of fractions is not moved by scaling each of them.
LEMMA ScaledWeaker ==
    ASSUME NEW a \in Nat, NEW b \in Nat, NEW c \in Nat, NEW d \in Nat,
           NEW k \in Nat \ {0}, NEW l \in Nat \ {0}
    PROVE  Weaker(<<k * a, k * b>>, <<l * c, l * d>>) <=> Weaker(<<a, b>>, <<c, d>>)
<1> DEFINE m == k * l
           x == a * d
           y == c * b
<1>1. m \in Nat /\ m >= 1 /\ x \in Nat /\ y \in Nat
  BY SMT
<1>2. (k * a) * (l * d) = m * x /\ (l * c) * (k * b) = m * y
  BY SMT
<1> HIDE DEF m, x, y
<1>3. (m * x < m * y) <=> (x < y)
  <2>1. CASE x < y
    <3>1. y - x \in Nat /\ y - x >= 1 /\ m * y = m * x + m * (y - x)
      BY <1>1, <2>1
    <3>2. m * (y - x) \in Nat /\ m * (y - x) >= 1 /\ m * x \in Nat
      BY <1>1, <3>1
    <3> QED
      BY <2>1, <3>1, <3>2
  <2>2. CASE ~(x < y)
    <3>1. x - y \in Nat /\ m * x = m * y + m * (x - y)
      BY <1>1, <2>2
    <3>2. m * (x - y) \in Nat /\ m * y \in Nat /\ m * x \in Nat
      BY <1>1, <3>1
    <3> QED
      BY <2>2, <3>1, <3>2
  <2> QED
    BY <2>1, <2>2
<1>4. Weaker(<<k * a, k * b>>, <<l * c, l * d>>) <=> (k * a) * (l * d) < (l * c) * (k * b)
  BY DEF Weaker
<1>5. Weaker(<<a, b>>, <<c, d>>) <=> x < y
  BY DEF Weaker, x, y
<1> QED
  BY <1>2, <1>3, <1>4, <1>5

\* The rows before a day, in the units of the day: with what traded on the day,
\* or without it, the closes are the same times the splits of the day.
Past(rows, day) == Through(Plane(rows, day), day - 1)
Before(rows, day) == Through(Plane(Through(rows, day - 1), day), day - 1)

LEMMA WholeCloseScales ==
    ASSUME NEW rows \in History, NEW since \in Int, NEW eve \in Int, NEW day \in Int, since <= eve, eve <= day,
           NEW price \in Nat, price % SplitProduct(SplitsOf(rows), since, day) = 0
    PROVE  (price * 1) \div SplitProduct(SplitsOf(rows), since, eve) =
             SplitProduct(SplitsOf(rows), eve, day) * ((price * 1) \div SplitProduct(SplitsOf(rows), since, day))
<1> DEFINE f == SplitProduct(SplitsOf(rows), since, eve)
           g == SplitProduct(SplitsOf(rows), since, day)
           k == SplitProduct(SplitsOf(rows), eve, day)
<1>1. g = f * k /\ f \in Nat \ {0} /\ k \in Nat \ {0}
  <2>1. f \in Nat \ {0}
    BY ProductsCompose
  <2>2. k \in Nat \ {0}
    BY ProductsCompose
  <2>3. g = f * k
    BY ProductsChain
  <2> QED
    BY <2>1, <2>2, <2>3
<1> HIDE DEF f, g, k
<1>2. price % (f * k) = 0
  BY <1>1 DEF g
<1>3. (price * 1) \div f = k * ((price * 1) \div (f * k))
  BY <1>1, <1>2, ExactQuotient
<1>4. (price * 1) \div f = k * ((price * 1) \div g)
  BY <1>1, <1>3
<1> QED
  BY <1>4 DEF f, g, k

LEMMA UnitsOfPart ==
    ASSUME NEW rows \in History, InOrder(rows), NEW day \in Int, day <= LastSession,
           NEW n \in 0..Len(rows),
           \A i \in 1..n : rows[i].session <= day,
           \A i \in n + 1..Len(rows) : rows[i].session > day,
           StaysWhole(SubSeq(rows, 1, n)), NEW j \in 1..n
    PROVE  rows[j].close % SplitProduct(SplitsOf(rows), rows[j].session, day) = 0
<1> DEFINE part == SubSeq(rows, 1, n)
<1>1. /\ part \in History /\ Len(part) = n /\ DOMAIN part = 1..n
      /\ part[j] = rows[j] /\ rows[j] \in MarketRow
  BY PartIsHistory, LenProperties DEF History
<1>2. rows[j].session \in Int /\ rows[j].session <= day /\ LastSession \in Int
  BY <1>1, AdviceAssumption DEF MarketRow
<1>3. \A since \in Int : since <= day =>
         SplitProduct(SplitsOf(part), since, LastSession) = SplitProduct(SplitsOf(rows), since, day)
  <2> SUFFICES ASSUME NEW since \in Int, since <= day
               PROVE  SplitProduct(SplitsOf(part), since, LastSession) = SplitProduct(SplitsOf(rows), since, day)
    OBVIOUS
  <2> QED
    BY <1>2, ProductOfPart, SMTT(20)
<1> HIDE DEF part
<1>4. part[j].close % SplitProduct(SplitsOf(part), part[j].session, LastSession) = 0
  <2>1. StaysWhole(part)
    BY DEF part
  <2> QED
    BY <1>1, <2>1 DEF StaysWhole
<1> QED
  BY <1>1, <1>2, <1>3, <1>4

LEMMA CloseScales ==
    ASSUME NEW rows \in History, InOrder(rows), NEW eve \in Int, NEW day \in Int, eve <= day, day <= LastSession,
           NEW n \in 0..Len(rows),
           \A i \in 1..n : rows[i].session <= day,
           \A i \in n + 1..Len(rows) : rows[i].session > day,
           StaysWhole(SubSeq(rows, 1, n)), NEW i \in 1..n, rows[i].session <= eve
    PROVE  (rows[i].close * 1) \div SplitProduct(SplitsOf(rows), rows[i].session, eve) =
             SplitProduct(SplitsOf(rows), eve, day) *
               ((rows[i].close * 1) \div SplitProduct(SplitsOf(rows), rows[i].session, day))
<1>1. rows[i] \in MarketRow
  BY PartIsHistory
<1>2. rows[i].session \in Int /\ rows[i].close \in Nat
  BY <1>1 DEF MarketRow
<1>3. rows[i].close % SplitProduct(SplitsOf(rows), rows[i].session, day) = 0
  BY UnitsOfPart
<1> DEFINE since == rows[i].session
           price == rows[i].close
<1>4. since \in Int /\ since <= eve /\ price \in Nat /\ price % SplitProduct(SplitsOf(rows), since, day) = 0
  BY <1>2, <1>3, Zenon
<1> HIDE DEF since, price
<1>5. (price * 1) \div SplitProduct(SplitsOf(rows), since, eve) =
        SplitProduct(SplitsOf(rows), eve, day) * ((price * 1) \div SplitProduct(SplitsOf(rows), since, day))
  BY <1>4, WholeCloseScales
<1> QED
  BY <1>5, Zenon DEF since, price

LEMMA PastOfDay ==
    ASSUME NEW rows \in History, InOrder(rows), NEW day \in Nat \ {0}, day <= LastSession,
           StaysWhole(Through(rows, day))
    PROVE  /\ Past(rows, day) \in History /\ Before(rows, day) \in History
           /\ Len(Before(rows, day)) = Len(Past(rows, day))
           /\ \E k \in Nat \ {0} : \A i \in 1..Len(Past(rows, day)) :
                Before(rows, day)[i].close = k * Past(rows, day)[i].close
<1> DEFINE eve == day - 1
           splits == SplitsOf(rows)
           k == SplitProduct(splits, eve, day)
           F(i) == SplitProduct(splits, rows[i].session, eve)
           G(i) == SplitProduct(splits, rows[i].session, day)
<1>1. /\ day \in Nat /\ day \in Int /\ eve \in Nat /\ eve \in Int /\ eve < day /\ eve <= day
      /\ LastSession \in Int /\ Len(rows) \in Nat /\ \A i \in 1..Len(rows) : rows[i] \in MarketRow
  BY AdviceAssumption, LenProperties, ElementOfSeq DEF History
<1>0. \A i \in 1..Len(rows) : rows[i].session \in Nat /\ rows[i].session \in Int /\ rows[i].close \in Nat
  BY <1>1 DEF MarketRow
<1> HIDE DEF eve
<1>2. PICK n \in 0..Len(rows) :
        /\ Through(rows, day) = SubSeq(rows, 1, n)
        /\ \A i \in 1..n : rows[i].session <= day
        /\ \A i \in n + 1..Len(rows) : rows[i].session > day
  BY <1>1, ThroughIsPart
<1>3. PICK m \in 0..Len(rows) :
        /\ Through(rows, eve) = SubSeq(rows, 1, m)
        /\ \A i \in 1..m : rows[i].session <= eve
        /\ \A i \in m + 1..Len(rows) : rows[i].session > eve
  BY <1>1, ThroughIsPart
<1>4. n \in Nat /\ m \in Nat /\ m <= n
  <2> SUFFICES ASSUME ~(m <= n) PROVE FALSE
    BY <1>1
  <2>1. m \in 1..m /\ m \in n + 1..Len(rows) /\ m \in 1..Len(rows)
    BY <1>1
  <2> QED
    BY <1>0, <1>1, <1>2, <1>3, <2>1
<1> DEFINE plane == Plane(rows, day)
           part == SubSeq(rows, 1, m)
           other == Plane(part, day)
<1>5. /\ plane \in History /\ Len(plane) = n /\ InOrder(plane)
      /\ \A i \in 1..n : /\ plane[i].session = rows[i].session
                         /\ plane[i].close = (rows[i].close * 1) \div G(i)
  <2>1. plane \in History /\ Len(plane) = n /\ InOrder(plane)
    BY <1>1, <1>2, PlaneShape, Zenon
  <2>2. ASSUME NEW i \in 1..n
        PROVE  plane[i].session = rows[i].session /\ plane[i].close = (rows[i].close * 1) \div G(i)
    BY <1>1, <1>2, PlaneCloses, Zenon
  <2> QED
    BY <2>1, <2>2
<1>6. part \in History /\ InOrder(part) /\ Len(part) = m /\ \A i \in 1..m : part[i] = rows[i]
  BY <1>3, PartIsHistory
<1>7. /\ other \in History /\ Len(other) = m /\ InOrder(other)
      /\ \A i \in 1..m : /\ other[i].session = rows[i].session
                         /\ other[i].close = (rows[i].close * 1) \div F(i)
  <2>1. m \in 0..Len(part) /\ m = Len(part)
    BY <1>4, <1>6
  <2>2. Through(part, day) = part
    <3>1. \A i \in 1..Len(part) : part[i].session <= day
      <4>1. \A i \in 1..m : i \in 1..Len(rows)
        BY <1>1
      <4> QED
        BY <1>0, <1>1, <1>3, <1>6, <4>1
    <3> QED
      BY <1>1, <1>6, <3>1, ThroughAll
  <2>3. part = SubSeq(part, 1, m)
    BY <1>6, <2>1, SubSeqFull DEF History
  <2> HIDE DEF part
  <2>4. Through(part, day) = SubSeq(part, 1, m)
    BY <2>2, <2>3
  <2>5. other \in History /\ Len(other) = m /\ InOrder(other)
    BY <1>1, <1>6, <2>1, <2>4, PlaneIs
  <2>6. ASSUME NEW i \in 1..m
        PROVE  other[i].session = rows[i].session /\ other[i].close = (rows[i].close * 1) \div F(i)
    <3>1. /\ other[i].session = part[i].session
          /\ other[i].close = (part[i].close * 1) \div SplitProduct(SplitsOf(part), part[i].session, day)
      BY <1>1, <1>6, <2>1, <2>4, PlaneCloses, Zenon
    <3>2. part[i] = rows[i] /\ rows[i].session \in Int /\ rows[i].session <= eve
      <4>1. i \in 1..Len(rows)
        BY <1>1
      <4> QED
        BY <1>0, <1>3, <1>6, <4>1
    <3>3. SplitProduct(SplitsOf(part), rows[i].session, day) = F(i)
      <4> DEFINE after == rows[i].session
      <4>1. after \in Int /\ after <= eve
        BY <3>2
      <4> HIDE DEF after
      <4>2. SplitProduct(SplitsOf(part), after, day) = SplitProduct(SplitsOf(rows), after, eve)
        BY <1>1, <1>3, <4>1, ProductOfPart DEF part
      <4> QED
        BY <4>2 DEF after
    <3> HIDE DEF other, F
    <3> QED
      BY <3>1, <3>2, <3>3
  <2> QED
    BY <2>5, <2>6
<1> HIDE DEF plane, other, part
<1>8. Through(plane, eve) = SubSeq(plane, 1, m)
  <2>1. m \in 0..Len(plane)
    BY <1>4, <1>5
  <2>2. \A i \in 1..m : plane[i].session <= eve
    <3>1. \A i \in 1..m : i \in 1..n
      BY <1>4
    <3> QED
      BY <1>3, <1>5, <3>1
  <2>3. \A i \in m + 1..Len(plane) : plane[i].session > eve
    <3>1. \A i \in m + 1..Len(plane) : i \in 1..n /\ i \in m + 1..Len(rows)
      BY <1>1, <1>4, <1>5
    <3> QED
      BY <1>3, <1>5, <3>1
  <2> QED
    BY <1>1, <1>5, <2>1, <2>2, <2>3, ThroughIs
<1>9. Through(other, eve) = other
  <2>1. \A i \in 1..Len(other) : other[i].session <= eve
    BY <1>3, <1>7
  <2> QED
    BY <1>1, <1>7, <2>1, ThroughAll
<1>10. Past(rows, day) = SubSeq(plane, 1, m) /\ Before(rows, day) = other
  BY <1>3, <1>8, <1>9 DEF Past, Before, plane, other, part, eve
<1>11. /\ SubSeq(plane, 1, m) \in History /\ Len(SubSeq(plane, 1, m)) = m
       /\ \A i \in 1..m : SubSeq(plane, 1, m)[i] = plane[i]
  <2>1. m \in 0..Len(plane)
    BY <1>4, <1>5
  <2> QED
    BY <1>5, <2>1, PartIsHistory
<1>12. k \in Nat \ {0}
  BY <1>1, ProductsCompose
<1>13. ASSUME NEW i \in 1..m PROVE other[i].close = k * plane[i].close
  <2>1. i \in 1..n /\ i \in 1..Len(rows)
    BY <1>1, <1>4
  <2>2. rows[i].session <= eve /\ StaysWhole(SubSeq(rows, 1, n))
    BY <1>2, <1>3
  <2>3. (rows[i].close * 1) \div F(i) = k * ((rows[i].close * 1) \div G(i))
    <3>1. eve \in Int /\ day \in Int /\ eve <= day
      BY <1>1
    <3> QED
      BY <1>2, <2>1, <2>2, <3>1, CloseScales, Zenon
  <2>4. other[i].close = (rows[i].close * 1) \div F(i) /\ plane[i].close = (rows[i].close * 1) \div G(i)
    BY <1>5, <1>7, <2>1
  <2> HIDE DEF F, G, k
  <2> QED
    BY <2>3, <2>4
<1> HIDE DEF k
<1> DEFINE past == SubSeq(plane, 1, m)
<1>14. /\ Past(rows, day) = past /\ Before(rows, day) = other
       /\ past \in History /\ other \in History /\ Len(past) = m /\ Len(other) = m
       /\ \A i \in 1..m : other[i].close = k * past[i].close
  BY <1>7, <1>10, <1>11, <1>13
<1> HIDE DEF past
<1>15. \A i \in 1..Len(past) : other[i].close = k * past[i].close
  BY <1>14
<1> QED
  BY <1>12, <1>14, <1>15


\* The closes a ranking compares: the newest of a year, and the oldest.
YearOf(rows) == Final(rows, Windows.d253)
ReturnOf(rows) == <<Last(YearOf(rows)).close, Head(YearOf(rows)).close>>
AheadOf(x, y, s, t) == Weaker(y, x) \/ (~Weaker(x, y) /\ s < t)

LEMMA ReturnScales ==
    ASSUME NEW rows \in History, NEW other \in History, Len(other) = Len(rows), Len(rows) >= Windows.d253,
           NEW k \in Nat \ {0}, \A i \in 1..Len(rows) : other[i].close = k * rows[i].close
    PROVE  \E a \in Nat, b \in Nat : ReturnOf(rows) = <<a, b>> /\ ReturnOf(other) = <<k * a, k * b>>
<1> DEFINE n == Windows.d253
           N == Len(rows)
           first == N - n + 1
<1>1. /\ n \in Nat \ {0} /\ N \in Nat /\ n <= N /\ first \in 1..N /\ N \in 1..N /\ first <= N
      /\ N - first + 1 = n /\ first \in Int /\ N \in Int /\ \A i \in first..N : i \in 1..N
  <2>1. n \in Nat \ {0} /\ N \in Nat /\ n <= N
    BY RulesAssumption, LenProperties DEF History
  <2> HIDE DEF n, N
  <2> QED
    BY <2>1
<1> HIDE DEF n, N
<1>2. ASSUME NEW q \in History, Len(q) = N
      PROVE  ReturnOf(q) = <<q[N].close, q[first].close>>
  <2> DEFINE year == SubSeq(q, first, N)
  <2>1. YearOf(q) = year
    BY <1>2 DEF YearOf, Final, n
  <2>2. \A i \in first..N : q[i] \in MarketRow
    <3>1. \A i \in first..N : i \in 1..Len(q)
      BY <1>1, <1>2
    <3> QED
      BY <3>1, ElementOfSeq DEF History
  <2> HIDE DEF first
  <2>3. /\ year \in Seq(MarketRow) /\ Len(year) = N - first + 1
        /\ \A i \in 1..N - first + 1 : year[i] = q[first + i - 1]
    BY <1>1, <2>2, SubSeqProperties
  <2>4. n \in 1..n /\ 1 \in 1..n /\ first + n - 1 = N /\ first + 1 - 1 = first
    BY <1>1
  <2> HIDE DEF year
  <2>5. Len(year) = n /\ year[n] = q[N] /\ year[1] = q[first]
    BY <1>1, <2>3, <2>4
  <2>6. Last(year) = q[N] /\ Head(year) = q[first]
    BY <2>3, <2>5 DEF Last
  <2> QED
    BY <2>1, <2>6 DEF ReturnOf
<1> DEFINE a == rows[N].close
           b == rows[first].close
<1>3. ReturnOf(rows) = <<a, b>> /\ ReturnOf(other) = <<other[N].close, other[first].close>>
  BY <1>2 DEF N
<1>4. a \in Nat /\ b \in Nat
  <2>1. rows[N] \in MarketRow /\ rows[first] \in MarketRow
    BY <1>1, ElementOfSeq DEF History, N
  <2> QED
    BY <2>1 DEF MarketRow
<1>5. other[N].close = k * a /\ other[first].close = k * b
  BY <1>1 DEF N
<1> HIDE DEF a, b
<1>6. ReturnOf(other) = <<k * a, k * b>>
  BY <1>3, <1>5
<1> QED
  BY <1>3, <1>4, <1>6

LEMMA SelectionScales ==
    ASSUME NEW p \in Settings, ~p.regime, NEW view, NEW other,
           view.universe = Stocks, other.universe = Stocks,
           \A s \in Stocks :
             /\ PastRows(view, s) \in History /\ PastRows(other, s) \in History
             /\ Len(PastRows(other, s)) = Len(PastRows(view, s))
             /\ \E k \in Nat \ {0} : \A i \in 1..Len(PastRows(view, s)) :
                  PastRows(other, s)[i].close = k * PastRows(view, s)[i].close
    PROVE  InitialSelection(view, p) = InitialSelection(other, p)
<1> DEFINE R(v, s) == ReturnOf(PastRows(v, s))
           E(v) == {s \in v.universe : Len(PastRows(v, s)) >= Windows.d253}
           S(v) == {s \in E(v) : Cardinality({t \in E(v) \ {s} : AheadOf(R(v, t), R(v, s), t, s)}) < p.top}
<1>1. InitialSelection(view, p) = S(view) /\ InitialSelection(other, p) = S(other)
  BY DEF InitialSelection, EntrySignalsPermitted, AheadOf, ReturnOf, YearOf
<1>2. E(other) = E(view)
  OBVIOUS
<1>3. ASSUME NEW s \in E(view), NEW t \in E(view)
      PROVE  Weaker(R(other, s), R(other, t)) <=> Weaker(R(view, s), R(view, t))
  <2>1. s \in Stocks /\ t \in Stocks /\ Len(PastRows(view, s)) >= Windows.d253
        /\ Len(PastRows(view, t)) >= Windows.d253
    OBVIOUS
  <2>2. PICK k \in Nat \ {0} : \A i \in 1..Len(PastRows(view, s)) :
          PastRows(other, s)[i].close = k * PastRows(view, s)[i].close
    BY <2>1
  <2>3. PICK l \in Nat \ {0} : \A i \in 1..Len(PastRows(view, t)) :
          PastRows(other, t)[i].close = l * PastRows(view, t)[i].close
    BY <2>1
  <2>4. PICK a \in Nat, b \in Nat : R(view, s) = <<a, b>> /\ R(other, s) = <<k * a, k * b>>
    <3> DEFINE rows == PastRows(view, s)
               scaled == PastRows(other, s)
    <3>1. /\ rows \in History /\ scaled \in History /\ Len(scaled) = Len(rows) /\ Len(rows) >= Windows.d253
          /\ \A i \in 1..Len(rows) : scaled[i].close = k * rows[i].close
      BY <2>1, <2>2, Zenon
    <3> HIDE DEF rows, scaled
    <3>2. \E a \in Nat, b \in Nat : ReturnOf(rows) = <<a, b>> /\ ReturnOf(scaled) = <<k * a, k * b>>
      BY <3>1, ReturnScales, Zenon
    <3> QED
      BY <3>2, Zenon DEF rows, scaled
  <2>5. PICK c \in Nat, d \in Nat : R(view, t) = <<c, d>> /\ R(other, t) = <<l * c, l * d>>
    <3> DEFINE rows == PastRows(view, t)
               scaled == PastRows(other, t)
    <3>1. /\ rows \in History /\ scaled \in History /\ Len(scaled) = Len(rows) /\ Len(rows) >= Windows.d253
          /\ \A i \in 1..Len(rows) : scaled[i].close = l * rows[i].close
      BY <2>1, <2>3, Zenon
    <3> HIDE DEF rows, scaled
    <3>2. \E c \in Nat, d \in Nat : ReturnOf(rows) = <<c, d>> /\ ReturnOf(scaled) = <<l * c, l * d>>
      BY <3>1, ReturnScales, Zenon
    <3> QED
      BY <3>2, Zenon DEF rows, scaled
  <2> HIDE DEF R
  <2>6. Weaker(<<k * a, k * b>>, <<l * c, l * d>>) <=> Weaker(<<a, b>>, <<c, d>>)
    BY ScaledWeaker
  <2> QED
    BY <2>4, <2>5, <2>6
<1> HIDE DEF R, E
<1>4. ASSUME NEW s \in E(view), NEW t \in E(view)
      PROVE  AheadOf(R(other, t), R(other, s), t, s) <=> AheadOf(R(view, t), R(view, s), t, s)
  BY <1>3 DEF AheadOf
<1>5. \A s \in E(view) : {t \in E(view) \ {s} : AheadOf(R(other, t), R(other, s), t, s)} =
                         {t \in E(view) \ {s} : AheadOf(R(view, t), R(view, s), t, s)}
  BY <1>4
<1>6. S(other) = S(view)
  BY <1>2, <1>5
<1> QED
  BY <1>1, <1>6

LEMMA AdviceInvIsPointInTime ==
    ASSUME AdviceInv
    PROVE  SignalsPointInTime
<1> DEFINE View(day) == ViewOn(day, PriceHistories(bars, day), months)
           Eve(day) == [s \in Stocks |-> Through(bars[s], day - 1)]
           Other(day) == ViewOn(day, PriceHistories(Eve(day), day), months)
<1> SUFFICES ASSUME NEW day \in 1..session
             PROVE  /\ View(day).rows = shown[day]
                    /\ View(day).scan = ViewOn(day, <<>>, {month \in months : month.asof <= day}).scan
                    /\ \A p \in Settings : ~p.regime =>
                         InitialSelection(View(day), p) = InitialSelection(Other(day), p)
  BY DEF SignalsPointInTime
<1>1. /\ session \in Nat /\ session <= LastSession /\ LastSession \in Nat
      /\ day \in Nat \ {0} /\ day \in Nat /\ day <= LastSession /\ day - 1 \in Nat /\ day - 1 \in Int
      /\ \A s \in Stocks : bars[s] \in History /\ InOrder(bars[s])
  <2>1. session \in 0..LastSession /\ LastSession \in Nat
    BY AdviceAssumption DEF AdviceInv
  <2> QED
    BY <2>1 DEF AdviceInv, BarsInOrder
<1>2. ASSUME NEW s \in Stocks PROVE StaysWhole(bars[s])
  <2>1. \A i \in 1..Len(bars[s]) : bars[s][i].session <= session
    BY DEF AdviceInv, BarsInOrder
  <2>2. Through(bars[s], session) = bars[s]
    BY <1>1, <2>1, ThroughAll
  <2>3. StaysWhole(Through(bars[s], session))
    BY <1>1 DEF AdviceInv, CutsWhole
  <2> QED
    BY <2>2, <2>3
<1>3. PriceHistories(bars, day) = [s \in Stocks |-> Plane(bars[s], day)]
  <2>1. \A s \in Stocks : SplitContinuous(Captured(bars[s]), day) = Plane(bars[s], day)
    BY <1>1, <1>2, ShownIsPlane
  <2> QED
    BY <2>1 DEF PriceHistories
<1>4. /\ View(day).rows = PriceHistories(bars, day) /\ View(day).universe = Stocks /\ View(day).day = day
      /\ Other(day).rows = PriceHistories(Eve(day), day) /\ Other(day).universe = Stocks
      /\ Other(day).day = day
  BY DEF ViewOn
<1>5. View(day).rows = shown[day]
  BY <1>3, <1>4 DEF AdviceInv, DaysShown
<1>6. View(day).scan = ViewOn(day, <<>>, {month \in months : month.asof <= day}).scan
  <2> DEFINE past == {month \in months : month.asof <= day}
  <2>1. ASSUME NEW s \in Stocks PROVE LatestScan(past, s, day) = LatestScan(months, s, day)
    <3> DEFINE Visible(committed) == {month \in committed : month.scan[s] # NoScan /\ month.asof <= day}
               ScanOf(visible) ==
                 IF visible = {} THEN NoScan
                 ELSE (CHOOSE month \in visible : \A other \in visible : other.asof <= month.asof).scan[s]
    <3>1. Visible(past) = Visible(months)
      OBVIOUS
    <3> HIDE DEF past
    <3>2. LatestScan(past, s, day) = ScanOf(Visible(past)) /\ LatestScan(months, s, day) = ScanOf(Visible(months))
      BY DEF LatestScan
    <3> HIDE DEF Visible, ScanOf
    <3> QED
      BY <3>1, <3>2
  <2> HIDE DEF past
  <2>2. View(day).scan = [s \in Stocks |-> LatestScan(months, s, day)]
    BY DEF ViewOn
  <2>3. ViewOn(day, <<>>, past).scan = [s \in Stocks |-> LatestScan(past, s, day)]
    BY DEF ViewOn
  <2> QED
    BY <2>1, <2>2, <2>3 DEF past
<1>7. PriceHistories(Eve(day), day) = [s \in Stocks |-> Plane(Through(bars[s], day - 1), day)]
  <2>1. ASSUME NEW s \in Stocks
        PROVE  SplitContinuous(Captured(Eve(day)[s]), day) = Plane(Through(bars[s], day - 1), day)
    <3>1. Eve(day)[s] = Through(bars[s], day - 1)
      OBVIOUS
    <3>2. Through(bars[s], day - 1) \in History
      <4>1. PICK n \in 0..Len(bars[s]) : Through(bars[s], day - 1) = SubSeq(bars[s], 1, n)
        BY <1>1, ThroughIsPart
      <4> QED
        BY <1>1, <4>1, PartIsHistory
    <3>3. StaysWhole(Through(bars[s], day - 1))
      BY <1>1 DEF AdviceInv, CutsWhole
    <3> QED
      BY <3>1, <3>2, <3>3, ShownIsPlane
  <2> HIDE DEF Eve
  <2> QED
    BY <2>1 DEF PriceHistories
<1> HIDE DEF View, Eve, Other
<1>8. ASSUME NEW s \in Stocks
      PROVE  PastRows(View(day), s) = Past(bars[s], day) /\ PastRows(Other(day), s) = Before(bars[s], day)
  BY <1>3, <1>4, <1>7 DEF PastRows, Past, Before
<1>9. ASSUME NEW s \in Stocks
      PROVE  /\ Past(bars[s], day) \in History /\ Before(bars[s], day) \in History
             /\ Len(Before(bars[s], day)) = Len(Past(bars[s], day))
             /\ \E k \in Nat \ {0} : \A i \in 1..Len(Past(bars[s], day)) :
                  Before(bars[s], day)[i].close = k * Past(bars[s], day)[i].close
  <2>1. StaysWhole(Through(bars[s], day))
    BY <1>1 DEF AdviceInv, CutsWhole
  <2> QED
    BY <1>1, <2>1, PastOfDay
<1>10. ASSUME NEW p \in Settings, ~p.regime
       PROVE  InitialSelection(View(day), p) = InitialSelection(Other(day), p)
  <2> DEFINE v == View(day)
             o == Other(day)
  <2>1. \A s \in Stocks :
          /\ PastRows(v, s) \in History /\ PastRows(o, s) \in History
          /\ Len(PastRows(o, s)) = Len(PastRows(v, s))
          /\ \E k \in Nat \ {0} : \A i \in 1..Len(PastRows(v, s)) :
               PastRows(o, s)[i].close = k * PastRows(v, s)[i].close
    <3> SUFFICES ASSUME NEW s \in Stocks
                 PROVE  /\ PastRows(v, s) \in History /\ PastRows(o, s) \in History
                        /\ Len(PastRows(o, s)) = Len(PastRows(v, s))
                        /\ \E k \in Nat \ {0} : \A i \in 1..Len(PastRows(v, s)) :
                             PastRows(o, s)[i].close = k * PastRows(v, s)[i].close
      OBVIOUS
    <3>1. PastRows(v, s) = Past(bars[s], day) /\ PastRows(o, s) = Before(bars[s], day)
      BY <1>8
    <3> HIDE DEF v, o
    <3> QED
      BY <1>9, <3>1
  <2>2. v.universe = Stocks /\ o.universe = Stocks
    BY <1>4
  <2> HIDE DEF v, o
  <2>3. InitialSelection(v, p) = InitialSelection(o, p)
    BY <1>10, <2>1, <2>2, SelectionScales
  <2> QED
    BY <2>3 DEF v, o
<1> QED
  BY <1>5, <1>6, <1>10

\* Whatever trades, splits and is committed later, a day shows a strategy what it
\* showed when it was today, no month that had not ended, and prices whose
\* ranking the trading of that day does not move.
THEOREM SignalsAlwaysPointInTime == AdviceSpec => []SignalsPointInTime
<1>1. AdviceInv => SignalsPointInTime
  BY AdviceInvIsPointInTime
<1> QED
  BY <1>1, AdviceInvariant, PTL

-----------------------------------------------------------------------------
(* The live recommendation.                                                 *)

\* What the scan downloads of a security is a history too, of the same sessions.
LEMMA LiveRecordsAre ==
    ASSUME AdviceInv, NEW s \in Stocks
    PROVE  /\ LiveRecords[s] \in History /\ InOrder(LiveRecords[s])
           /\ \A i \in 1..Len(LiveRecords[s]) : LiveRecords[s][i].session <= session
<1> DEFINE traded == bars[s]
           n == Len(traded)
           rows == Captured(traded).rows
           D == Dividends[s]
           kept == [i \in DOMAIN D |-> [session |-> D[i].session, value |-> D[i].kept]]
           of == [i \in DOMAIN D |-> [session |-> D[i].session, value |-> D[i].of]]
           Units(i) == SplitProduct(SplitsOf(traded), traded[i].session, LastSession)
           Up(i) == SplitProduct(kept, rows[i].session, session)
           Down(i) == SplitProduct(of, rows[i].session, session)
<1>1. /\ session \in Nat /\ session \in Int /\ LastSession \in Int
      /\ traded \in History /\ InOrder(traded) /\ n \in Nat /\ DOMAIN traded = 1..n
      /\ \A i \in 1..n : traded[i].session <= session /\ traded[i] \in MarketRow
  <2>1. traded \in History /\ InOrder(traded) /\ \A i \in 1..n : traded[i].session <= session
    BY DEF AdviceInv, BarsInOrder
  <2>2. n \in Nat /\ DOMAIN traded = 1..n /\ \A i \in 1..n : traded[i] \in MarketRow
    BY <2>1, LenProperties, ElementOfSeq DEF History
  <2> QED
    BY <2>1, <2>2, AdviceAssumption DEF AdviceInv
<1>2. \A i \in 1..n : traded[i].session \in Nat
  BY <1>1 DEF MarketRow
<1>3. SplitList(SplitsOf(traded))
  BY <1>1, SplitsOfHistory
<1>4. SplitList(kept) /\ SplitList(of)
  <2>1. D \in Seq([session : Nat, kept : Nat \ {0}, of : Nat \ {0}])
    BY AdviceAssumption
  <2> HIDE DEF D
  <2>2. Len(D) \in Nat /\ DOMAIN D = 1..Len(D)
        /\ \A i \in 1..Len(D) : D[i].session \in Nat /\ D[i].kept \in Nat \ {0} /\ D[i].of \in Nat \ {0}
    <3>1. Len(D) \in Nat /\ DOMAIN D = 1..Len(D)
          /\ \A i \in 1..Len(D) : D[i] \in [session : Nat, kept : Nat \ {0}, of : Nat \ {0}]
      BY <2>1, LenProperties, ElementOfSeq
    <3> QED
      BY <3>1
  <2>3. Len(kept) = Len(D) /\ \A i \in 1..Len(D) : kept[i].session = D[i].session /\ kept[i].value = D[i].kept
    BY <2>2
  <2>4. Len(of) = Len(D) /\ \A i \in 1..Len(D) : of[i].session = D[i].session /\ of[i].value = D[i].of
    BY <2>2
  <2> QED
    BY <2>2, <2>3, <2>4 DEF SplitList
<1>5. LiveRecords[s] = [i \in DOMAIN rows |-> Scaled(rows[i], Up(i), Down(i), 1)]
  BY DEF LiveRecords
<1>6. rows = [i \in 1..n |-> Scaled(traded[i], 1, Units(i), 1)]
  BY <1>1 DEF Captured
<1> HIDE DEF traded, n, rows, D, kept, of
<1>7. \A splits, after : SplitList(splits) /\ after \in Int =>
         /\ SplitProduct(splits, after, LastSession) \in Nat \ {0}
         /\ SplitProduct(splits, after, session) \in Nat \ {0}
  <2> SUFFICES ASSUME NEW splits, SplitList(splits), NEW after \in Int, NEW through \in Int
               PROVE  SplitProduct(splits, after, through) \in Nat \ {0}
    BY <1>1
  <2>1. Len(splits) \in Nat /\ Len(splits) \in 0..Len(splits)
    BY DEF SplitList
  <2> QED
    BY <2>1, ProductPositive, ProductUnfolds
<1>8. ASSUME NEW i \in 1..n
      PROVE  rows[i] \in MarketRow /\ rows[i].session = traded[i].session
  <2>1. traded[i] \in MarketRow /\ traded[i].session \in Int
    BY <1>1, <1>2
  <2>2. Units(i) \in Nat \ {0} /\ 1 \in Nat \ {0} /\ 1 \in Nat
    BY <1>3, <1>7, <2>1
  <2>3. rows[i] = Scaled(traded[i], 1, Units(i), 1)
    BY <1>6
  <2> HIDE DEF Units
  <2>4. rows[i] \in MarketRow
    BY <2>1, <2>2, <2>3, ScaledIsRow, Zenon
  <2>5. rows[i].session = traded[i].session
    BY <2>1, <2>2, <2>3, ScaledSession, SMT
  <2> QED
    BY <2>4, <2>5
<1> DEFINE Row(i) == Scaled(rows[i], Up(i), Down(i), 1)
<1>9. ASSUME NEW i \in 1..n
      PROVE  Row(i) \in MarketRow /\ Row(i).session = traded[i].session
  <2>1. rows[i] \in MarketRow /\ rows[i].session \in Int
    BY <1>2, <1>8
  <2>2. Up(i) \in Nat \ {0} /\ Down(i) \in Nat \ {0} /\ 1 \in Nat
    BY <1>4, <1>7, <2>1
  <2> HIDE DEF Up, Down
  <2>3. Row(i) \in MarketRow
    BY <2>1, <2>2, ScaledIsRow, Zenon
  <2>4. Row(i).session = rows[i].session
    BY <2>1, <2>2, ScaledSession, SMT
  <2> QED
    BY <1>8, <2>3, <2>4
<1> HIDE DEF Row
<1> DEFINE record == [i \in 1..n |-> Row(i)]
<1>10. LiveRecords[s] = record
  <2>1. DOMAIN rows = 1..n
    BY <1>6
  <2> QED
    BY <1>5, <2>1 DEF Row
<1>11. record \in History /\ Len(record) = n
  BY <1>1, <1>9 DEF History
<1>12. \A i \in 1..n : record[i].session = traded[i].session
  BY <1>9
<1> HIDE DEF record
<1>13. InOrder(record)
  BY <1>1, <1>11, <1>12 DEF InOrder
<1> QED
  BY <1>1, <1>10, <1>11, <1>12, <1>13

\* All the evidence of a published scan, up to its session.
FullOf(artifact, live) ==
    [day |-> live.day, universe |-> Stocks,
     rows |-> [s \in Stocks |-> Through(LiveRecords[s], live.day)], scan |-> artifact.found]

Live(artifact) == ScanView(artifact, LiveRecords)

\* The last row of a history is of its last session.
LEMMA LastIsLatest ==
    ASSUME NEW q \in History, InOrder(q), q # <<>>
    PROVE  /\ Last(q).session \in Nat
           /\ \A i \in 1..Len(q) : q[i].session <= Last(q).session
           /\ \E i \in 1..Len(q) : Last(q) = q[i]
<1> DEFINE n == Len(q)
<1>1. q \in Seq(MarketRow) /\ n \in Nat
  BY LenProperties DEF History
<1>2. n \in 1..n /\ Last(q) = q[n]
  BY <1>1, EmptySeq DEF Last
<1>3. \A i \in 1..n : q[i].session \in Nat
  <2>1. \A i \in 1..n : q[i] \in MarketRow
    BY <1>1, ElementOfSeq
  <2> QED
    BY <2>1 DEF MarketRow
<1>4. ASSUME NEW i \in 1..n PROVE q[i].session <= q[n].session
  <2>1. i = n \/ i < n
    BY <1>1
  <2>2. i < n => q[i].session < q[n].session
    BY <1>1, <1>2 DEF InOrder
  <2> QED
    BY <1>2, <1>3, <2>1, <2>2
<1> QED
  BY <1>1, <1>2, <1>3, <1>4

\* What a recommendation is shown of a security is all there is, or nothing.
LEMMA LiveIsFull ==
    ASSUME AdviceInv, NEW artifact \in Artifacts
    PROVE  /\ Live(artifact).universe \subseteq Stocks
           /\ \A s \in Live(artifact).universe :
                /\ Live(artifact).rows[s] = FullOf(artifact, Live(artifact)).rows[s]
                /\ OfDay(Live(artifact), s) = Live(artifact).rows[s]
                /\ OfDay(FullOf(artifact, Live(artifact)), s) = Live(artifact).rows[s]
                /\ Live(artifact).rows[s] \in History
                /\ Live(artifact).scan[s] \in {artifact.found[s], NoScan}
<1> DEFINE h == LiveRecords
           known == {s \in Stocks : artifact.records[s] = 1}
           latest == {Last(h[s]).session : s \in {t \in known : h[t] # <<>>}}
           day == IF artifact.age < 0 THEN Max(latest \cup {0}) ELSE session - artifact.age
           current == {s \in known : h[s] = <<>> \/ Last(h[s]).session = day}
           live == Live(artifact)
           full == FullOf(artifact, live)
<1>1. \A s \in Stocks : h[s] \in History /\ InOrder(h[s])
  BY LiveRecordsAre
<1> HIDE DEF h
<1>2. /\ live.day = day /\ live.universe = current
      /\ live.rows = [s \in Stocks |-> IF s \in current THEN h[s] ELSE <<>>]
      /\ \A s \in Stocks : live.scan[s] \in {artifact.found[s], NoScan}
  BY DEF Live, ScanView, h
<1>3. \A s \in current : s \in Stocks /\ (h[s] = <<>> \/ Last(h[s]).session = day)
  OBVIOUS
<1> HIDE DEF day, current, live
<1>4. full.day = day /\ full.rows = [s \in Stocks |-> Through(h[s], day)]
  BY <1>2 DEF FullOf, h
<1> HIDE DEF full
<1>5. ASSUME NEW s \in current PROVE full.rows[s] = h[s]
  <2> DEFINE q == h[s]
  <2>1. s \in Stocks /\ q \in History /\ InOrder(q) /\ full.rows[s] = Through(q, day)
        /\ (q = <<>> \/ Last(q).session = day)
    BY <1>1, <1>3, <1>4
  <2> HIDE DEF q
  <2>2. CASE q = <<>>
    <3>1. Through(<<>>, day) = <<>>
      BY DEF Through
    <3> QED
      BY <2>1, <2>2, <3>1 DEF q
  <2>3. CASE q # <<>>
    <3>1. day \in Nat /\ \A i \in 1..Len(q) : q[i].session <= day
      BY <2>1, <2>3, LastIsLatest
    <3>2. Through(q, day) = q
      BY <2>1, <3>1, ThroughAll
    <3> QED
      BY <2>1, <3>2 DEF q
  <2> QED
    BY <2>2, <2>3
<1>6. ASSUME NEW s \in current
      PROVE  /\ live.rows[s] = full.rows[s]
             /\ OfDay(live, s) = live.rows[s] /\ OfDay(full, s) = live.rows[s]
             /\ live.rows[s] \in History
             /\ live.scan[s] \in {artifact.found[s], NoScan}
  <2>1. s \in Stocks /\ live.rows[s] = h[s] /\ (h[s] = <<>> \/ Last(h[s]).session = day)
    BY <1>2, <1>3
  <2> QED
    BY <1>1, <1>2, <1>4, <1>5, <2>1 DEF OfDay
<1>7. current \subseteq Stocks
  BY <1>3
<1> QED
  BY <1>2, <1>6, <1>7 DEF live, full

\* What a strategy declares to need is no more than its rule needs.
LEMMA RuleNeedsExit ==
    ASSUME NEW rule \in Rules, NEW rows \in History, NEW scan, NEW cost, NEW p \in Settings,
           Exits(rule, rows, scan, cost, p)
    PROVE  rows # <<>> /\ Len(rows) >= Requirements(rule, "exit", p).sessions
<1> DEFINE asked == [darvas |-> p.box + 1, moving_average |-> p.slow + 1, turtle |-> p.exit + 1,
                     minervini |-> Windows.d50, weinstein |-> Windows.d150, buy_and_hold |-> 0]
<1>1. rows # <<>> /\ Len(rows) \in Nat
  BY NoRowsNoSignal, LenProperties DEF History
<1>2. Requirements(rule, "exit", p).sessions = asked[rule]
  BY DEF Requirements
<1>3. /\ asked["darvas"] = p.box + 1 /\ asked["moving_average"] = p.slow + 1
      /\ asked["turtle"] = p.exit + 1
      /\ asked["minervini"] = Windows.d50 /\ asked["weinstein"] = Windows.d150
  OBVIOUS
<1> HIDE DEF asked
<1>4. p.slow \in Nat
  BY AdviceAssumption
<1>5. rule = "darvas" /\ BoxBreakdown(rows, p) => Len(rows) >= asked[rule]
  BY <1>3 DEF BoxBreakdown
<1>6. rule = "moving_average" /\ Crossover(rows, p) = -1 => Len(rows) >= asked[rule]
  BY <1>1, <1>3, <1>4 DEF Crossover
<1>7. rule = "turtle" /\ ChannelBreach(rows, p) => Len(rows) >= asked[rule]
  BY <1>3 DEF ChannelBreach
<1>8. rule = "minervini" /\ BaseExit(rows, scan, cost, p) => Len(rows) >= asked[rule]
  BY <1>3 DEF BaseExit
<1>9. rule = "weinstein" /\ TrendExit(rows, scan, cost, p) => Len(rows) >= asked[rule]
  BY <1>3 DEF TrendExit
<1> QED
  BY <1>1, <1>2, <1>5, <1>6, <1>7, <1>8, <1>9 DEF Exits

LEMMA RuleNeedsEntry ==
    ASSUME NEW rule \in Rules, NEW rows \in History, NEW scan, NEW p \in Settings,
           Enters(rule, rows, scan, p)
    PROVE  rows # <<>> /\ Len(rows) >= Requirements(rule, "entry", p).sessions
<1> DEFINE asked == [darvas |-> p.box + 1, moving_average |-> p.slow + 1, turtle |-> p.entry + 1,
                     minervini |-> Windows.d50 + 1, weinstein |-> TrendWindow(p),
                     buy_and_hold |-> Windows.d253 + 1]
<1>1. rows # <<>> /\ Len(rows) \in Nat
  <2>1. \A cost : ~Enters(rule, <<>>, scan, p)
    BY NoRowsNoSignal
  <2> QED
    BY <2>1, LenProperties DEF History
<1>2. Requirements(rule, "entry", p).sessions = asked[rule]
  BY DEF Requirements
<1>3. /\ asked["darvas"] = p.box + 1 /\ asked["moving_average"] = p.slow + 1
      /\ asked["turtle"] = p.entry + 1
      /\ asked["minervini"] = Windows.d50 + 1 /\ asked["weinstein"] = TrendWindow(p)
  OBVIOUS
<1> HIDE DEF asked
<1>4. p.slow \in Nat
  BY AdviceAssumption
<1>5. rule = "darvas" /\ BoxBreakout(rows, p) => Len(rows) >= asked[rule]
  BY <1>3 DEF BoxBreakout
<1>6. rule = "moving_average" /\ Crossover(rows, p) = 1 => Len(rows) >= asked[rule]
  BY <1>1, <1>3, <1>4 DEF Crossover
<1>7. rule = "turtle" /\ ChannelBreakout(rows, p) => Len(rows) >= asked[rule]
  BY <1>3 DEF ChannelBreakout
<1>8. rule = "minervini" /\ BaseQualifies(rows, scan, p) => Len(rows) >= asked[rule]
  BY <1>3 DEF BaseQualifies
<1>9. rule = "weinstein" /\ TrendQualifies(rows, scan, p) => Len(rows) >= asked[rule]
  BY <1>3 DEF TrendQualifies
<1> QED
  BY <1>1, <1>2, <1>5, <1>6, <1>7, <1>8, <1>9 DEF Enters

\* Nothing is degraded that has the rows its rule needs, a stage and a base.
LEMMA EvidencedIsNotDegraded ==
    ASSUME NEW rule \in Rules, NEW path \in {"entry", "exit"}, NEW view, NEW s, NEW p \in Settings,
           view.rows[s] \in History, view.rows[s] # <<>>,
           Len(view.rows[s]) >= Requirements(rule, path, p).sessions,
           view.scan[s].stage # 0, view.scan[s].base # "none"
    PROVE  ~Degraded(rule, path, view, s, p)
<1> DEFINE asked == Requirements(rule, path, p)
<1>1. asked.sessions \in Nat
  <2>1. /\ p.box \in Nat /\ p.slow \in Nat /\ p.entry \in Nat /\ p.exit \in Nat
        /\ Windows.d50 \in Nat /\ Windows.d150 \in Nat /\ Windows.d253 \in Nat
    BY AdviceAssumption, RulesAssumption
  <2>2. TrendWindow(p) \in Nat
    BY TrendWindowCovers
  <2> DEFINE turtle == IF path = "entry" THEN p.entry + 1 ELSE p.exit + 1
             minervini == IF path = "entry" THEN Windows.d50 + 1 ELSE Windows.d50
             weinstein == IF path = "entry" THEN TrendWindow(p) ELSE Windows.d150
             hold == IF path = "entry" THEN Windows.d253 + 1 ELSE 0
             all == [darvas |-> p.box + 1, moving_average |-> p.slow + 1, turtle |-> turtle,
                     minervini |-> minervini, weinstein |-> weinstein, buy_and_hold |-> hold]
  <2>3. turtle \in Nat /\ minervini \in Nat /\ weinstein \in Nat /\ hold \in Nat
        /\ p.box + 1 \in Nat /\ p.slow + 1 \in Nat
    <3>1. \A n \in Nat : n + 1 \in Nat
      OBVIOUS
    <3>2. /\ p.box + 1 \in Nat /\ p.slow + 1 \in Nat /\ p.entry + 1 \in Nat /\ p.exit + 1 \in Nat
          /\ Windows.d50 + 1 \in Nat /\ Windows.d253 + 1 \in Nat
      BY <2>1, <3>1
    <3>3. 0 \in Nat
      OBVIOUS
    <3> QED
      BY <2>1, <2>2, <3>2, <3>3, Zenon
  <2>4. asked.sessions = all[rule]
    BY DEF Requirements
  <2> HIDE DEF turtle, minervini, weinstein, hold, asked
  <2>5. \A r \in Rules : all[r] \in Nat
    BY <2>3 DEF Rules
  <2> HIDE DEF all
  <2> QED
    BY <2>4, <2>5
<1>2. Len(view.rows[s]) \in Nat
  BY LenProperties DEF History
<1> HIDE DEF asked
<1>3. ~(Len(view.rows[s]) < asked.sessions)
  BY <1>1, <1>2 DEF asked
<1> QED
  BY <1>3 DEF Degraded, asked

\* A recommendation of one rule to one portfolio.
Follows(live, full, rule, portfolio, p) ==
    LET whole == \A s \in Stocks : s \in live.universe /\ live.scan[s].stage # 0 /\ live.scan[s].base # "none"
        entries == EntrySignals(rule, full, p)
        sells == Sells(rule, live, portfolio, p)
        buys == Buys(rule, live, portfolio, p)
        exits == OrdinaryExits(rule, full, portfolio, p) IN
    /\ ~p.upgrade => sells \subseteq exits
    /\ buys \subseteq entries \ Owned(portfolio)
    /\ whole => exits \subseteq sells /\ entries \ Owned(portfolio) \subseteq buys

LEMMA AdviceInvLiveFollows ==
    ASSUME AdviceInv
    PROVE  LiveFollowsRule
<1> SUFFICES ASSUME session > 0, NEW artifact \in Artifacts, NEW rule \in Rules, NEW p \in Settings,
                    NEW portfolio \in Holdings
             PROVE  Follows(Live(artifact), FullOf(artifact, Live(artifact)), rule, portfolio, p)
  BY Zenon DEF LiveFollowsRule, Live, FullOf, Follows
<1> DEFINE live == Live(artifact)
           full == FullOf(artifact, live)
           whole == \A s \in Stocks : s \in live.universe /\ live.scan[s].stage # 0
                                        /\ live.scan[s].base # "none"
           entries == EntrySignals(rule, full, p)
           sells == Sells(rule, live, portfolio, p)
           buys == Buys(rule, live, portfolio, p)
           exits == OrdinaryExits(rule, full, portfolio, p)
<1>1. /\ live.universe \subseteq Stocks /\ full.universe = Stocks
      /\ \A s \in live.universe :
           /\ live.rows[s] = full.rows[s] /\ live.rows[s] \in History
           /\ OfDay(live, s) = live.rows[s] /\ OfDay(full, s) = live.rows[s]
           /\ live.scan[s] \in {full.scan[s], NoScan}
  <2>1. full.universe = Stocks /\ full.scan = artifact.found
    BY DEF FullOf
  <2> HIDE DEF live
  <2> QED
    BY <2>1, LiveIsFull DEF live
<1> HIDE DEF live, full
<1>2. whole => live.universe = Stocks /\ \A s \in Stocks : live.scan[s] = full.scan[s]
                 /\ live.scan[s].stage # 0 /\ live.scan[s].base # "none"
  <2>1. NoScan.stage = 0
    BY DEF NoScan
  <2> SUFFICES ASSUME whole
               PROVE  /\ live.universe = Stocks
                      /\ \A s \in Stocks : live.scan[s] = full.scan[s]
                           /\ live.scan[s].stage # 0 /\ live.scan[s].base # "none"
    OBVIOUS
  <2>2. live.universe = Stocks
    BY <1>1
  <2>3. ASSUME NEW s \in Stocks
        PROVE  live.scan[s] = full.scan[s] /\ live.scan[s].stage # 0 /\ live.scan[s].base # "none"
    <3>1. live.scan[s].stage # 0 /\ live.scan[s].base # "none"
      OBVIOUS
    <3>2. live.scan[s] \in {full.scan[s], NoScan}
      BY <1>1, <2>2
    <3> QED
      BY <2>1, <3>1, <3>2
  <2> QED
    BY <2>2, <2>3
<1>3. EntrySignalsPermitted(live, p) => EntrySignalsPermitted(full, p)
  BY <1>1 DEF EntrySignalsPermitted
<1>4. whole /\ EntrySignalsPermitted(full, p) => EntrySignalsPermitted(live, p)
  BY <1>1, <1>2, RulesAssumption DEF EntrySignalsPermitted
<1>5. ASSUME NEW s \in live.universe, Enters(rule, OfDay(live, s), live.scan[s], p)
      PROVE  Enters(rule, OfDay(full, s), full.scan[s], p)
  <2>1. Enters(rule, live.rows[s], live.scan[s], p) /\ live.rows[s] \in History
        /\ live.scan[s] \in {full.scan[s], NoScan}
    BY <1>1, <1>5
  <2>2. Enters(rule, live.rows[s], full.scan[s], p)
    BY <2>1, EntersOnLess
  <2> QED
    BY <1>1, <2>2
<1>6. ASSUME NEW s \in live.universe, NEW cost, Exits(rule, OfDay(live, s), live.scan[s], cost, p)
      PROVE  Exits(rule, OfDay(full, s), full.scan[s], cost, p)
  <2>1. Exits(rule, live.rows[s], live.scan[s], cost, p) /\ live.rows[s] \in History
        /\ live.scan[s] \in {full.scan[s], NoScan}
    BY <1>1, <1>6
  <2>2. Exits(rule, live.rows[s], full.scan[s], cost, p)
    BY <2>1, ExitsOnLess
  <2> QED
    BY <1>1, <2>2
<1>7. ASSUME ~p.upgrade PROVE sells \subseteq exits
  <2>1. UpgradeExits(rule, live, portfolio, p) = {}
    BY <1>7 DEF UpgradeExits
  <2>2. sells \subseteq OrdinaryExits(rule, live, portfolio, p)
    BY <2>1 DEF Sells, ExitSignals
  <2>3. OrdinaryExits(rule, live, portfolio, p) \subseteq exits
    BY <1>1, <1>6 DEF OrdinaryExits
  <2> QED
    BY <2>2, <2>3
<1>8. buys \subseteq entries \ Owned(portfolio)
  <2>1. buys \subseteq EntrySignals(rule, live, p) \ Owned(portfolio)
    BY DEF Buys
  <2>2. EntrySignals(rule, live, p) \subseteq entries
    BY <1>1, <1>3, <1>5 DEF EntrySignals
  <2> QED
    BY <2>1, <2>2
<1>9. ASSUME whole PROVE exits \subseteq sells
  <2> SUFFICES ASSUME NEW s \in exits PROVE s \in sells
    OBVIOUS
  <2>1. /\ s \in Stocks /\ s \in Owned(portfolio)
        /\ Exits(rule, OfDay(full, s), full.scan[s], portfolio.cost[s], p)
    BY <1>1 DEF OrdinaryExits
  <2>2. /\ s \in live.universe /\ OfDay(full, s) = live.rows[s] /\ OfDay(live, s) = live.rows[s]
        /\ live.rows[s] \in History /\ live.scan[s] = full.scan[s]
        /\ live.scan[s].stage # 0 /\ live.scan[s].base # "none"
    BY <1>1, <1>2, <1>9, <2>1
  <2>3. Exits(rule, live.rows[s], live.scan[s], portfolio.cost[s], p)
    BY <2>1, <2>2
  <2>4. s \in OrdinaryExits(rule, live, portfolio, p)
    BY <2>1, <2>2, <2>3 DEF OrdinaryExits
  <2>5. live.rows[s] # <<>> /\ Len(live.rows[s]) >= Requirements(rule, "exit", p).sessions
    BY <2>2, <2>3, RuleNeedsExit
  <2>6. ~Degraded(rule, "exit", live, s, p)
    BY <2>2, <2>5, EvidencedIsNotDegraded
  <2> QED
    BY <2>2, <2>4, <2>6 DEF Sells, ExitSignals
<1>10. ASSUME whole PROVE entries \ Owned(portfolio) \subseteq buys
  <2> SUFFICES ASSUME NEW s \in entries, s \notin Owned(portfolio) PROVE s \in buys
    OBVIOUS
  <2>1. /\ s \in Stocks /\ EntrySignalsPermitted(full, p)
        /\ Enters(rule, OfDay(full, s), full.scan[s], p)
    BY <1>1 DEF EntrySignals
  <2>2. /\ s \in live.universe /\ OfDay(full, s) = live.rows[s] /\ OfDay(live, s) = live.rows[s]
        /\ live.rows[s] \in History /\ live.scan[s] = full.scan[s]
        /\ live.scan[s].stage # 0 /\ live.scan[s].base # "none"
    BY <1>1, <1>2, <1>10, <2>1
  <2>3. Enters(rule, live.rows[s], live.scan[s], p)
    BY <2>1, <2>2
  <2>4. s \in EntrySignals(rule, live, p)
    BY <1>4, <1>10, <2>1, <2>2, <2>3 DEF EntrySignals
  <2>5. live.rows[s] # <<>> /\ Len(live.rows[s]) >= Requirements(rule, "entry", p).sessions
    BY <2>2, <2>3, RuleNeedsEntry
  <2>6. ~Degraded(rule, "entry", live, s, p)
    BY <2>2, <2>5, EvidencedIsNotDegraded
  <2> QED
    BY <2>2, <2>4, <2>6 DEF Buys
<1>11. Follows(live, full, rule, portfolio, p)
  <2> SUFFICES /\ ~p.upgrade => sells \subseteq exits
               /\ buys \subseteq entries \ Owned(portfolio)
               /\ whole => exits \subseteq sells /\ entries \ Owned(portfolio) \subseteq buys
    BY DEF Follows
  <2> HIDE DEF whole, entries, sells, buys, exits
  <2> QED
    BY <1>7, <1>8, <1>9, <1>10, Zenon
<1> QED
  BY <1>11, Zenon DEF live, full

\* Whatever records a published scan lacks, names twice or has of another session,
\* each Sell and each Buy of the recommendation is a signal of the strategy on all
\* that the scan downloaded and detected, up to its session; and with every record,
\* stage and base there, none of them is held back.
THEOREM LiveAlwaysFollowsRule == AdviceSpec => []LiveFollowsRule
<1>1. AdviceInv => LiveFollowsRule
  BY AdviceInvLiveFollows
<1> QED
  BY <1>1, AdviceInvariant, PTL

=============================================================================
