-------------------------- MODULE DailyMail_proofs --------------------------
(***************************************************************************)
(* Theorems about what a run of the pipeline mails: the recommendations of  *)
(* PortfolioDispatch, for any number of portfolios and runs, and the alerts *)
(* of AlertBook, for any tickers, positions, prices, cooldowns and days.    *)
(* The two share no state; each has its own invariant (MailInv with         *)
(* AnswerInv, AlertInv).                                                    *)
(***************************************************************************)
EXTENDS PortfolioDispatch, AlertBook, WellFoundedInduction, TLAPS

-----------------------------------------------------------------------------
(* The inductive invariant.                                                 *)

\* Places of a pass that won its slot's receipt and has not let go of it.
Holding == {"evaluate", "send", "mailed", "refused", "fail", "unavailable", "skip"}

\* A pass that began found an artifact, and one at work has a slot of its key.
PassesFounded ==
    \A r \in Runs :
        /\ pass[r].at # "none" => artifact \in Runs
        /\ pass[r].at \in Working \cup {"claim"} => pass[r].key \in Runs
        /\ pass[r].at \in Working => pass[r].slot \in Slots
        /\ pass[r].at \in Working => pass[r].slot[2] = pass[r].key

\* A slot is held by one pass, which inserted its receipt; nothing was mailed
\* for it before its send.
HeldOnce ==
    \A r \in Runs : pass[r].at \in Holding =>
        /\ receipt[pass[r].slot] # "none"
        /\ pass[r].at \in {"evaluate", "send", "skip", "unavailable"} => mails[pass[r].slot] = 0
        /\ pass[r].at = "mailed" => mails[pass[r].slot] = 1
        /\ \A q \in Runs \ {r} : pass[q].at \in Holding => pass[q].slot # pass[r].slot

\* A slot without a receipt was never mailed.
MailedHasReceipt == \A s \in Slots : mails[s] # 0 => receipt[s] # "none"

MailInv == MailTypeOK /\ PassesFounded /\ HeldOnce /\ MailedHasReceipt /\ AtMostOneMail

-----------------------------------------------------------------------------
(* Steps.                                                                   *)

\* Moving one pass keeps the passes typed and leaves the others alone.
LEMMA GoType ==
    ASSUME MailTypeOK, NEW r \in Runs, NEW place \in MailPlace, Go(r, place)
    PROVE  /\ pass' \in [Runs -> Pass]
           /\ pass'[r] = [pass[r] EXCEPT !.at = place]
           /\ \A q \in Runs \ {r} : pass'[q] = pass[q]
  BY DEF MailTypeOK, Go, Pass

LEMMA NextPortfolioType ==
    ASSUME MailTypeOK, NEW r \in Runs, NextPortfolio(r)
    PROVE  /\ pass' \in [Runs -> Pass]
           /\ pass'[r].at = "claim" /\ pass'[r].key = pass[r].key
           /\ pass'[r].listed = pass[r].listed /\ pass'[r].todo = pass[r].todo
           /\ \A q \in Runs \ {r} : pass'[q] = pass[q]
  <1>1. "claim" \in MailPlace
    BY DEF MailPlace
  <1> QED
    BY <1>1 DEF MailTypeOK, NextPortfolio, Pass

\* Where a pass is at work.
LEMMA Places ==
    /\ Holding \subseteq Working /\ Working \subseteq MailPlace
    /\ {"status", "error", "complain"} \subseteq Working \ Holding
    /\ {"none", "published", "claim", "over", "broken", "dead"} \subseteq MailPlace \ Working
  BY DEF Holding, Working, MailPlace

\* A step that moves a pass out of holding, or to another place while it holds
\* its slot, and changes neither receipts nor mails.
LEMMA QuietMove ==
    ASSUME MailInv, NEW r \in Runs, NEW place \in MailPlace, Go(r, place),
           UNCHANGED <<artifact, receipt, mails>>, assigned' = assigned, noticed' \subseteq Slots,
           place \in Working \cup {"claim"} => pass[r].at \in Working,
           place # "none" => pass[r].at # "none",
           place \in Holding => pass[r].at \in Holding,
           place # "mailed",
           place \in {"evaluate", "send", "skip", "unavailable"} =>
              pass[r].at \in {"evaluate", "send", "skip", "unavailable"}
    PROVE  MailInv'
  <1> USE DEF MailInv
  <1>1. /\ pass' \in [Runs -> Pass]
        /\ pass'[r] = [pass[r] EXCEPT !.at = place]
        /\ \A q \in Runs \ {r} : pass'[q] = pass[q]
    BY GoType
  <1>2. MailTypeOK'
    BY <1>1 DEF MailTypeOK
  <1>3. pass[r] \in Pass
    BY DEF MailTypeOK
  <1>4. pass'[r].at = place /\ pass'[r].slot = pass[r].slot /\ pass'[r].key = pass[r].key
    BY <1>1, <1>3 DEF Pass
  <1>u. artifact' = artifact /\ receipt' = receipt /\ mails' = mails
    OBVIOUS
  <1>5. PassesFounded'
    <2> SUFFICES ASSUME NEW q \in Runs
        PROVE  /\ pass'[q].at # "none" => artifact' \in Runs
               /\ pass'[q].at \in Working \cup {"claim"} => pass'[q].key \in Runs
               /\ pass'[q].at \in Working => pass'[q].slot \in Slots
               /\ pass'[q].at \in Working => pass'[q].slot[2] = pass'[q].key
      BY DEF PassesFounded
    <2>1. CASE q = r
      BY <2>1, <1>4, <1>u DEF PassesFounded
    <2>2. CASE q # r
      BY <2>2, <1>1, <1>u DEF PassesFounded
    <2> QED
      BY <2>1, <2>2
  <1>6. HeldOnce'
    <2> SUFFICES ASSUME NEW q \in Runs, pass'[q].at \in Holding
        PROVE  /\ receipt'[pass'[q].slot] # "none"
               /\ pass'[q].at \in {"evaluate", "send", "skip", "unavailable"} =>
                     mails'[pass'[q].slot] = 0
               /\ pass'[q].at = "mailed" => mails'[pass'[q].slot] = 1
               /\ \A o \in Runs \ {q} : pass'[o].at \in Holding =>
                     pass'[o].slot # pass'[q].slot
      BY DEF HeldOnce
    <2>1. \A o \in Runs : /\ pass'[o].slot = pass[o].slot
                          /\ pass'[o].at \in Holding => pass[o].at \in Holding
      BY <1>1, <1>4
    <2>2. pass[q].at \in Holding
      BY <2>1
    <2>3. /\ receipt[pass[q].slot] # "none"
          /\ pass[q].at \in {"evaluate", "send", "skip", "unavailable"} =>
               mails[pass[q].slot] = 0
          /\ pass[q].at = "mailed" => mails[pass[q].slot] = 1
          /\ \A o \in Runs \ {q} : pass[o].at \in Holding => pass[o].slot # pass[q].slot
      BY <2>2 DEF HeldOnce
    <2>4. /\ pass'[q].at = "mailed" => pass[q].at = "mailed"
          /\ pass'[q].at \in {"evaluate", "send", "skip", "unavailable"} =>
               pass[q].at \in {"evaluate", "send", "skip", "unavailable"}
      BY <1>1, <1>4
    <2>5. \A o \in Runs \ {q} : pass'[o].at \in Holding => pass'[o].slot # pass'[q].slot
      BY <2>1, <2>3
    <2> QED
      BY <2>1, <2>3, <2>4, <2>5, <1>u
  <1>7. MailedHasReceipt' /\ AtMostOneMail'
    BY DEF MailedHasReceipt, AtMostOneMail
  <1> QED
    BY <1>2, <1>5, <1>6, <1>7

\* A step in which a pass lets go of its slot, marking the receipt or not.
LEMMA Release ==
    ASSUME MailInv, NEW r \in Runs, pass[r].at \in Working,
           pass' \in [Runs -> Pass], pass'[r].at \in {"claim", "complain", "excuse", "error"},
           pass'[r].key = pass[r].key,
           pass'[r].at # "claim" => pass'[r].slot = pass[r].slot,
           \A q \in Runs \ {r} : pass'[q] = pass[q],
           artifact' = artifact, mails' = mails, assigned' = assigned, noticed' \subseteq Slots,
           \/ receipt' = receipt
           \/ \E status \in {"sent", "failed", "skipped"} :
                /\ receipt' = [receipt EXCEPT ![pass[r].slot] = status]
                /\ status = "sent" => mails[pass[r].slot] = 1
    PROVE  MailInv'
  <1> USE DEF MailInv
  <1>1. pass[r].at # "none" /\ pass'[r].at \notin Holding /\ "claim" \notin Working
    BY DEF Working, Holding
  <1>2. receipt' \in [Slots -> Status]
    <2>1. {"sent", "failed", "skipped"} \subseteq Status
      BY DEF Status
    <2> QED
      BY <2>1 DEF MailTypeOK
  <1>3. /\ \A s \in Slots : receipt[s] # "none" => receipt'[s] # "none"
        /\ \A s \in Slots : receipt'[s] = "sent" => receipt[s] = "sent" \/ mails[s] = 1
    BY DEF MailTypeOK
  <1>4. MailTypeOK'
    BY <1>2 DEF MailTypeOK
  <1>5. PassesFounded'
    <2> SUFFICES ASSUME NEW q \in Runs
        PROVE  /\ pass'[q].at # "none" => artifact' \in Runs
               /\ pass'[q].at \in Working \cup {"claim"} => pass'[q].key \in Runs
               /\ pass'[q].at \in Working => pass'[q].slot \in Slots
               /\ pass'[q].at \in Working => pass'[q].slot[2] = pass'[q].key
      BY DEF PassesFounded
    <2>1. CASE q = r
      BY <2>1, <1>1 DEF PassesFounded
    <2>2. CASE q # r
      BY <2>2 DEF PassesFounded
    <2> QED
      BY <2>1, <2>2
  <1>6. HeldOnce'
    <2>1. \A q \in Runs : pass'[q].at \in Holding => q # r /\ pass'[q] = pass[q]
      BY <1>1
    <2>2. \A q \in Runs : pass[q].at \in Holding => pass[q].slot \in Slots
      BY Places DEF PassesFounded
    <2> QED
      BY <2>1, <2>2, <1>3 DEF HeldOnce
  <1>7. MailedHasReceipt' /\ AtMostOneMail'
    BY <1>3 DEF MailedHasReceipt, AtMostOneMail
  <1> QED
    BY <1>4, <1>5, <1>6, <1>7

\* A statement that raised: the pass goes to its exception handler.
LEMMA Raised ==
    ASSUME MailInv, NEW r \in Runs, pass[r].at \in Working, StatementRaises(r),
           UNCHANGED <<artifact, assigned, mails>>, noticed' = noticed
    PROVE  MailInv'
  <1>1. "error" \in MailPlace /\ "error" \notin Holding /\ pass[r].at # "none"
    BY DEF MailPlace, Working, Holding
  <1>2. Go(r, "error") /\ receipt' = receipt
    BY DEF StatementRaises
  <1>3. noticed' \subseteq Slots
    BY DEF MailInv, MailTypeOK
  <1> QED
    BY <1>1, <1>2, <1>3, QuietMove

\* Winning a receipt makes the pass the slot's only holder.
LEMMA ClaimKeeps ==
    ASSUME MailInv, NEW r \in Runs, NEW p \in Portfolios, Claim(r, p)
    PROVE  MailInv'
  <1> DEFINE slot == <<p, pass[r].key>>
             At(place) == pass' = [pass EXCEPT ![r].todo = @ \ {p}, ![r].slot = slot,
                                               ![r].at = place]
  <1> USE DEF MailInv
  <1>1. /\ pass[r].at = "claim" /\ pass[r].key \in Runs /\ slot \in Slots /\ slot[2] = pass[r].key
        /\ artifact \in Runs /\ pass[r] \in Pass
        /\ artifact' = artifact /\ assigned' = assigned /\ mails' = mails /\ noticed' = noticed
    BY DEF Claim, PassesFounded, Slots, MailTypeOK
  <1>2. /\ "claim" \notin Working /\ "claim" \notin Holding /\ "evaluate" \in Holding
        /\ {"evaluate", "status", "error"} \subseteq Working
        /\ "status" \notin Holding /\ "error" \notin Holding
        /\ {"evaluate", "status", "error"} \subseteq MailPlace
    BY DEF Working, Holding, MailPlace
  <1>3. ASSUME NEW place \in {"evaluate", "status", "error"}, At(place)
        PROVE  /\ pass' \in [Runs -> Pass]
               /\ pass'[r].at = place /\ pass'[r].slot = slot /\ pass'[r].key = pass[r].key
               /\ \A q \in Runs \ {r} : pass'[q] = pass[q]
    BY <1>1, <1>2, <1>3 DEF MailTypeOK, Pass
  <1>4. ASSUME NEW place \in {"evaluate", "status", "error"}, At(place)
        PROVE  PassesFounded'
    <2> SUFFICES ASSUME NEW q \in Runs
        PROVE  /\ pass'[q].at # "none" => artifact' \in Runs
               /\ pass'[q].at \in Working \cup {"claim"} => pass'[q].key \in Runs
               /\ pass'[q].at \in Working => pass'[q].slot \in Slots
               /\ pass'[q].at \in Working => pass'[q].slot[2] = pass'[q].key
      BY DEF PassesFounded
    <2>1. CASE q = r
      BY <2>1, <1>1, <1>3, <1>4
    <2>2. CASE q # r
      BY <2>2, <1>1, <1>3, <1>4 DEF PassesFounded
    <2> QED
      BY <2>1, <2>2
  <1>5. CASE receipt[slot] = "none" /\ receipt' = [receipt EXCEPT ![slot] = "claimed"] /\ At("evaluate")
    <2>1. /\ pass' \in [Runs -> Pass] /\ PassesFounded'
          /\ pass'[r].at = "evaluate" /\ pass'[r].slot = slot
          /\ \A q \in Runs \ {r} : pass'[q] = pass[q]
      BY <1>3, <1>4, <1>5
    <2>2. /\ receipt' \in [Slots -> Status] /\ receipt'[slot] = "claimed"
          /\ \A s \in Slots \ {slot} : receipt'[s] = receipt[s]
      BY <1>1, <1>5 DEF MailTypeOK, Status
    <2>3. MailTypeOK'
      BY <1>1, <2>1, <2>2 DEF MailTypeOK
    <2>4. \A q \in Runs \ {r} : pass[q].at \in Holding => pass[q].slot \in Slots \ {slot}
      BY <1>5, Places DEF HeldOnce, PassesFounded
    <2>5. mails[slot] = 0
      BY <1>1, <1>5 DEF MailedHasReceipt, MailTypeOK
    <2>6. HeldOnce'
      <3> SUFFICES ASSUME NEW q \in Runs, pass'[q].at \in Holding
          PROVE  /\ receipt'[pass'[q].slot] # "none"
                 /\ pass'[q].at \in {"evaluate", "send", "skip", "unavailable"} =>
                       mails'[pass'[q].slot] = 0
                 /\ pass'[q].at = "mailed" => mails'[pass'[q].slot] = 1
                 /\ \A o \in Runs \ {q} : pass'[o].at \in Holding =>
                       pass'[o].slot # pass'[q].slot
        BY DEF HeldOnce
      <3>1. CASE q = r
        BY <3>1, <2>1, <2>2, <2>4, <2>5, <1>1
      <3>2. CASE q # r
        <4>1. pass'[q] = pass[q] /\ pass[q].slot \in Slots \ {slot}
          BY <3>2, <2>1, <2>4
        <4>2. pass[q].at \in Holding
          BY <4>1
        <4>3. \A o \in Runs \ {q} : pass[o].at \in Holding => pass[o].slot # pass[q].slot
          BY <4>2 DEF HeldOnce
        <4>4. \A o \in Runs \ {q} : pass'[o].at \in Holding => pass'[o].slot # pass[q].slot
          BY <3>2, <4>3, <4>1, <2>1
        <4> QED
          BY <4>1, <4>2, <4>4, <2>2, <1>1 DEF HeldOnce
      <3> QED
        BY <3>1, <3>2
    <2>7. MailedHasReceipt' /\ AtMostOneMail'
      BY <2>2, <1>1 DEF MailedHasReceipt, AtMostOneMail
    <2> QED
      BY <2>1, <2>3, <2>6, <2>7
  <1>6. ASSUME NEW place \in {"status", "error"}, At(place), receipt' = receipt
        PROVE  MailInv'
    <2>1. /\ pass' \in [Runs -> Pass] /\ PassesFounded' /\ pass'[r].at \notin Holding
          /\ \A q \in Runs \ {r} : pass'[q] = pass[q]
      BY <1>2, <1>3, <1>4, <1>6
    <2>2. MailTypeOK'
      BY <2>1, <1>1, <1>6 DEF MailTypeOK
    <2>3. HeldOnce'
      BY <2>1, <1>1, <1>6 DEF HeldOnce
    <2>4. MailedHasReceipt' /\ AtMostOneMail'
      BY <1>1, <1>6 DEF MailedHasReceipt, AtMostOneMail
    <2> QED
      BY <2>1, <2>2, <2>3, <2>4
  <1>7. \/ receipt[slot] = "none" /\ receipt' = [receipt EXCEPT ![slot] = "claimed"] /\ At("evaluate")
        \/ At("status") /\ receipt' = receipt
        \/ At("error") /\ receipt' = receipt
    BY DEF Claim
  <1> QED
    BY <1>5, <1>6, <1>7

\* The mail server takes the one mail of a slot.
LEMMA SendKeeps ==
    ASSUME MailInv, NEW r \in Runs, Send(r)
    PROVE  MailInv'
  <1> USE DEF MailInv
  <1>1. /\ pass[r].at = "send" /\ pass[r].at \in Holding /\ pass[r].at \in Working
        /\ pass[r].slot \in Slots /\ mails[pass[r].slot] = 0 /\ receipt[pass[r].slot] # "none"
        /\ \A q \in Runs \ {r} : pass[q].at \in Holding => pass[q].slot # pass[r].slot
        /\ artifact' = artifact /\ assigned' = assigned /\ receipt' = receipt /\ noticed' = noticed
    <2>1. pass[r].at = "send" /\ "send" \in Holding /\ "send" \in Working
      BY DEF Send, Holding, Working
    <2> QED
      BY <2>1 DEF Send, PassesFounded, HeldOnce
  <1>2. ASSUME NEW place \in {"mailed", "refused"}, Go(r, place),
               mails' = [mails EXCEPT ![pass[r].slot] = @ + 1]
        PROVE  MailInv'
    <2>1. place \in MailPlace /\ place \in Holding /\ place \in Working
          /\ place \notin {"evaluate", "send", "skip", "unavailable"}
      BY <1>2 DEF MailPlace, Holding, Working
    <2>2. /\ pass' \in [Runs -> Pass]
          /\ pass'[r].at = place /\ pass'[r].slot = pass[r].slot /\ pass'[r].key = pass[r].key
          /\ \A q \in Runs \ {r} : pass'[q] = pass[q]
      <3>1. pass[r] \in Pass
        BY DEF MailTypeOK
      <3>2. /\ pass' \in [Runs -> Pass] /\ pass'[r] = [pass[r] EXCEPT !.at = place]
            /\ \A q \in Runs \ {r} : pass'[q] = pass[q]
        BY <2>1, <1>2, GoType
      <3> QED
        BY <3>1, <3>2 DEF Pass
    <2>3. /\ mails' \in [Slots -> Nat] /\ mails'[pass[r].slot] = 1
          /\ \A s \in Slots \ {pass[r].slot} : mails'[s] = mails[s]
      BY <1>1, <1>2 DEF MailTypeOK
    <2>4. MailTypeOK'
      BY <2>2, <2>3, <1>1 DEF MailTypeOK
    <2>5. PassesFounded'
      <3> SUFFICES ASSUME NEW q \in Runs
          PROVE  /\ pass'[q].at # "none" => artifact' \in Runs
                 /\ pass'[q].at \in Working \cup {"claim"} => pass'[q].key \in Runs
                 /\ pass'[q].at \in Working => pass'[q].slot \in Slots
                 /\ pass'[q].at \in Working => pass'[q].slot[2] = pass'[q].key
        BY DEF PassesFounded
      <3>1. CASE q = r
        BY <3>1, <2>2, <1>1 DEF PassesFounded
      <3>2. CASE q # r
        BY <3>2, <2>2, <1>1 DEF PassesFounded
      <3> QED
        BY <3>1, <3>2
    <2>6. HeldOnce'
      <3> SUFFICES ASSUME NEW q \in Runs, pass'[q].at \in Holding
          PROVE  /\ receipt'[pass'[q].slot] # "none"
                 /\ pass'[q].at \in {"evaluate", "send", "skip", "unavailable"} =>
                       mails'[pass'[q].slot] = 0
                 /\ pass'[q].at = "mailed" => mails'[pass'[q].slot] = 1
                 /\ \A o \in Runs \ {q} : pass'[o].at \in Holding =>
                       pass'[o].slot # pass'[q].slot
        BY DEF HeldOnce
      <3>1. CASE q = r
        BY <3>1, <2>1, <2>2, <2>3, <1>1
      <3>2. CASE q # r
        <4>1. pass'[q] = pass[q] /\ pass[q].slot \in Slots \ {pass[r].slot}
          BY <3>2, <2>2, <1>1, Places DEF PassesFounded
        <4>2. pass[q].at \in Holding
          BY <4>1
        <4>3. \A o \in Runs \ {q} : pass[o].at \in Holding => pass[o].slot # pass[q].slot
          BY <4>2 DEF HeldOnce
        <4>4. \A o \in Runs \ {q} : pass'[o].at \in Holding => pass'[o].slot # pass[q].slot
          BY <3>2, <4>3, <4>1, <2>2
        <4> QED
          BY <4>1, <4>2, <4>4, <2>3, <1>1 DEF HeldOnce
      <3> QED
        BY <3>1, <3>2
    <2>7. MailedHasReceipt' /\ AtMostOneMail'
      BY <2>3, <1>1 DEF MailedHasReceipt, AtMostOneMail
    <2> QED
      BY <2>4, <2>5, <2>6, <2>7
  <1>3. ASSUME NEW place \in {"refused", "error"}, Go(r, place), mails' = mails
        PROVE  MailInv'
    <2>1. place \in MailPlace /\ place # "none" /\ place # "mailed"
          /\ place \notin {"evaluate", "send", "skip", "unavailable"}
      BY <1>3 DEF MailPlace, Working
    <2>2. noticed' \subseteq Slots
      BY <1>1 DEF MailTypeOK
    <2> QED
      BY <2>1, <2>2, <1>1, <1>3, QuietMove
  <1> QED
    BY <1>2, <1>3 DEF Send

\* Leaving the block of a portfolio is a release of its slot.
LEMMA Leaves ==
    ASSUME MailInv, NEW r \in Runs, pass[r].at \in Working, NextPortfolio(r) \/ (\E place \in {"complain", "excuse"} : Go(r, place)),
           UNCHANGED <<artifact, assigned, mails>>, noticed' \subseteq Slots,
           \/ receipt' = receipt
           \/ \E status \in {"sent", "failed", "skipped"} :
                /\ Stamped(r, status)
                /\ status = "sent" => mails[pass[r].slot] = 1
    PROVE  MailInv'
  <1>1. MailTypeOK /\ pass[r] \in Pass /\ {"complain", "excuse"} \subseteq MailPlace
    BY Places DEF MailInv, MailTypeOK, MailPlace, Working
  <1>2. /\ pass' \in [Runs -> Pass] /\ pass'[r].at \in {"claim", "complain", "excuse", "error"}
        /\ pass'[r].key = pass[r].key
        /\ pass'[r].at # "claim" => pass'[r].slot = pass[r].slot
        /\ \A q \in Runs \ {r} : pass'[q] = pass[q]
    <2>1. CASE NextPortfolio(r)
      BY <2>1, <1>1, NextPortfolioType
    <2>2. ASSUME NEW place \in {"complain", "excuse"}, Go(r, place)
          PROVE  /\ pass' \in [Runs -> Pass]
                 /\ pass'[r].at \in {"claim", "complain", "excuse", "error"}
                 /\ pass'[r].key = pass[r].key
                 /\ pass'[r].at # "claim" => pass'[r].slot = pass[r].slot
                 /\ \A q \in Runs \ {r} : pass'[q] = pass[q]
      <3>1. /\ pass' \in [Runs -> Pass]
            /\ pass'[r] = [pass[r] EXCEPT !.at = place]
            /\ \A q \in Runs \ {r} : pass'[q] = pass[q]
        BY <2>2, <1>1, GoType
      <3> QED
        BY <3>1, <1>1 DEF Pass
    <2> QED
      BY <2>1, <2>2
  <1>3. artifact' = artifact /\ mails' = mails /\ assigned' = assigned
    OBVIOUS
  <1>4. \/ receipt' = receipt
        \/ \E status \in {"sent", "failed", "skipped"} :
             /\ receipt' = [receipt EXCEPT ![pass[r].slot] = status]
             /\ status = "sent" => mails[pass[r].slot] = 1
    BY DEF Stamped
  <1> QED
    BY <1>2, <1>3, <1>4, Release

\* Every step keeps the invariant.
LEMMA MailStep ==
    ASSUME MailInv, [MailNext]_dispatch
    PROVE  MailInv'
  <1>1. ASSUME NEW r \in Runs, Publish(r) PROVE MailInv'
    <2> USE DEF MailInv
    <2>1. /\ Go(r, "published") /\ artifact' = r /\ pass[r].at = "none"
          /\ receipt' = receipt /\ mails' = mails /\ assigned' = assigned /\ noticed' = noticed
      BY <1>1 DEF Publish
    <2>2. /\ "published" \in MailPlace /\ "published" \notin Working /\ "published" \notin Holding
      BY DEF MailPlace, Working, Holding
    <2>3. /\ pass' \in [Runs -> Pass] /\ pass'[r].at = "published"
          /\ \A q \in Runs \ {r} : pass'[q] = pass[q]
      <3>1. /\ pass' \in [Runs -> Pass] /\ pass'[r] = [pass[r] EXCEPT !.at = "published"]
            /\ \A q \in Runs \ {r} : pass'[q] = pass[q]
        BY <2>1, <2>2, GoType
      <3>2. pass[r] \in Pass
        BY DEF MailTypeOK
      <3> QED
        BY <3>1, <3>2 DEF Pass
    <2>4. MailTypeOK'
      BY <2>1, <2>3 DEF MailTypeOK
    <2>5. PassesFounded'
      BY <2>1, <2>2, <2>3 DEF PassesFounded
    <2>6. HeldOnce'
      BY <2>1, <2>2, <2>3 DEF HeldOnce
    <2>7. MailedHasReceipt' /\ AtMostOneMail'
      BY <2>1 DEF MailedHasReceipt, AtMostOneMail
    <2> QED
      BY <2>4, <2>5, <2>6, <2>7
  <1>2. ASSUME NEW r \in Runs, Open(r) PROVE MailInv'
    <2> USE DEF MailInv
    <2>1. /\ pass[r].at = "published" /\ artifact \in Runs
          /\ artifact' = artifact /\ receipt' = receipt /\ mails' = mails
          /\ assigned' = assigned /\ noticed' = noticed
      BY <1>2 DEF Open, PassesFounded
    <2>2. ASSUME NEW place \in {"over", "broken"}, Go(r, place) PROVE MailInv'
      <3>1. /\ place \in MailPlace /\ place \notin Working /\ place \notin Holding
            /\ place \notin {"claim", "none", "mailed", "evaluate", "send", "skip", "unavailable"}
        BY DEF MailPlace, Working, Holding
      <3>2. noticed' \subseteq Slots
        BY <2>1 DEF MailTypeOK
      <3> QED
        BY <2>1, <2>2, <3>1, <3>2, QuietMove
    <2>3. CASE pass' = [pass EXCEPT ![r] = [at |-> "claim", key |-> artifact, listed |-> assigned,
                                            todo |-> assigned, slot |-> <<>>]]
      <3>1. "claim" \in MailPlace /\ "claim" \notin Working /\ "claim" \notin Holding
        BY DEF MailPlace, Working, Holding
      <3>2. /\ pass' \in [Runs -> Pass] /\ pass'[r].at = "claim" /\ pass'[r].key = artifact
            /\ \A q \in Runs \ {r} : pass'[q] = pass[q]
        BY <2>1, <2>3, <3>1 DEF MailTypeOK, Pass
      <3>3. MailTypeOK'
        BY <2>1, <3>2 DEF MailTypeOK
      <3>4. PassesFounded'
        BY <2>1, <3>1, <3>2 DEF PassesFounded
      <3>5. HeldOnce'
        BY <2>1, <3>1, <3>2 DEF HeldOnce
      <3>6. MailedHasReceipt' /\ AtMostOneMail'
        BY <2>1 DEF MailedHasReceipt, AtMostOneMail
      <3> QED
        BY <3>3, <3>4, <3>5, <3>6
    <2> QED
      BY <1>2, <2>2, <2>3 DEF Open
  <1>3. ASSUME NEW r \in Runs, NEW p \in Portfolios, Claim(r, p) PROVE MailInv'
    BY <1>3, ClaimKeeps
  <1>n. noticed \subseteq Slots /\ \A r \in Runs : pass[r].at \in Working => noticed \cup {pass[r].slot} \subseteq Slots
    BY DEF MailInv, MailTypeOK, PassesFounded
  <1>4. ASSUME NEW r \in Runs, HandleAlreadyClaimed(r) PROVE MailInv'
    <2>1. pass[r].at \in Working
      BY <1>4 DEF HandleAlreadyClaimed, Working
    <2>2. UNCHANGED <<artifact, assigned, mails>>
      BY <1>4 DEF HandleAlreadyClaimed
    <2>3. CASE StatementRaises(r) /\ noticed' = noticed
      BY <2>1, <2>2, <2>3, Raised
    <2>4. CASE NextPortfolio(r) /\ receipt' = receipt /\ noticed' \subseteq Slots
      BY <2>1, <2>2, <2>4, Leaves
    <2> QED
      BY <1>4, <1>n, <2>1, <2>3, <2>4 DEF HandleAlreadyClaimed
  <1>5. ASSUME NEW r \in Runs, Evaluate(r) PROVE MailInv'
    <2>1. pass[r].at = "evaluate" /\ "evaluate" \in Working /\ "evaluate" \in Holding
      BY <1>5 DEF Evaluate, Working, Holding
    <2>2. /\ UNCHANGED <<artifact, receipt, mails>> /\ assigned' = assigned
          /\ noticed' \subseteq Slots
      BY <1>5, <1>n DEF Evaluate
    <2>3. PICK place \in {"skip", "send", "unavailable", "error"} : Go(r, place)
      BY <1>5 DEF Evaluate
    <2>4. place \in MailPlace /\ place # "none" /\ place # "mailed"
      BY <2>3 DEF MailPlace, Working
    <2> QED
      BY <2>1, <2>2, <2>3, <2>4, QuietMove
  <1>6. ASSUME NEW r \in Runs, Send(r) PROVE MailInv'
    BY <1>6, SendKeeps
  <1>7. ASSUME NEW r \in Runs, MarkSent(r) PROVE MailInv'
    <2>1. pass[r].at = "mailed" /\ pass[r].at \in Working /\ pass[r].at \in Holding
      BY <1>7 DEF MarkSent, Working, Holding
    <2>2. mails[pass[r].slot] = 1
      BY <2>1 DEF MailInv, HeldOnce
    <2>3. /\ NextPortfolio(r) /\ UNCHANGED <<artifact, assigned, mails>> /\ noticed' \subseteq Slots
          /\ Stamped(r, "sent") \/ receipt' = receipt
      BY <1>7, <1>n DEF MarkSent
    <2> QED
      BY <2>1, <2>2, <2>3, Leaves
  <1>8. ASSUME NEW r \in Runs, RecordRefusal(r) PROVE MailInv'
    <2>1. pass[r].at = "refused" /\ pass[r].at \in Working /\ pass[r].at \in Holding
      BY <1>8 DEF RecordRefusal, Working, Holding
    <2>2. "fail" \in MailPlace /\ "fail" \notin {"evaluate", "send", "skip", "unavailable"}
      BY DEF MailPlace, Working
    <2>3. CASE Go(r, "fail")
      <3>1. /\ UNCHANGED <<artifact, receipt, mails>> /\ assigned' = assigned
            /\ noticed' \subseteq Slots
        BY <1>8, <1>n, <2>1 DEF RecordRefusal, StatementRaises
      <3> QED
        BY <2>1, <2>2, <2>3, <3>1, QuietMove
    <2>4. CASE StatementRaises(r) /\ noticed' = noticed
      <3>1. UNCHANGED <<artifact, assigned, mails>>
        BY <1>8 DEF RecordRefusal
      <3> QED
        BY <2>1, <2>4, <3>1, Raised
    <2> QED
      BY <1>8, <2>3, <2>4 DEF RecordRefusal
  <1>9. ASSUME NEW r \in Runs, MarkRefused(r) \/ MarkUnavailable(r) \/ MarkSkipped(r) PROVE MailInv'
    <2>1. pass[r].at \in {"fail", "unavailable", "skip"} /\ pass[r].at \in Working
      BY <1>9 DEF MarkRefused, MarkUnavailable, MarkSkipped, Working
    <2>2. UNCHANGED <<artifact, assigned, mails>> /\ noticed' = noticed /\ noticed' \subseteq Slots
      BY <1>9, <1>n DEF MarkRefused, MarkUnavailable, MarkSkipped
    <2>3. \/ StatementRaises(r)
          \/ /\ Stamped(r, "failed") \/ Stamped(r, "skipped")
             /\ NextPortfolio(r) \/ Go(r, "excuse")
      BY <1>9 DEF MarkRefused, MarkUnavailable, MarkSkipped
    <2>4. CASE StatementRaises(r)
      BY <2>1, <2>2, <2>4, Raised
    <2>5. CASE /\ Stamped(r, "failed") \/ Stamped(r, "skipped")
               /\ NextPortfolio(r) \/ Go(r, "excuse")
      BY <2>1, <2>2, <2>5, Leaves
    <2> QED
      BY <2>3, <2>4, <2>5
  <1>10. ASSUME NEW r \in Runs, HandleError(r) PROVE MailInv'
    <2>1. pass[r].at \in Working
      BY <1>10 DEF HandleError, Working
    <2>2. /\ UNCHANGED <<artifact, assigned, mails>> /\ noticed' \subseteq Slots
          /\ Go(r, "complain")
          /\ Stamped(r, "failed") \/ receipt' = receipt
      BY <1>10, <1>n DEF HandleError
    <2> QED
      BY <2>1, <2>2, Leaves
  <1>11. ASSUME NEW r \in Runs, Complain(r) PROVE MailInv'
    <2>1. pass[r].at \in Working
      BY <1>11 DEF Complain, Working
    <2>2. /\ UNCHANGED <<artifact, assigned, mails>> /\ noticed' \subseteq Slots
          /\ receipt' = receipt
      BY <1>11, <1>n, <2>1 DEF Complain
    <2>3. CASE NextPortfolio(r)
      BY <2>1, <2>2, <2>3, Leaves
    <2>4. CASE Go(r, "broken")
      <3>1. /\ "broken" \in MailPlace /\ "broken" \notin Working \cup {"claim"}
            /\ "broken" \notin Holding
        BY DEF MailPlace, Working, Holding
      <3>2. pass[r].at # "none"
        BY <1>11 DEF Complain
      <3> QED
        BY <2>2, <2>4, <3>1, <3>2, QuietMove
    <2> QED
      BY <1>11, <2>3, <2>4 DEF Complain
  <1>o. ASSUME NEW r \in Runs, RecordUnavailable(r) PROVE MailInv'
    <2>1. pass[r].at \in Working
      BY <1>o DEF RecordUnavailable, Working
    <2>2. UNCHANGED <<artifact, assigned, mails>> /\ noticed' \subseteq Slots
      BY <1>o, <1>n, <2>1 DEF RecordUnavailable
    <2>3. CASE NextPortfolio(r)
      <3>1. receipt' = receipt
        BY <1>o DEF RecordUnavailable
      <3> QED
        BY <2>1, <2>2, <2>3, <3>1, Leaves
    <2>4. CASE StatementRaises(r) /\ noticed' = noticed
      BY <2>1, <2>2, <2>4, Raised
    <2> QED
      BY <1>o, <2>3, <2>4 DEF RecordUnavailable
  <1>12. ASSUME NEW r \in Runs, Close(r) \/ PassDies(r) PROVE MailInv'
    <2>1. PICK place \in {"over", "dead"} : Go(r, place)
      BY <1>12 DEF Close, PassDies
    <2>2. place \in MailPlace /\ place \notin Working /\ place \notin Holding /\ place # "claim"
          /\ place # "none" /\ place # "mailed" /\ place \notin {"evaluate", "send", "skip", "unavailable"}
      BY <2>1 DEF MailPlace, Working, Holding
    <2>3. pass[r].at # "none"
      BY <1>12 DEF Close, PassDies, Working
    <2>4. /\ UNCHANGED <<artifact, receipt, mails>> /\ assigned' = assigned
          /\ noticed' \subseteq Slots
      BY <1>12, <1>n DEF Close, PassDies
    <2> QED
      BY <2>1, <2>2, <2>3, <2>4, QuietMove
  <1>13. ASSUME NEW p \in Portfolios, Assign(p) PROVE MailInv'
    BY <1>13 DEF Assign, MailInv, MailTypeOK, PassesFounded, HeldOnce, MailedHasReceipt, AtMostOneMail
  <1>14. CASE UNCHANGED dispatch
    BY <1>14 DEF dispatch, MailInv, MailTypeOK, PassesFounded, HeldOnce, MailedHasReceipt, AtMostOneMail
  <1> QED
    BY <1>1, <1>2, <1>3, <1>4, <1>5, <1>6, <1>7, <1>8, <1>9, <1>10, <1>11, <1>o, <1>12, <1>13, <1>14
       DEF MailNext, DispatchAll

LEMMA MailStart == MailInit => MailInv
  <1> SUFFICES ASSUME MailInit PROVE MailInv
    OBVIOUS
  <1>1. /\ "none" \in MailPlace /\ "none" \notin Working /\ "none" \notin Holding /\ "none" \in Status
    BY DEF MailPlace, Working, Holding, Status
  <1>2. NoPass \in Pass /\ NoPass.at = "none"
    BY <1>1 DEF NoPass, Pass
  <1>3. MailTypeOK
    BY <1>1, <1>2 DEF MailInit, MailTypeOK
  <1> QED
    BY <1>1, <1>2, <1>3 DEF MailInit, MailInv, PassesFounded, HeldOnce, MailedHasReceipt, AtMostOneMail

\* The receipts and passes keep their shape: a receipt is only ever read and
\* written for a run that published an artifact.
THEOREM MailTypeCorrect == MailSpec => []MailTypeOK
  <1>1. MailInv => MailTypeOK
    BY DEF MailInv
  <1>2. MailInv /\ [MailNext]_dispatch => MailInv'
    BY MailStep
  <1> QED
    BY <1>1, <1>2, MailStart, PTL DEF MailSpec

\* No portfolio is mailed twice for one analysis run, and a receipt that says
\* sent stands for a mail that was sent: the receipts' INSERT OR IGNORE is
\* enough, whatever passes overlap, fail or are killed.
THEOREM MailedAtMostOnce == MailSpec => []AtMostOneMail
  <1>1. MailInv => AtMostOneMail
    BY DEF MailInv
  <1>2. MailInv /\ [MailNext]_dispatch => MailInv'
    BY MailStep
  <1> QED
    BY <1>1, <1>2, MailStart, PTL DEF MailSpec

-----------------------------------------------------------------------------
(* Every listed portfolio is answered.                                      *)

Told(s) == mails[s] = 1 \/ receipt[s] = "skipped" \/ s \in noticed

\* A pass that has a notification of the slot still to make, or ended without.
Ended == {"dead", "broken"}
Owing == {"excuse", "error", "complain"} \cup Ended
OwedBy(q, s) == pass[q].slot = s /\ pass[q].at \in Owing

\* What a pass took from its list is told or some pass is stuck with it; a
\* receipt marked failed was noticed or soon is.
AnswerInv ==
    /\ \A r \in Runs : pass[r].at \in Working \cup {"claim", "over", "broken"} =>
          \A p \in pass[r].listed \ pass[r].todo :
              Told(<<p, pass[r].key>>) \/ Stuck(<<p, pass[r].key>>)
    /\ \A r \in Runs : pass[r].listed # {} => pass[r].key \in Runs
    /\ \A r \in Runs : pass[r].at = "over" => pass[r].todo = {}
    /\ \A r \in Runs : pass[r].at \in {"none", "published"} =>
          pass[r].listed = {} /\ pass[r].todo = {}
    /\ \A s \in Slots : receipt[s] = "failed" => Told(s) \/ \E q \in Runs : OwedBy(q, s)
    /\ \A r \in Runs : pass[r].at = "fail" => pass[r].slot \in noticed
    /\ \A r \in Runs : pass[r].at = "status" => receipt[pass[r].slot] # "none"

\* A pass at work takes a step on its slot, or leaves it told.
LEMMA WorkKeeps ==
    ASSUME MailInv, AnswerInv, NEW r \in Runs, pass[r].at \in Working,
           NEW slot, slot = pass[r].slot,
           \A s \in Slots \ {slot} : receipt'[s] = receipt[s] /\ mails'[s] = mails[s],
           noticed \subseteq noticed',
           receipt[slot] # "none" => receipt'[slot] # "none",
           \A q \in Runs \ {r} : pass'[q] = pass[q],
           pass'[r].listed = pass[r].listed, pass'[r].todo = pass[r].todo,
           pass'[r].key = pass[r].key,
           pass'[r].at \in (Working \ {"status"}) \cup Ended \cup {"claim"},
           pass'[r].at # "claim" => pass'[r].slot = slot,
           pass'[r].at = "claim" => Told(slot)' \/ \E q \in Runs \ {r} : OwedBy(q, slot),
           receipt'[slot] = "failed" =>
              \/ Told(slot)'
              \/ pass'[r].at \in Owing
              \/ \E q \in Runs \ {r} : OwedBy(q, slot),
           pass'[r].at = "fail" => slot \in noticed'
    PROVE  AnswerInv'
  <1>p. "complain" \in Working /\ "status" \in Working /\ "fail" \in Working
        /\ {"none", "published", "over", "broken", "claim", "dead"} \cap Working = {}
    BY DEF Working
  <1>e. Owing \subseteq Working \cup Ended /\ Ended = {"dead", "broken"}
    BY DEF Owing, Ended, Working
  <1>s. /\ slot \in Slots
        /\ \A q \in Runs : pass[q].at \in Working => pass[q].slot \in Slots
    BY DEF MailInv, PassesFounded
  <1>t. pass'[r].at = "claim" \/ (pass'[r].at \in Working \cup Ended /\ pass'[r].slot = slot)
    OBVIOUS
  <1>1. \A s \in Slots : s # slot /\ Told(s) => Told(s)'
    BY DEF Told
  <1>2. \A q \in Runs \ {r} : \A s : OwedBy(q, s) => OwedBy(q, s)' /\ Stuck(s)'
    BY <1>e DEF OwedBy, Stuck
  <1>3. Told(slot)' \/ Stuck(slot)'
    <2>1. CASE pass'[r].at = "claim"
      BY <2>1, <1>2
    <2>2. CASE pass'[r].at # "claim"
      BY <2>2, <1>t, <1>e DEF Stuck
    <2> QED
      BY <2>1, <2>2
  <1>4. \A s \in Slots : Told(s) \/ Stuck(s) => Told(s)' \/ Stuck(s)'
    <2> SUFFICES ASSUME NEW s \in Slots, s # slot, Told(s) \/ Stuck(s)
        PROVE  Told(s)' \/ Stuck(s)'
      BY <1>3
    <2>1. CASE Told(s)
      BY <2>1, <1>1
    <2>2. CASE Stuck(s)
      <3>1. PICK q \in Runs : pass[q].slot = s /\ pass[q].at \in Working \cup Ended
        BY <2>2, <1>e DEF Stuck
      <3>2. q # r /\ pass'[q] = pass[q]
        BY <3>1
      <3> QED
        BY <3>1, <3>2, <1>e DEF Stuck
    <2> QED
      BY <2>1, <2>2
  <1>5. ASSUME NEW q \in Runs, pass'[q].at \in Working \cup {"claim", "over", "broken"},
               NEW p \in pass'[q].listed \ pass'[q].todo, NEW s, s = <<p, pass[q].key>>
        PROVE  (Told(s)' \/ Stuck(s)') /\ pass'[q].key = pass[q].key
    <2>1. /\ pass[q].at \in Working \cup {"claim", "over", "broken"} /\ pass'[q].key = pass[q].key
          /\ p \in pass[q].listed \ pass[q].todo
      BY <1>5, <1>p
    <2>2. Told(s) \/ Stuck(s)
      BY <2>1, <1>5 DEF AnswerInv
    <2>3. s \in Slots
      <3>1. pass[q] \in Pass
        BY DEF MailInv, MailTypeOK
      <3>2. p \in Portfolios
        BY <2>1, <3>1 DEF Pass
      <3>3. pass[q].key \in Runs
        BY <2>1 DEF AnswerInv
      <3> QED
        BY <3>2, <3>3, <1>5 DEF Slots
    <2> QED
      BY <2>1, <2>2, <2>3, <1>4
  <1>6. /\ \A q \in Runs : pass'[q].at = "over" => pass'[q].todo = {}
        /\ \A q \in Runs : pass'[q].listed # {} => pass'[q].key \in Runs
    BY <1>p, <1>e DEF AnswerInv
  <1>7. \A q \in Runs : pass'[q].at \in {"none", "published"} =>
          pass'[q].listed = {} /\ pass'[q].todo = {}
    BY <1>p, <1>e DEF AnswerInv
  <1>8. ASSUME NEW s \in Slots, receipt'[s] = "failed"
        PROVE  Told(s)' \/ \E q \in Runs : OwedBy(q, s)'
    <2>1. CASE s = slot
      <3>1. CASE pass'[r].at \in Owing
        BY <2>1, <3>1 DEF OwedBy
      <3>2. CASE pass'[r].at \notin Owing
        BY <2>1, <3>2, <1>8, <1>2
      <3> QED
        BY <3>1, <3>2
    <2>2. CASE s # slot
      <3>1. Told(s) \/ \E q \in Runs : OwedBy(q, s)
        BY <2>2, <1>8 DEF AnswerInv
      <3>2. ~OwedBy(r, s)
        BY <2>2 DEF OwedBy
      <3> QED
        BY <2>2, <3>1, <3>2, <1>1, <1>2
    <2> QED
      BY <2>1, <2>2
  <1>9. \A q \in Runs : pass'[q].at = "fail" => pass'[q].slot \in noticed'
    BY DEF AnswerInv
  <1>10. ASSUME NEW q \in Runs, pass'[q].at = "status" PROVE receipt'[pass'[q].slot] # "none"
    <2>1. q # r /\ pass'[q] = pass[q] /\ pass[q].at = "status"
      BY <1>10, <1>p, <1>e
    <2>2. receipt[pass[q].slot] # "none" /\ pass[q].slot \in Slots
      BY <2>1, <1>s, <1>p DEF AnswerInv
    <2> QED
      BY <2>1, <2>2
  <1> QED
    BY <1>5, <1>6, <1>7, <1>8, <1>9, <1>10 DEF AnswerInv

\* A pass at work that moves to another place, or dies, with no receipt changed.
LEMMA MoveKeeps ==
    ASSUME MailInv, AnswerInv, NEW r \in Runs, pass[r].at \in Working,
           NEW place \in (Working \ {"status"}) \cup Ended, Go(r, place),
           receipt' = receipt, noticed \subseteq noticed',
           \/ mails' = mails
           \/ pass[r].at = "send" /\ mails' = [mails EXCEPT ![pass[r].slot] = @ + 1],
           pass[r].at \in Owing => place \in Owing,
           place = "fail" => pass[r].slot \in noticed'
    PROVE  AnswerInv'
  <1> DEFINE slot == pass[r].slot
  <1>1. place \in MailPlace /\ "send" \in Holding
    BY Places DEF Holding, Ended
  <1>2. /\ pass' \in [Runs -> Pass] /\ pass'[r] = [pass[r] EXCEPT !.at = place]
        /\ \A q \in Runs \ {r} : pass'[q] = pass[q]
    BY <1>1, GoType DEF MailInv
  <1>3. pass[r] \in Pass /\ slot \in Slots
    BY DEF MailInv, MailTypeOK, PassesFounded
  <1>4. /\ pass'[r].at = place /\ pass'[r].slot = slot /\ pass'[r].key = pass[r].key
        /\ pass'[r].listed = pass[r].listed /\ pass'[r].todo = pass[r].todo
    BY <1>2, <1>3 DEF Pass
  <1>5. pass[r].at = "send" => mails[slot] = 0
    BY <1>1 DEF MailInv, HeldOnce
  <1>6. \A s \in Slots \ {slot} : receipt'[s] = receipt[s] /\ mails'[s] = mails[s]
    BY <1>3 DEF MailInv, MailTypeOK
  <1> SUFFICES ASSUME NEW s0, s0 = slot PROVE AnswerInv'
    OBVIOUS
  <1>7. Told(s0) => Told(s0)'
    BY <1>3, <1>5 DEF Told, MailInv, MailTypeOK
  <1>8. receipt'[s0] = "failed" =>
           \/ Told(s0)'
           \/ pass'[r].at \in Owing
           \/ \E q \in Runs \ {r} : OwedBy(q, s0)
    <2> SUFFICES ASSUME receipt[s0] = "failed", ~Told(s0), place \notin Owing
        PROVE  \E q \in Runs \ {r} : OwedBy(q, s0)
      BY <1>4, <1>7
    <2>1. PICK q \in Runs : OwedBy(q, s0)
      BY <1>3 DEF AnswerInv
    <2>2. q # r
      BY <2>1 DEF OwedBy
    <2> QED
      BY <2>1, <2>2
  <1>9. place # "claim"
    BY DEF Working, Ended
  <1>10. /\ \A s \in Slots \ {s0} : receipt'[s] = receipt[s] /\ mails'[s] = mails[s]
         /\ receipt[s0] # "none" => receipt'[s0] # "none"
         /\ pass'[r].at # "claim" => pass'[r].slot = s0
         /\ pass'[r].at \in (Working \ {"status"}) \cup Ended \cup {"claim"}
         /\ pass'[r].at # "claim"
         /\ pass'[r].at = "fail" => s0 \in noticed'
         /\ pass'[r].at = "claim" => Told(s0)' \/ \E q \in Runs \ {r} : OwedBy(q, s0)
         /\ pass'[r].listed = pass[r].listed /\ pass'[r].todo = pass[r].todo
         /\ pass'[r].key = pass[r].key
         /\ \A q \in Runs \ {r} : pass'[q] = pass[q]
    BY <1>2, <1>4, <1>6, <1>9
  <1> QED
    BY <1>8, <1>10, WorkKeeps

\* A pass at work that leaves its slot told.
LEMMA LeaveKeeps ==
    ASSUME MailInv, AnswerInv, NEW r \in Runs, pass[r].at \in Working, NextPortfolio(r),
           NEW slot, slot = pass[r].slot,
           mails' = mails, noticed \subseteq noticed',
           \/ receipt' = receipt
           \/ \E status \in {"sent", "failed", "skipped"} : Stamped(r, status),
           Told(slot)' \/ \E q \in Runs \ {r} : OwedBy(q, slot)
    PROVE  AnswerInv'
  <1>1. /\ pass' \in [Runs -> Pass]
        /\ pass'[r].at = "claim" /\ pass'[r].key = pass[r].key
        /\ pass'[r].listed = pass[r].listed /\ pass'[r].todo = pass[r].todo
        /\ \A q \in Runs \ {r} : pass'[q] = pass[q]
    BY NextPortfolioType DEF MailInv
  <1>2. slot \in Slots
    BY DEF MailInv, PassesFounded
  <1>3. /\ \A s \in Slots \ {slot} : receipt'[s] = receipt[s] /\ mails'[s] = mails[s]
        /\ receipt[slot] # "none" => receipt'[slot] # "none"
    BY <1>2 DEF Stamped, MailInv, MailTypeOK
  <1> QED
    BY <1>1, <1>3, WorkKeeps

\* A pass at work that goes on to its notification.
LEMMA ComplainLater ==
    ASSUME MailInv, AnswerInv, NEW r \in Runs, pass[r].at \in Working,
           NEW place \in {"complain", "excuse"}, Go(r, place),
           mails' = mails, noticed' = noticed,
           receipt' = receipt \/ Stamped(r, "failed")
    PROVE  AnswerInv'
  <1> DEFINE slot == pass[r].slot
  <1>1. place \in Working \ {"status"} /\ place \in MailPlace /\ place \in Owing
    BY DEF Working, MailPlace, Owing
  <1>2. /\ pass' \in [Runs -> Pass] /\ pass'[r] = [pass[r] EXCEPT !.at = place]
        /\ \A q \in Runs \ {r} : pass'[q] = pass[q]
    BY <1>1, GoType DEF MailInv
  <1>3. pass[r] \in Pass /\ slot \in Slots
    BY DEF MailInv, MailTypeOK, PassesFounded
  <1>4. /\ pass'[r].at = place /\ pass'[r].slot = slot /\ pass'[r].key = pass[r].key
        /\ pass'[r].listed = pass[r].listed /\ pass'[r].todo = pass[r].todo
    BY <1>2, <1>3 DEF Pass
  <1>5. /\ \A s \in Slots \ {slot} : receipt'[s] = receipt[s] /\ mails'[s] = mails[s]
        /\ receipt[slot] # "none" => receipt'[slot] # "none"
    BY <1>3 DEF Stamped, MailInv, MailTypeOK
  <1> SUFFICES ASSUME NEW s0, s0 = slot PROVE AnswerInv'
    OBVIOUS
  <1>6. /\ \A s \in Slots \ {s0} : receipt'[s] = receipt[s] /\ mails'[s] = mails[s]
        /\ receipt[s0] # "none" => receipt'[s0] # "none"
        /\ pass'[r].at # "claim" => pass'[r].slot = s0
        /\ pass'[r].at \in (Working \ {"status"}) \cup Ended \cup {"claim"}
        /\ pass'[r].at # "claim" /\ pass'[r].at # "fail"
        /\ pass'[r].at \in Owing
        /\ noticed \subseteq noticed'
    BY <1>1, <1>4, <1>5
  <1> QED
    BY <1>2, <1>4, <1>6, WorkKeeps, ZenonT(40)

\* A pass that is not at work moves, and no pass is stuck less than before.
LEMMA IdleKeeps ==
    ASSUME AnswerInv, NEW r \in Runs, pass[r].at \notin Working \cup Ended,
           mails' = mails, noticed' = noticed, receipt' = receipt,
           \A q \in Runs \ {r} : pass'[q] = pass[q]
    PROVE  /\ \A s \in Slots : Told(s) => Told(s)'
           /\ \A s \in Slots : Stuck(s) => Stuck(s)'
           /\ \A s \in Slots : receipt'[s] = "failed" => Told(s)' \/ \E q \in Runs : OwedBy(q, s)'
  <1>1. \A s \in Slots : Told(s) => Told(s)'
    BY DEF Told
  <1>2. \A s \in Slots : Stuck(s) => Stuck(s)'
    BY DEF Stuck, Ended
  <1>3. \A s \in Slots : \A q \in Runs : OwedBy(q, s) => OwedBy(q, s)'
    BY DEF OwedBy, Owing, Ended, Working
  <1> QED
    BY <1>1, <1>2, <1>3 DEF AnswerInv

\* Taking a portfolio from the list: the pass is now stuck with its slot.
LEMMA ClaimAnswers ==
    ASSUME MailInv, AnswerInv, NEW r \in Runs, NEW p \in Portfolios, Claim(r, p)
    PROVE  AnswerInv'
  <1> SUFFICES ASSUME NEW slot, slot = <<p, pass[r].key>> PROVE AnswerInv'
    OBVIOUS
  <1>1. PICK place \in {"evaluate", "status", "error"} :
          /\ pass' = [pass EXCEPT ![r].todo = @ \ {p}, ![r].slot = slot, ![r].at = place]
          /\ place = "status" => receipt[slot] # "none" /\ receipt' = receipt
    BY DEF Claim
  <1>2. /\ pass[r].at = "claim" /\ p \in pass[r].todo /\ mails' = mails /\ noticed' = noticed
        /\ \/ receipt' = receipt
           \/ receipt[slot] = "none" /\ receipt' = [receipt EXCEPT ![slot] = "claimed"]
    BY DEF Claim
  <1>3. /\ slot \in Slots /\ pass[r] \in Pass /\ pass[r].key \in Runs
        /\ pass \in [Runs -> Pass] /\ receipt \in [Slots -> Status]
    BY <1>2 DEF MailInv, MailTypeOK, PassesFounded, Slots
  <1>4. /\ pass'[r].at = place /\ pass'[r].slot = slot /\ pass'[r].key = pass[r].key
        /\ pass'[r].listed = pass[r].listed /\ pass'[r].todo = pass[r].todo \ {p}
        /\ \A q \in Runs \ {r} : pass'[q] = pass[q]
    BY <1>1, <1>3 DEF Pass
  <1>5. place \in Working /\ place # "fail" /\ {"none", "published", "over", "broken", "claim", "dead"} \cap Working = {}
    BY <1>1 DEF Working
  <1>6. /\ \A s \in Slots : receipt[s] # "none" => receipt'[s] = receipt[s]
        /\ \A s \in Slots : receipt'[s] = "failed" => receipt[s] = "failed"
    BY <1>2, <1>3
  <1>7. \A s \in Slots : Told(s) => Told(s)'
    BY <1>2, <1>6 DEF Told
  <1>8. \A s : Stuck(s) => Stuck(s)'
    BY <1>2, <1>4, <1>5 DEF Stuck
  <1>9. Stuck(slot)'
    BY <1>4, <1>5 DEF Stuck
  <1>10. \A s : \A q \in Runs : OwedBy(q, s) => OwedBy(q, s)'
    BY <1>2, <1>4 DEF OwedBy, Owing, Ended
  <1>11. ASSUME NEW q \in Runs, pass'[q].at \in Working \cup {"claim", "over", "broken"},
                NEW o \in pass'[q].listed \ pass'[q].todo, NEW s, s = <<o, pass[q].key>>
         PROVE  (Told(s)' \/ Stuck(s)') /\ pass'[q].key = pass[q].key
    <2>1. CASE s = slot
      BY <2>1, <1>9, <1>4
    <2>2. CASE s # slot
      <3>1. /\ pass[q].at \in Working \cup {"claim", "over", "broken"} /\ pass'[q].key = pass[q].key
            /\ o \in pass[q].listed \ pass[q].todo
        BY <2>2, <1>11, <1>2, <1>4
      <3>2. Told(s) \/ Stuck(s)
        BY <3>1, <1>11 DEF AnswerInv
      <3>3. s \in Slots
        <4>1. o \in Portfolios
          BY <3>1, <1>3 DEF Pass
        <4>2. pass[q].key \in Runs
          BY <3>1 DEF AnswerInv
        <4> QED
          BY <4>1, <4>2, <1>11 DEF Slots
      <3> QED
        BY <3>1, <3>2, <3>3, <1>7, <1>8
    <2> QED
      BY <2>1, <2>2
  <1>12. /\ \A q \in Runs : pass'[q].at = "over" => pass'[q].todo = {}
         /\ \A q \in Runs : pass'[q].listed # {} => pass'[q].key \in Runs
         /\ \A q \in Runs : pass'[q].at \in {"none", "published"} =>
               pass'[q].listed = {} /\ pass'[q].todo = {}
    BY <1>3, <1>4, <1>5 DEF AnswerInv
  <1>13. \A s \in Slots : receipt'[s] = "failed" => Told(s)' \/ \E q \in Runs : OwedBy(q, s)'
    BY <1>6, <1>7, <1>10 DEF AnswerInv
  <1>14. \A q \in Runs : pass'[q].at = "fail" => pass'[q].slot \in noticed'
    BY <1>2, <1>4, <1>5 DEF AnswerInv
  <1>15. ASSUME NEW q \in Runs, pass'[q].at = "status" PROVE receipt'[pass'[q].slot] # "none"
    <2>1. CASE q = r
      BY <2>1, <1>15, <1>1, <1>4
    <2>2. CASE q # r
      <3>1. pass'[q] = pass[q] /\ pass[q].at = "status" /\ "status" \in Working
        BY <2>2, <1>15, <1>4 DEF Working
      <3>2. receipt[pass[q].slot] # "none" /\ pass[q].slot \in Slots
        BY <3>1 DEF AnswerInv, MailInv, PassesFounded
      <3> QED
        BY <3>1, <3>2, <1>6
    <2> QED
      BY <2>1, <2>2
  <1> QED
    BY <1>11, <1>12, <1>13, <1>14, <1>15 DEF AnswerInv

\* A pass that is not at work publishes, opens or closes.
LEMMA IdleAnswers ==
    ASSUME MailInv, AnswerInv, NEW r \in Runs,
           \/ Publish(r)
           \/ Open(r)
           \/ Close(r)
           \/ PassDies(r) /\ pass[r].at = "claim"
    PROVE  AnswerInv'
  <1>1. /\ {"none", "published", "over", "broken", "claim", "dead"} \cap Working = {}
        /\ {"none", "published", "claim"} \cap Ended = {}
    BY DEF Working, Ended
  <1>2. /\ pass[r].at \in {"none", "published", "claim"} /\ mails' = mails
        /\ noticed' = noticed /\ receipt' = receipt
    BY DEF Publish, Open, Close, PassDies
  <1>3. pass[r] \in Pass /\ pass \in [Runs -> Pass]
    BY DEF MailInv, MailTypeOK
  <1>4. /\ \A q \in Runs \ {r} : pass'[q] = pass[q]
        /\ pass'[r].at \in {"published", "claim", "over", "broken", "dead"}
        /\ pass'[r].listed \ pass'[r].todo # {} => pass'[r].at = "dead" \/
              (pass[r].at = "claim" /\ pass'[r].key = pass[r].key
               /\ pass'[r].listed = pass[r].listed /\ pass'[r].todo = pass[r].todo)
        /\ pass'[r].listed # {} => pass'[r].key \in Runs
        /\ pass'[r].at = "over" => pass'[r].todo = {}
        /\ pass'[r].at = "published" => pass'[r].listed = {} /\ pass'[r].todo = {}
    <2>1. CASE Publish(r)
      BY <2>1, <1>3 DEF Publish, Go, Pass, AnswerInv
    <2>2. CASE Open(r)
      <3>1. pass[r].at = "published" /\ artifact \in Runs /\ pass[r].listed = {} /\ pass[r].todo = {}
        BY <2>2 DEF Open, MailInv, PassesFounded, AnswerInv
      <3>2. ASSUME NEW place \in {"over", "broken"}, Go(r, place)
            PROVE  /\ \A q \in Runs \ {r} : pass'[q] = pass[q]
                   /\ pass'[r].at = place /\ pass'[r].listed = {} /\ pass'[r].todo = {}
        BY <3>1, <3>2, <1>3 DEF Go, Pass
      <3>3. CASE pass' = [pass EXCEPT ![r] = [at |-> "claim", key |-> artifact, listed |-> assigned,
                                            todo |-> assigned, slot |-> <<>>]]
        BY <3>1, <3>3, <1>3
      <3> QED
        BY <2>2, <3>2, <3>3 DEF Open
    <2>3. CASE Close(r)
      BY <2>3, <1>3 DEF Close, Go, Pass, AnswerInv
    <2>4. CASE PassDies(r) /\ pass[r].at = "claim"
      BY <2>4, <1>3 DEF PassDies, Go, Pass, AnswerInv
    <2> QED
      BY <2>1, <2>2, <2>3, <2>4
  <1>5. /\ \A s \in Slots : Told(s) => Told(s)'
        /\ \A s \in Slots : Stuck(s) => Stuck(s)'
        /\ \A s \in Slots : receipt'[s] = "failed" => Told(s)' \/ \E q \in Runs : OwedBy(q, s)'
    BY <1>1, <1>2, <1>4, IdleKeeps
  <1>6. ASSUME NEW q \in Runs, pass'[q].at \in Working \cup {"claim", "over", "broken"},
               NEW o \in pass'[q].listed \ pass'[q].todo, NEW s, s = <<o, pass[q].key>>
        PROVE  (Told(s)' \/ Stuck(s)') /\ pass'[q].key = pass[q].key
    <2>1. /\ pass[q].at \in Working \cup {"claim", "over", "broken"} /\ pass'[q].key = pass[q].key
          /\ o \in pass[q].listed \ pass[q].todo
      BY <1>6, <1>1, <1>4
    <2>2. Told(s) \/ Stuck(s)
      BY <2>1, <1>6 DEF AnswerInv
    <2>3. s \in Slots
      <3>1. o \in Portfolios
        BY <2>1, <1>3 DEF Pass
      <3>2. pass[q].key \in Runs
        BY <2>1 DEF AnswerInv
      <3> QED
        BY <3>1, <3>2, <1>6 DEF Slots
    <2> QED
      BY <2>1, <2>2, <2>3, <1>5
  <1>7. /\ \A q \in Runs : pass'[q].at = "over" => pass'[q].todo = {}
        /\ \A q \in Runs : pass'[q].listed # {} => pass'[q].key \in Runs
        /\ \A q \in Runs : pass'[q].at \in {"none", "published"} =>
              pass'[q].listed = {} /\ pass'[q].todo = {}
    BY <1>4 DEF AnswerInv
  <1>8. /\ \A q \in Runs : pass'[q].at = "fail" => pass'[q].slot \in noticed'
        /\ \A q \in Runs : pass'[q].at = "status" => receipt'[pass'[q].slot] # "none"
    BY <1>2, <1>4 DEF AnswerInv
  <1> QED
    BY <1>5, <1>6, <1>7, <1>8 DEF AnswerInv

\* A statement that raised leaves the receipts; the handler speaks later.
LEMMA RaisedAnswers ==
    ASSUME MailInv, AnswerInv, NEW r \in Runs, pass[r].at \in Working,
           StatementRaises(r), mails' = mails, noticed' = noticed
    PROVE  AnswerInv'
  <1>1. "error" \in (Working \ {"status"}) \cup Ended /\ "error" \in Owing
    BY DEF Working, Owing
  <1>2. Go(r, "error") /\ receipt' = receipt
    BY DEF StatementRaises
  <1> QED
    BY <1>1, <1>2, MoveKeeps

LEMMA AnswerStep ==
    ASSUME MailInv, AnswerInv, [MailNext]_dispatch
    PROVE  AnswerInv'
  <1>1. ASSUME NEW r \in Runs, Publish(r) \/ Open(r) \/ Close(r) PROVE AnswerInv'
    BY <1>1, IdleAnswers
  <1>2. ASSUME NEW r \in Runs, NEW p \in Portfolios, Claim(r, p) PROVE AnswerInv'
    BY <1>2, ClaimAnswers
  <1>3. ASSUME NEW r \in Runs, HandleAlreadyClaimed(r) PROVE AnswerInv'
    <2>1. pass[r].at = "status" /\ pass[r].at \in Working /\ mails' = mails
      BY <1>3 DEF HandleAlreadyClaimed, Working
    <2>2. CASE StatementRaises(r) /\ noticed' = noticed
      BY <2>1, <2>2, RaisedAnswers
    <2>3. CASE /\ NextPortfolio(r) /\ receipt' = receipt
               /\ noticed' = IF receipt[pass[r].slot] = "claimed"
                             THEN noticed \cup {pass[r].slot} ELSE noticed
      <3> SUFFICES ASSUME NEW slot, slot = pass[r].slot PROVE AnswerInv'
        OBVIOUS
      <3>1. slot \in Slots /\ receipt[slot] # "none" /\ receipt[slot] \in Status
        BY <2>1 DEF MailInv, MailTypeOK, PassesFounded, AnswerInv
      <3>2. noticed \subseteq noticed'
        BY <2>3
      <3>3. Told(slot)' \/ \E q \in Runs \ {r} : OwedBy(q, slot)
        <4>1. CASE receipt[slot] = "claimed"
          BY <4>1, <2>3 DEF Told
        <4>2. CASE receipt[slot] = "sent"
          BY <4>2, <3>1, <2>1 DEF Told, MailInv, AtMostOneMail
        <4>3. CASE receipt[slot] = "skipped"
          BY <4>3, <2>3 DEF Told
        <4>4. CASE receipt[slot] = "failed"
          <5>1. Told(slot) \/ \E q \in Runs : OwedBy(q, slot)
            BY <4>4, <3>1 DEF AnswerInv
          <5>2. ~OwedBy(r, slot)
            BY <2>1 DEF OwedBy, Owing, Ended
          <5>3. Told(slot) => Told(slot)'
            BY <2>1, <2>3, <3>2 DEF Told
          <5> QED
            BY <5>1, <5>2, <5>3
        <4> QED
          BY <3>1, <4>1, <4>2, <4>3, <4>4 DEF Status
      <3> QED
        BY <2>1, <2>3, <3>2, <3>3, LeaveKeeps
    <2> QED
      BY <1>3, <2>2, <2>3 DEF HandleAlreadyClaimed
  <1>4. ASSUME NEW r \in Runs, Evaluate(r) \/ Send(r) PROVE AnswerInv'
    <2>1. pass[r].at \in {"evaluate", "send"} /\ pass[r].at \in Working
      BY <1>4 DEF Evaluate, Send, Working
    <2>2. PICK place \in {"skip", "send", "unavailable", "error", "mailed", "refused"} : Go(r, place)
      BY <1>4 DEF Evaluate, Send
    <2>3. /\ place \in (Working \ {"status"}) \cup Ended /\ place # "fail"
          /\ pass[r].at \notin Owing
      BY <2>1, <2>2 DEF Working, Owing, Ended
    <2>4. /\ receipt' = receipt /\ noticed' = noticed
          /\ \/ mails' = mails
             \/ pass[r].at = "send" /\ mails' = [mails EXCEPT ![pass[r].slot] = @ + 1]
      BY <1>4 DEF Evaluate, Send
    <2> QED
      BY <2>1, <2>2, <2>3, <2>4, MoveKeeps
  <1>5. ASSUME NEW r \in Runs, MarkSent(r) PROVE AnswerInv'
    <2> SUFFICES ASSUME NEW slot, slot = pass[r].slot PROVE AnswerInv'
      OBVIOUS
    <2>1. pass[r].at = "mailed" /\ pass[r].at \in Working /\ pass[r].at \in Holding
      BY <1>5 DEF MarkSent, Working, Holding
    <2>2. /\ NextPortfolio(r) /\ mails' = mails /\ noticed' = noticed
          /\ Stamped(r, "sent") \/ receipt' = receipt
      BY <1>5 DEF MarkSent
    <2>3. Told(slot)'
      BY <2>1, <2>2 DEF Told, MailInv, HeldOnce
    <2> QED
      BY <2>1, <2>2, <2>3, LeaveKeeps
  <1>6. ASSUME NEW r \in Runs, RecordRefusal(r) PROVE AnswerInv'
    <2>1. /\ pass[r].at = "refused" /\ pass[r].at \in Working /\ pass[r].at \notin Owing
          /\ receipt' = receipt /\ mails' = mails
      BY <1>6 DEF RecordRefusal, Working, Owing, Ended
    <2>2. "fail" \in (Working \ {"status"}) \cup Ended
      BY DEF Working
    <2>3. CASE Go(r, "fail") /\ noticed' = noticed \cup {pass[r].slot}
      BY <2>1, <2>2, <2>3, MoveKeeps
    <2>4. CASE StatementRaises(r) /\ noticed' = noticed
      BY <2>1, <2>4, RaisedAnswers
    <2> QED
      BY <1>6, <2>3, <2>4 DEF RecordRefusal
  <1>7. ASSUME NEW r \in Runs, MarkRefused(r) PROVE AnswerInv'
    <2> SUFFICES ASSUME NEW slot, slot = pass[r].slot PROVE AnswerInv'
      OBVIOUS
    <2>1. pass[r].at = "fail" /\ pass[r].at \in Working /\ mails' = mails /\ noticed' = noticed
      BY <1>7 DEF MarkRefused, Working
    <2>2. CASE StatementRaises(r)
      BY <2>1, <2>2, RaisedAnswers
    <2>3. CASE Stamped(r, "failed") /\ NextPortfolio(r)
      <3>1. Told(slot)'
        BY <2>1 DEF AnswerInv, Told
      <3> QED
        BY <2>1, <2>3, <3>1, LeaveKeeps
    <2> QED
      BY <1>7, <2>2, <2>3 DEF MarkRefused
  <1>8. ASSUME NEW r \in Runs, MarkUnavailable(r) PROVE AnswerInv'
    <2>1. pass[r].at = "unavailable" /\ pass[r].at \in Working /\ mails' = mails /\ noticed' = noticed
      BY <1>8 DEF MarkUnavailable, Working
    <2>2. CASE StatementRaises(r)
      BY <2>1, <2>2, RaisedAnswers
    <2>3. CASE Stamped(r, "failed") /\ Go(r, "excuse")
      BY <2>1, <2>3, ComplainLater
    <2> QED
      BY <1>8, <2>2, <2>3 DEF MarkUnavailable
  <1>9. ASSUME NEW r \in Runs, MarkSkipped(r) PROVE AnswerInv'
    <2> SUFFICES ASSUME NEW slot, slot = pass[r].slot PROVE AnswerInv'
      OBVIOUS
    <2>1. pass[r].at = "skip" /\ pass[r].at \in Working /\ mails' = mails /\ noticed' = noticed
      BY <1>9 DEF MarkSkipped, Working
    <2>2. CASE StatementRaises(r)
      BY <2>1, <2>2, RaisedAnswers
    <2>3. CASE Stamped(r, "skipped") /\ NextPortfolio(r)
      <3>1. slot \in Slots /\ receipt \in [Slots -> Status]
        BY <2>1 DEF MailInv, MailTypeOK, PassesFounded
      <3>2. receipt'[slot] = "skipped"
        BY <2>3, <3>1 DEF Stamped
      <3>3. Told(slot)'
        BY <3>2 DEF Told
      <3> QED
        BY <2>1, <2>3, <3>3, LeaveKeeps
    <2> QED
      BY <1>9, <2>2, <2>3 DEF MarkSkipped
  <1>10. ASSUME NEW r \in Runs, HandleError(r) PROVE AnswerInv'
    <2>1. pass[r].at \in Working
      BY <1>10 DEF HandleError, Working
    <2>2. /\ mails' = mails /\ noticed' = noticed /\ Go(r, "complain")
          /\ receipt' = receipt \/ Stamped(r, "failed")
      BY <1>10 DEF HandleError
    <2> QED
      BY <2>1, <2>2, ComplainLater
  <1>11. ASSUME NEW r \in Runs, Complain(r) PROVE AnswerInv'
    <2> SUFFICES ASSUME NEW slot, slot = pass[r].slot PROVE AnswerInv'
      OBVIOUS
    <2>1. pass[r].at \in Working
      BY <1>11 DEF Complain, Working
    <2>2. mails' = mails /\ receipt' = receipt
      BY <1>11 DEF Complain
    <2>3. CASE NextPortfolio(r) /\ noticed' = noticed \cup {slot}
      <3>1. Told(slot)'
        BY <2>3 DEF Told
      <3> QED
        BY <2>1, <2>2, <2>3, <3>1, LeaveKeeps
    <2>4. CASE Go(r, "broken") /\ noticed' = noticed
      <3>1. "broken" \in (Working \ {"status"}) \cup Ended /\ "broken" \in Owing
        BY DEF Ended, Owing
      <3> QED
        BY <2>1, <2>2, <2>4, <3>1, MoveKeeps
    <2> QED
      BY <1>11, <2>3, <2>4 DEF Complain
  <1>o. ASSUME NEW r \in Runs, RecordUnavailable(r) PROVE AnswerInv'
    <2> SUFFICES ASSUME NEW slot, slot = pass[r].slot PROVE AnswerInv'
      OBVIOUS
    <2>1. pass[r].at \in Working /\ receipt' = receipt /\ mails' = mails
      BY <1>o DEF RecordUnavailable, StatementRaises, Working
    <2>2. CASE StatementRaises(r) /\ noticed' = noticed
      BY <2>1, <2>2, RaisedAnswers
    <2>3. CASE NextPortfolio(r) /\ noticed' = noticed \cup {slot}
      <3>1. Told(slot)'
        BY <2>3 DEF Told
      <3> QED
        BY <2>1, <2>3, <3>1, LeaveKeeps
    <2> QED
      BY <1>o, <2>2, <2>3 DEF RecordUnavailable
  <1>12. ASSUME NEW r \in Runs, PassDies(r) PROVE AnswerInv'
    <2>1. CASE pass[r].at = "claim"
      BY <1>12, <2>1, IdleAnswers
    <2>2. CASE pass[r].at \in Working
      <3>1. "dead" \in (Working \ {"status"}) \cup Ended /\ "dead" \in Owing
        BY DEF Ended, Owing
      <3>2. Go(r, "dead") /\ receipt' = receipt /\ mails' = mails /\ noticed \subseteq noticed'
        BY <1>12 DEF PassDies
      <3> QED
        BY <2>2, <3>1, <3>2, MoveKeeps
    <2> QED
      BY <1>12, <2>1, <2>2 DEF PassDies
  <1>13. CASE UNCHANGED <<receipt, pass, mails, noticed>>
    <2>1. receipt' = receipt /\ pass' = pass /\ mails' = mails /\ noticed' = noticed
      BY <1>13
    <2>2. \A s : Told(s)' = Told(s) /\ Stuck(s)' = Stuck(s)
      BY <2>1 DEF Told, Stuck
    <2>3. \A s : \A q \in Runs : OwedBy(q, s)' = OwedBy(q, s)
      BY <2>1 DEF OwedBy
    <2> QED
      BY <2>1, <2>2, <2>3 DEF AnswerInv
  <1> QED
    BY <1>1, <1>2, <1>3, <1>4, <1>5, <1>6, <1>7, <1>8, <1>9, <1>10, <1>11, <1>o, <1>12, <1>13
       DEF MailNext, DispatchAll, Assign, dispatch

LEMMA AnswerStart == MailInit => AnswerInv
  BY DEF MailInit, AnswerInv, NoPass, Told

\* What a finished pass listed was mailed, had lost its assignment, is in the
\* notification centre, or hangs on a pass that is still at it or has ended
\* without a word of it.  That holds of a pass which the handler of one portfolio
\* broke off too, for the portfolios it had come to; the others lost their turn.
THEOREM EveryPortfolioIsAnswered == MailSpec => []EveryPortfolioAnswered
  <1>1. MailInv /\ AnswerInv => EveryPortfolioAnswered
    BY DEF AnswerInv, Told, EveryPortfolioAnswered, Dropped
  <1>2. MailInv /\ AnswerInv /\ [MailNext]_dispatch => MailInv' /\ AnswerInv'
    BY MailStep, AnswerStep
  <1> QED
    BY <1>1, <1>2, MailStart, AnswerStart, PTL DEF MailSpec

-----------------------------------------------------------------------------
(* The alerts.                                                              *)

\* A position the trailing pass has been through is not above its ticker's peak,
\* and has been mailed if it has fallen far enough.
Judged(h) ==
    /\ Quote(h) <= peak[h.ticker]
    /\ TrailPercent \in 1..99 /\ Fallen(h.ticker) =>
         \E k \in agent.hard \cup agent.trailing : k.ticker = h.ticker

\* The rows are numbered and there is a last one; a ticker's peak is not below
\* what any finished run judged.
BookOK ==
    /\ agent \in Agent
    /\ date \in 0..LastDate
    /\ alerts \subseteq Setup
    /\ \E last \in Nat : \A a \in alerts : a.rowid <= last
    /\ peak \in [Tickers -> Nat] /\ seen \in [Tickers -> Nat]
    /\ \A t \in Tickers : seen[t] <= peak[t]

\* What the trailing pass has done of its work.
Trailing ==
    /\ agent.at # "trail" => agent.trailing = {}
    /\ agent.at = "trail" =>
         /\ \A h, k \in agent.trailing : h.ticker = k.ticker => h = k
         /\ \A h \in agent.hard, k \in agent.trailing : h.ticker # k.ticker
         /\ \A h \in Held \ agent.held : Judged(h)

AlertInv == BookOK /\ OneOpenSetup /\ Trailing

LEMMA IdleAgentOK == IdleAgent \in Agent
<1>1. 0 \in Price
  BY AlertAssumption DEF Price
<1>2. Unscanned \in [Tickers -> Record] /\ [t \in Tickers |-> 0] \in [Tickers -> Price]
  BY <1>1 DEF Unscanned, Record, Trigger
<1> QED
  BY <1>2 DEF IdleAgent, Agent

\* A set of rows with a last one has the largest rowid that Max chooses.
LEMMA RowidFresh ==
    ASSUME BookOK
    PROVE  NextRowid \in Nat /\ \A a \in alerts : a.rowid < NextRowid
<1> DEFINE ids == {0} \cup {a.rowid : a \in alerts}
           bounds == {n \in Nat : \A id \in ids : id <= n}
<1>1. ids \subseteq Nat
  BY DEF BookOK, Setup
<1>2. bounds \subseteq Nat /\ bounds # {}
  <2>1. PICK last \in Nat : \A a \in alerts : a.rowid <= last
    BY DEF BookOK
  <2>2. last \in bounds
    BY <2>1
  <2> QED
    BY <2>2
<1>3. PICK n \in bounds : \A m \in bounds : ~ (<<m, n>> \in OpToRel(<, Nat))
  <2> HIDE DEF bounds
  <2> QED
    BY <1>2, WFMin, NatLessThanWellFounded
<1>4. \A m \in bounds : ~ (m < n)
  BY <1>2, <1>3 DEF OpToRel
<1>5. n \in ids
  <2> SUFFICES ASSUME n \notin ids PROVE FALSE
    OBVIOUS
  <2>1. n # 0 /\ \A id \in ids : id < n
    BY <1>1
  <2>2. n - 1 \in bounds
    BY <1>1, <2>1
  <2> QED
    BY <1>4, <2>2
<1>6. Max(ids) \in ids /\ \A id \in ids : Max(ids) >= id
  BY <1>5 DEF Max
<1> HIDE DEF ids
<1>7. NextRowid = Max(ids) + 1
  BY DEF NextRowid, ids
<1>8. \A a \in alerts : a.rowid \in ids
  BY DEF ids
<1>9. Max(ids) \in Nat /\ \A id \in ids : id \in Nat
  BY <1>1, <1>6
<1>10. ASSUME NEW a \in alerts PROVE a.rowid < NextRowid
  BY <1>6, <1>7, <1>8, <1>9
<1> QED
  BY <1>7, <1>9, <1>10

\* A lower price times a share of it is no more than a higher price times it.
LEMMA Shares ==
    ASSUME NEW a \in Nat, NEW b \in Nat, a <= b, NEW c \in Nat
    PROVE  a * c <= b * c
  OBVIOUS

LEMMA HigherOK ==
    ASSUME NEW a \in Nat, NEW b \in Nat
    PROVE  Higher(a, b) \in Nat /\ a <= Higher(a, b) /\ b <= Higher(a, b)
  BY DEF Higher

\* The rows keep their numbers and their order of events when one is settled.
LEMMA ResolvedOK ==
    ASSUME BookOK, OneOpenSetup, NEW a \in alerts, NEW status \in {"entered", "stopped"},
           alerts' = Resolved(a, status)
    PROVE  /\ alerts' \subseteq Setup /\ OneOpenSetup'
           /\ \E last \in Nat : \A b \in alerts' : b.rowid <= last
<1> DEFINE b == [a EXCEPT !.status = status]
<1>1. a \in alerts /\ a \in Setup
  BY DEF BookOK
<1>2. b \in Setup /\ b.rowid = a.rowid /\ b.status # "watching"
  BY <1>1 DEF Setup
<1> HIDE DEF b
<1>3. alerts' = (alerts \ {a}) \cup {b}
  BY DEF Resolved, b
<1>4. alerts' \subseteq Setup /\ \E last \in Nat : \A c \in alerts' : c.rowid <= last
  BY <1>1, <1>2, <1>3 DEF BookOK
<1>5. Watching' \subseteq Watching
  BY <1>2, <1>3 DEF Watching
<1>6. \A c, d \in alerts' : c.rowid = d.rowid => c = d
  BY <1>1, <1>2, <1>3 DEF OneOpenSetup
<1> QED
  BY <1>4, <1>5, <1>6 DEF OneOpenSetup

\* A step of the agent outside the trailing pass.
LEMMA Elsewhere ==
    ASSUME BookOK, agent' \in Agent, agent'.at # "trail", agent'.trailing = {},
           alerts' \subseteq Setup, \E last \in Nat : \A a \in alerts' : a.rowid <= last,
           OneOpenSetup', UNCHANGED <<date, peak, seen>>
    PROVE  AlertInv'
  BY DEF BookOK, Trailing, AlertInv

LEMMA SameAlerts ==
    ASSUME BookOK, OneOpenSetup, alerts' \subseteq alerts
    PROVE  /\ alerts' \subseteq Setup /\ OneOpenSetup'
           /\ \E last \in Nat : \A a \in alerts' : a.rowid <= last
  BY DEF BookOK, OneOpenSetup, Watching

LEMMA ScanKeeps == ASSUME AlertInv, Scan PROVE AlertInv'
<1>1. PICK scan \in [Tickers -> Record] :
        agent' = [IdleAgent EXCEPT !.at = "clear", !.scan = scan]
  BY DEF Scan
<1>2. agent' \in Agent /\ agent'.at = "clear" /\ agent'.trailing = {}
  BY <1>1, IdleAgentOK DEF IdleAgent, Agent
<1> QED
  BY <1>2, SameAlerts, Elsewhere DEF Scan, AlertInv

LEMMA ClearKeeps == ASSUME AlertInv, ClearTerminal PROVE AlertInv'
<1>1. {a.rowid : a \in Watching} \subseteq Nat /\ agent.trailing = {} /\ agent \in Agent
  BY DEF ClearTerminal, AlertInv, BookOK, Watching, Setup, Trailing
<1>2. agent' \in Agent /\ agent'.at = "rows" /\ agent'.trailing = {}
  BY <1>1 DEF ClearTerminal, Agent
<1>3. alerts' \subseteq alerts
  BY DEF ClearTerminal, Watching
<1> QED
  BY <1>2, <1>3, SameAlerts, Elsewhere DEF ClearTerminal, AlertInv

LEMMA CheckPositionKeeps == ASSUME AlertInv, NEW a \in alerts, CheckPosition(a) PROVE AlertInv'
<1> DEFINE rest == [agent EXCEPT !.rows = @ \ {a.rowid}]
<1>1. /\ agent \in Agent /\ agent.at = "rows" /\ agent.trailing = {} /\ a \in Setup
  BY DEF CheckPosition, AlertInv, BookOK, Trailing
<1>2. rest \in Agent /\ rest.at = "rows" /\ rest.trailing = {}
  BY <1>1 DEF Agent
<1> HIDE DEF rest
<1>3. a.ticker \in Tickers
  BY <1>1 DEF Setup
<1>4. /\ [rest EXCEPT !.entered = @ \cup {a.ticker}] \in Agent
      /\ [rest EXCEPT !.entered = @ \cup {a.ticker}].at = "rows"
      /\ [rest EXCEPT !.entered = @ \cup {a.ticker}].trailing = {}
  BY <1>2, <1>3 DEF Agent
<1>5. /\ [rest EXCEPT !.stopped = @ \cup {a.ticker}] \in Agent
      /\ [rest EXCEPT !.stopped = @ \cup {a.ticker}].at = "rows"
      /\ [rest EXCEPT !.stopped = @ \cup {a.ticker}].trailing = {}
  BY <1>2, <1>3 DEF Agent
<1>6. agent' \in Agent /\ agent'.at = "rows" /\ agent'.trailing = {}
  BY <1>2, <1>4, <1>5 DEF CheckPosition, rest
<1>7. (\E status \in {"entered", "stopped"} : alerts' = Resolved(a, status)) \/ alerts' = alerts
  BY DEF CheckPosition
<1>8. /\ alerts' \subseteq Setup /\ OneOpenSetup'
      /\ \E last \in Nat : \A b \in alerts' : b.rowid <= last
  BY <1>7, ResolvedOK, SameAlerts DEF AlertInv
<1> QED
  BY <1>6, <1>8, Elsewhere DEF CheckPosition, AlertInv

LEMMA JudgeKeeps == ASSUME AlertInv, NEW t \in Tickers, Judge(t) PROVE AlertInv'
<1>1. /\ BookOK /\ OneOpenSetup /\ agent \in Agent /\ agent.at = "tickers"
      /\ agent.trailing = {}
  BY DEF Judge, AlertInv, BookOK, Trailing
<1> DEFINE rest == [agent EXCEPT !.tickers = @ \ {t}]
<1>2. rest \in Agent /\ rest.at = "tickers" /\ rest.trailing = {}
  BY <1>1 DEF Agent
<1> HIDE DEF rest
<1>3. /\ [rest EXCEPT !.buys = @ \cup {t}] \in Agent
      /\ [rest EXCEPT !.buys = @ \cup {t}].at = "tickers"
      /\ [rest EXCEPT !.buys = @ \cup {t}].trailing = {}
  BY <1>2 DEF Agent
<1>4. agent' \in Agent /\ agent'.at = "tickers" /\ agent'.trailing = {}
  BY <1>2, <1>3 DEF Judge, rest
<1>5. CASE UNCHANGED alerts
  BY <1>1, <1>4, <1>5, SameAlerts, Elsewhere DEF Judge
<1>6. CASE ShouldAlert(t) /\ \E b : /\ b = [rowid |-> NextRowid, ticker |-> t, day |-> date,
                                            status |-> "watching"]
                                     /\ alerts' = alerts \cup {b}
  <2>1. PICK b : /\ b = [rowid |-> NextRowid, ticker |-> t, day |-> date, status |-> "watching"]
                 /\ alerts' = alerts \cup {b}
    BY <1>6
  <2>2. /\ b \in Setup /\ b.ticker = t /\ b.rowid = NextRowid
        /\ \A a \in alerts : a.rowid < b.rowid /\ a.rowid \in Nat
    BY <1>1, <2>1, RowidFresh DEF BookOK, Setup
  <2>3. \A a \in Watching : a.ticker # t
    BY <1>6 DEF ShouldAlert, WasRecentlyAlerted
  <2>4. alerts' \subseteq Setup /\ \A a \in alerts' : a.rowid <= b.rowid
    BY <1>1, <2>1, <2>2 DEF BookOK, Setup
  <2>5. Watching' \subseteq Watching \cup {b}
    BY <2>1 DEF Watching
  <2>6. OneOpenSetup'
    BY <1>1, <2>1, <2>2, <2>3, <2>5 DEF OneOpenSetup
  <2>7. b.rowid \in Nat
    BY <2>2 DEF Setup
  <2> QED
    BY <1>1, <1>4, <2>4, <2>6, <2>7, Elsewhere DEF Judge
<1> QED
  BY <1>5, <1>6 DEF Judge

\* The holdings are priced: nothing is judged yet.
LEMMA StopsKeep == ASSUME AlertInv, CheckPortfolioStops PROVE AlertInv'
<1>1. /\ BookOK /\ OneOpenSetup /\ agent \in Agent /\ agent.at = "tickers"
      /\ agent.trailing = {}
  BY DEF CheckPortfolioStops, AlertInv, BookOK, Trailing
<1>2. PICK quote \in [Tickers -> Price], hard \in SUBSET Held :
        agent' = [agent EXCEPT !.at = "trail", !.quote = quote, !.held = Held, !.hard = hard]
  BY DEF CheckPortfolioStops
<1>3. /\ agent' \in Agent /\ agent'.at = "trail" /\ agent'.held = Held
      /\ agent'.trailing = {}
  BY <1>1, <1>2 DEF Agent
<1>4. Trailing'
  BY <1>3 DEF Trailing
<1>5. BookOK' /\ OneOpenSetup'
  BY <1>1, <1>3 DEF CheckPortfolioStops, BookOK, OneOpenSetup, Watching
<1> QED
  BY <1>4, <1>5 DEF AlertInv

\* One position is judged by the peak it leaves behind, which is not below any
\* quote judged before.
LEMMA TrailingKeeps == ASSUME AlertInv, NEW h \in Held, CheckTrailingStop(h) PROVE AlertInv'
<1>1. /\ BookOK /\ OneOpenSetup /\ Trailing /\ agent \in Agent /\ agent.at = "trail"
      /\ h \in agent.held
  BY DEF CheckTrailingStop, AlertInv, BookOK
<1>2. /\ h.ticker \in Tickers /\ h.cost \in Nat /\ TrailPercent \in Nat /\ TopPrice \in Nat
      /\ \A k \in Held : k.ticker \in Tickers /\ Quote(k) \in Nat
  BY <1>1, AlertAssumption DEF Agent, Price, Quote
<1> DEFINE rest == [agent EXCEPT !.held = @ \ {h}]
           mailed == [rest EXCEPT !.trailing = @ \cup {h}]
<1>3. /\ rest \in Agent /\ rest.at = "trail" /\ rest.held = agent.held \ {h}
      /\ rest.quote = agent.quote /\ rest.hard = agent.hard /\ rest.trailing = agent.trailing
  BY <1>1 DEF Agent
<1>4. /\ mailed \in Agent /\ mailed.at = "trail" /\ mailed.held = agent.held \ {h}
      /\ mailed.quote = agent.quote /\ mailed.hard = agent.hard
      /\ mailed.trailing = agent.trailing \cup {h}
  BY <1>1, <1>3 DEF Agent
<1> HIDE DEF rest, mailed
<1>5. agent' = rest \/ agent' = mailed
  BY DEF CheckTrailingStop, rest, mailed
<1>6. /\ agent' \in Agent /\ agent'.at = "trail" /\ agent'.held = agent.held \ {h}
      /\ agent'.quote = agent.quote /\ agent'.hard = agent.hard
      /\ agent.trailing \subseteq agent'.trailing
  BY <1>3, <1>4, <1>5
<1>7. /\ peak' \in [Tickers -> Nat] /\ \A t \in Tickers : peak[t] <= peak'[t]
      /\ Quote(h) <= peak'[h.ticker]
  <2>1. CASE UNCHANGED peak /\ Quote(h) = 0
    BY <1>1, <1>2, <2>1 DEF BookOK
  <2>2. CASE \E seed \in {h.cost, peak[h.ticker]} :
               /\ seed = h.cost => peak[h.ticker] = 0 \/ seed = peak[h.ticker]
               /\ peak' = [peak EXCEPT ![h.ticker] = Higher(seed, Quote(h))]
    <3>1. PICK seed \in {h.cost, peak[h.ticker]} :
               /\ seed = h.cost => peak[h.ticker] = 0 \/ seed = peak[h.ticker]
               /\ peak' = [peak EXCEPT ![h.ticker] = Higher(seed, Quote(h))]
      BY <2>2
    <3>2. seed \in Nat /\ peak[h.ticker] <= seed /\ peak \in [Tickers -> Nat]
      BY <1>1, <1>2, <3>1 DEF BookOK
    <3>3. Higher(seed, Quote(h)) \in Nat /\ seed <= Higher(seed, Quote(h))
          /\ Quote(h) <= Higher(seed, Quote(h))
      BY <1>2, <3>2, HigherOK
    <3>4. peak[h.ticker] \in Nat /\ peak[h.ticker] <= Higher(seed, Quote(h))
      BY <1>2, <3>2, <3>3
    <3> QED
      BY <1>2, <3>1, <3>2, <3>3, <3>4
  <2> QED
    BY <2>1, <2>2 DEF CheckTrailingStop, RecordHigh
<1>8. BookOK'
  <2>1. \A t \in Tickers : seen[t] <= peak'[t]
    BY <1>1, <1>7 DEF BookOK
  <2> QED
    BY <1>1, <1>6, <1>7, <2>1 DEF BookOK, CheckTrailingStop
<1>9. OneOpenSetup'
  BY <1>1 DEF CheckTrailingStop, OneOpenSetup, Watching
<1>10. ASSUME NEW k \in Held \ agent.held PROVE Judged(k)'
  <2>1. Judged(k)
    BY <1>1, <1>10 DEF Trailing
  <2>2. Quote(k)' = Quote(k) /\ seen' = seen
    BY <1>6 DEF Quote, CheckTrailingStop
  <2>3. Quote(k) <= peak'[k.ticker]
    <3>1. /\ peak[k.ticker] \in Nat /\ peak'[k.ticker] \in Nat
          /\ peak[k.ticker] <= peak'[k.ticker] /\ Quote(k) <= peak[k.ticker] /\ Quote(k) \in Nat
      BY <1>1, <1>2, <1>7, <2>1 DEF BookOK, Judged
    <3> QED
      BY <3>1
  <2> QED
    BY <1>6, <2>1, <2>2, <2>3 DEF Judged, Fallen
<1>11. Judged(h)'
  <2> SUFFICES ASSUME TrailPercent \in 1..99, Fallen(h.ticker)'
               PROVE  \E k \in agent'.hard \cup agent'.trailing : k.ticker = h.ticker
    BY <1>6, <1>7 DEF Judged, Quote
  <2>1. Quote(h) # 0 /\ 100 * Quote(h) <= seen[h.ticker] * (100 - TrailPercent)
    BY <1>6 DEF Fallen, Quote, CheckTrailingStop
  <2>2. 100 * Quote(h) <= peak'[h.ticker] * (100 - TrailPercent)
    <3>1. /\ seen[h.ticker] \in Nat /\ peak'[h.ticker] \in Nat
          /\ seen[h.ticker] <= peak'[h.ticker] /\ 100 - TrailPercent \in Nat
      BY <1>2, <1>8 DEF BookOK, CheckTrailingStop
    <3>2. seen[h.ticker] * (100 - TrailPercent) <= peak'[h.ticker] * (100 - TrailPercent)
      BY <3>1, Shares
    <3> QED
      BY <1>2, <2>1, <3>1, <3>2
  <2>3. CASE AlreadyAlerted(h)
    BY <1>6, <2>3 DEF AlreadyAlerted
  <2>4. CASE ~AlreadyAlerted(h)
    <3>1. PICK high : peak' = [peak EXCEPT ![h.ticker] = high] /\
             agent' = IF TrailPercent \in 1..99 /\ ~AlreadyAlerted(h)
                         /\ 100 * Quote(h) <= high * (100 - TrailPercent)
                      THEN mailed ELSE rest
      BY <2>1 DEF CheckTrailingStop, rest, mailed
    <3>2. high = peak'[h.ticker]
      BY <1>1, <1>2, <3>1 DEF BookOK
    <3>3. agent' = mailed
      BY <2>2, <2>4, <3>1, <3>2
    <3> QED
      BY <1>4, <3>3
  <2> QED
    BY <2>3, <2>4
<1>12. /\ \A k, m \in agent'.trailing : k.ticker = m.ticker => k = m
       /\ \A k \in agent'.hard, m \in agent'.trailing : k.ticker # m.ticker
  <2>1. CASE agent' = rest
    BY <1>1, <1>3, <2>1 DEF Trailing
  <2>2. CASE agent' = mailed /\ ~AlreadyAlerted(h)
    BY <1>1, <1>4, <2>2 DEF Trailing, AlreadyAlerted
  <2> QED
    BY <2>1, <2>2 DEF CheckTrailingStop, rest, mailed
<1>13. Trailing'
  BY <1>6, <1>10, <1>11, <1>12 DEF Trailing
<1> QED
  BY <1>8, <1>9, <1>13 DEF AlertInv

\* What a finished run judged is not above the peaks it left.
LEMMA SummaryKeeps == ASSUME AlertInv, SendSummaryEmail PROVE AlertInv'
<1>1. /\ BookOK /\ OneOpenSetup /\ agent \in Agent
      /\ \A h \in Held : Quote(h) <= peak[h.ticker]
  BY DEF SendSummaryEmail, AlertInv, BookOK, Trailing, Judged
<1>2. ASSUME NEW t \in Tickers PROVE seen'[t] \in Nat /\ seen'[t] <= peak[t]
  <2> DEFINE quote == IF \E h \in Held : h.ticker = t THEN agent.quote[t] ELSE 0
  <2>1. quote \in Nat /\ quote <= peak[t] /\ seen[t] \in Nat /\ seen[t] <= peak[t]
    BY <1>1, AlertAssumption DEF BookOK, Agent, Price, Quote
  <2>2. seen'[t] = Higher(seen[t], quote)
    BY DEF SendSummaryEmail
  <2> QED
    BY <2>1, <2>2 DEF Higher
<1>3. seen' \in [Tickers -> Nat]
  BY <1>2 DEF SendSummaryEmail
<1>4. BookOK' /\ OneOpenSetup'
  BY <1>1, <1>2, <1>3, IdleAgentOK DEF SendSummaryEmail, BookOK, OneOpenSetup, Watching
<1>5. Trailing'
  BY DEF SendSummaryEmail, Trailing, IdleAgent
<1> QED
  BY <1>4, <1>5 DEF AlertInv

LEMMA AlertStep == ASSUME AlertInv, [AlertNext]_alertBook PROVE AlertInv'
<1>1. CASE CheckedPositions
  <2>1. agent \in Agent /\ agent.trailing = {}
    BY <1>1 DEF CheckedPositions, AlertInv, BookOK, Trailing
  <2>2. agent' \in Agent /\ agent'.at = "tickers" /\ agent'.trailing = {}
    BY <1>1, <2>1 DEF CheckedPositions, Agent
  <2> QED
    BY <1>1, <2>2, SameAlerts, Elsewhere DEF CheckedPositions, AlertInv
<1>2. CASE AgentDies
  <2>1. agent' \in Agent /\ agent'.at = "idle" /\ agent'.trailing = {}
    BY <1>2, IdleAgentOK DEF AgentDies, IdleAgent
  <2> QED
    BY <1>2, <2>1, SameAlerts, Elsewhere DEF AgentDies, AlertInv
<1>3. CASE Tomorrow
  <2>1. date' \in 0..LastDate /\ UNCHANGED <<alerts, peak, agent, seen>> /\ agent.at # "trail"
    BY <1>3, AlertAssumption DEF Tomorrow, AlertInv, BookOK
  <2> QED
    BY <2>1 DEF AlertInv, BookOK, OneOpenSetup, Watching, Trailing
<1>4. CASE UNCHANGED alertBook
  <2>1. UNCHANGED <<date, alerts, peak, agent, seen>>
    BY <1>4 DEF alertBook
  <2> QED
    BY <2>1 DEF AlertInv, BookOK, OneOpenSetup, Watching, Trailing, Judged, Quote, Fallen
<1> QED
  BY <1>1, <1>2, <1>3, <1>4, ScanKeeps, ClearKeeps, CheckPositionKeeps, JudgeKeeps, StopsKeep,
     TrailingKeeps, SummaryKeeps DEF AlertNext

LEMMA AlertInvariant == AlertSpec => []AlertInv
<1>1. ASSUME AlertInit PROVE AlertInv
  <2>1. BookOK
    BY <1>1, IdleAgentOK, AlertAssumption DEF AlertInit, BookOK
  <2>2. OneOpenSetup
    BY <1>1 DEF AlertInit, OneOpenSetup, Watching
  <2>3. Trailing
    BY <1>1 DEF AlertInit, Trailing, IdleAgent
  <2> QED
    BY <2>1, <2>2, <2>3 DEF AlertInv
<1> QED
  BY <1>1, AlertStep, PTL DEF AlertSpec

\* However many runs are killed half-way and whatever rows they leave, a ticker
\* is watched through one row at most, and the rowid SQLite gives a new row is
\* never that of a row still there.
THEOREM OneSetupAlwaysOpen == AlertSpec => []OneOpenSetup
<1>1. AlertInv => OneOpenSetup
  BY DEF AlertInv
<1> QED
  BY <1>1, AlertInvariant, PTL

\* Whatever runs died before, check_trailing_stops misses no ticker that has
\* fallen far enough from what a finished run saw, and mails none twice.
THEOREM FallsAlwaysMailedOnce == AlertSpec => []FallMailedOnce
<1>1. ASSUME AlertInv PROVE FallMailedOnce
  BY <1>1 DEF AlertInv, Trailing, Judged, FallMailedOnce
<1> QED
  BY <1>1, AlertInvariant, PTL
=============================================================================
