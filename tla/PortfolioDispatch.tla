-------------------------- MODULE PortfolioDispatch --------------------------
(***************************************************************************)
(* The recommendation mails of the pipeline runs: dispatch_all claims a     *)
(* receipt per assigned portfolio and analysis run, evaluates the strategy  *)
(* of the portfolio on the published artifact, sends one mail and closes    *)
(* the receipt.  Runs may overlap, the artifact they read is whichever was  *)
(* published last, every statement on the receipts and every read of a      *)
(* portfolio's name may raise (a locked database), the mail server may      *)
(* refuse a mail, or take it and then fail, and a run may be killed between *)
(* any two steps.                                                           *)
(*                                                                          *)
(* The notification centre, another database, is taken to record what it is *)
(* given.  A mail handed to the server counts as sent.                      *)
(***************************************************************************)
EXTENDS Naturals

CONSTANTS
    Portfolios,
    Runs,           \* pipeline runs, by run_id
    NoRun           \* no artifact was ever published

ASSUME MailAssumption == NoRun \notin Runs

VARIABLES
    artifact,   \* the run whose analysis artifact is on disk
    assigned,   \* the portfolios with a strategy
    receipt,    \* portfolio_recommendation_dispatches: portfolio, run |-> status
    pass,       \* run |-> its pass of dispatch_all
    mails,      \* history: portfolio, run |-> mails handed to the server
    noticed     \* history: the slots whose failure the notification centre has

dispatch == <<artifact, assigned, receipt, pass, mails, noticed>>

Slots == Portfolios \X Runs
Status == {"none", "claimed", "sent", "failed", "skipped"}

\* Where a pass is.  refused, unavailable, skip, mailed: what _dispatch_one
\* returned.  error: the exception handler; complain: its notification.
\* broken: an exception has left dispatch_all.
Working == {"status", "evaluate", "send", "mailed", "refused", "fail",
            "unavailable", "excuse", "skip", "error", "complain"}
MailPlace ==
    {"none", "published", "claim", "over", "broken", "dead"} \cup Working

\* listed: what list_assigned answered.  todo: what is left of it.  slot: the
\* portfolio at hand and the run its receipt is keyed on.
Pass == [at : MailPlace, key : Runs \cup {NoRun}, listed : SUBSET Portfolios,
         todo : SUBSET Portfolios, slot : Slots \cup {<<>>}]
NoPass == [at |-> "none", key |-> NoRun, listed |-> {}, todo |-> {}, slot |-> <<>>]

Go(r, place) == pass' = [pass EXCEPT ![r].at = place]
\* The loop goes on to its next portfolio.
NextPortfolio(r) == pass' = [pass EXCEPT ![r].at = "claim", ![r].slot = <<>>]

\* The UPDATEs mark_sent, mark_failed, mark_skipped.
Stamped(r, status) == receipt' = [receipt EXCEPT ![pass[r].slot] = status]

\* Inside the portfolio's block any statement on its receipt may raise, and so
\* may _portfolio_name, which reads the trades database for the title of every
\* notification before it is recorded.
StatementRaises(r) ==
    /\ Go(r, "error")
    /\ UNCHANGED receipt

-----------------------------------------------------------------------------
(* One pass.                                                                *)

\* The run has put its analysis artifact in place of the previous one.
Publish(r) ==
    /\ pass[r].at = "none"
    /\ artifact' = r
    /\ Go(r, "published")
    /\ UNCHANGED <<assigned, receipt, mails, noticed>>

\* dispatch_all up to its loop: the artifact on disk names the run, whatever
\* the caller's.  If it cannot be read there is nothing to send; list_assigned
\* may raise.
Open(r) ==
    /\ pass[r].at = "published"
    /\ \/ pass' = [pass EXCEPT ![r] =
            [at |-> "claim", key |-> artifact, listed |-> assigned,
             todo |-> assigned, slot |-> <<>>]]
       \/ Go(r, "over")
       \/ Go(r, "broken")
    /\ UNCHANGED <<artifact, assigned, receipt, mails, noticed>>

\* PortfolioDispatchRepository.claim: INSERT OR IGNORE, taken if it inserted.
\* Mutants: an INSERT that replaces; a check and an INSERT apart.
ClaimReplacing(r, p) ==
    /\ pass[r].at = "claim" /\ p \in pass[r].todo
    /\ receipt' = [receipt EXCEPT ![<<p, pass[r].key>>] = "claimed"]
    /\ pass' = [pass EXCEPT ![r].todo = @ \ {p}, ![r].slot = <<p, pass[r].key>>,
                            ![r].at = "evaluate"]
    /\ UNCHANGED <<artifact, assigned, mails, noticed>>

Claim(r, p) ==
    LET slot == <<p, pass[r].key>>
        At(place) == pass' = [pass EXCEPT ![r].todo = @ \ {p}, ![r].slot = slot,
                                          ![r].at = place] IN
    /\ pass[r].at = "claim" /\ p \in pass[r].todo
    /\ \/ /\ receipt[slot] = "none"
          /\ receipt' = [receipt EXCEPT ![slot] = "claimed"]
          /\ At("evaluate")
       \/ receipt[slot] # "none" /\ At("status") /\ UNCHANGED receipt
       \/ At("error") /\ UNCHANGED receipt
    /\ UNCHANGED <<artifact, assigned, mails, noticed>>

\* _handle_already_claimed: a receipt still claimed is reported as interrupted,
\* unless its status or the portfolio's name cannot be read.
HandleAlreadyClaimed(r) ==
    /\ pass[r].at = "status"
    /\ \/ /\ NextPortfolio(r)
          /\ noticed' = IF receipt[pass[r].slot] = "claimed"
                        THEN noticed \cup {pass[r].slot} ELSE noticed
          /\ UNCHANGED receipt
       \/ StatementRaises(r) /\ UNCHANGED noticed
    /\ UNCHANGED <<artifact, assigned, mails>>

\* _dispatch_one up to its sender: recommend and assignment_view.
Evaluate(r) ==
    /\ pass[r].at = "evaluate"
    /\ \/ pass[r].slot[1] \notin assigned /\ Go(r, "skip")
       \/ pass[r].slot[1] \in assigned /\ \E place \in {"send", "unavailable"} : Go(r, place)
       \/ Go(r, "error")
    /\ UNCHANGED <<artifact, assigned, receipt, mails, noticed>>

\* The sender: building the mail may raise; send_email answers True once the
\* server has taken the mail, and False whatever went wrong, before or after.
Send(r) ==
    LET Mailed == mails' = [mails EXCEPT ![pass[r].slot] = @ + 1] IN
    /\ pass[r].at = "send"
    /\ \/ Mailed /\ \E place \in {"mailed", "refused"} : Go(r, place)
       \/ UNCHANGED mails /\ \E place \in {"refused", "error"} : Go(r, place)
    /\ UNCHANGED <<artifact, assigned, receipt, noticed>>

\* mark_sent; its exception is swallowed and the receipt stays claimed.
MarkSent(r) ==
    /\ pass[r].at = "mailed"
    /\ NextPortfolio(r)
    /\ Stamped(r, "sent") \/ UNCHANGED receipt
    /\ UNCHANGED <<artifact, assigned, mails, noticed>>

\* A refused mail: the failure is recorded, then the receipt marked.
RecordRefusal(r) ==
    /\ pass[r].at = "refused"
    /\ \/ noticed' = noticed \cup {pass[r].slot} /\ Go(r, "fail")
       \/ StatementRaises(r) /\ UNCHANGED noticed
    /\ UNCHANGED <<artifact, assigned, receipt, mails>>

MarkRefused(r) ==
    /\ pass[r].at = "fail"
    /\ \/ Stamped(r, "failed") /\ NextPortfolio(r)
       \/ StatementRaises(r)
    /\ UNCHANGED <<artifact, assigned, mails, noticed>>

\* EvaluationUnavailable: marked first, then recorded.
MarkUnavailable(r) ==
    /\ pass[r].at = "unavailable"
    /\ \/ Stamped(r, "failed") /\ Go(r, "excuse")
       \/ StatementRaises(r)
    /\ UNCHANGED <<artifact, assigned, mails, noticed>>

RecordUnavailable(r) ==
    /\ pass[r].at = "excuse"
    /\ \/ noticed' = noticed \cup {pass[r].slot} /\ NextPortfolio(r)
       \/ StatementRaises(r) /\ UNCHANGED noticed
    /\ UNCHANGED <<artifact, assigned, receipt, mails>>

\* NoAssignment: mark_skipped.
MarkSkipped(r) ==
    /\ pass[r].at = "skip"
    /\ \/ Stamped(r, "skipped") /\ NextPortfolio(r)
       \/ StatementRaises(r)
    /\ UNCHANGED <<artifact, assigned, mails, noticed>>

\* The handler of the portfolio's block: an UPDATE of whatever row the slot has,
\* which may raise in its turn.
HandleError(r) ==
    /\ pass[r].at = "error"
    /\ \/ receipt[pass[r].slot] # "none" /\ Stamped(r, "failed")
       \/ UNCHANGED receipt
    /\ Go(r, "complain")
    /\ UNCHANGED <<artifact, assigned, mails, noticed>>

\* Mutant of Complain: the notification is forgotten.
ComplainSilently(r) ==
    /\ pass[r].at = "complain"
    /\ NextPortfolio(r) \/ Go(r, "broken")
    /\ UNCHANGED <<artifact, assigned, receipt, mails, noticed>>

\* Its notification.  Nothing guards the handler: a name that cannot be read
\* leaves the loop, and the portfolios still to do lose their turn.
Complain(r) ==
    /\ pass[r].at = "complain"
    /\ \/ noticed' = noticed \cup {pass[r].slot} /\ NextPortfolio(r)
       \/ UNCHANGED noticed /\ Go(r, "broken")
    /\ UNCHANGED <<artifact, assigned, receipt, mails>>

\* The summary closes the pass.
Close(r) ==
    /\ pass[r].at = "claim" /\ pass[r].todo = {}
    /\ Go(r, "over")
    /\ UNCHANGED <<artifact, assigned, receipt, mails, noticed>>

DispatchAll(r) ==
    \/ \E p \in Portfolios : Claim(r, p)
    \/ HandleAlreadyClaimed(r) \/ Evaluate(r) \/ Send(r) \/ MarkSent(r)
    \/ RecordRefusal(r) \/ MarkRefused(r) \/ MarkUnavailable(r) \/ RecordUnavailable(r)
    \/ MarkSkipped(r) \/ HandleError(r) \/ Complain(r) \/ Close(r)

\* The process is killed.
PassDies(r) ==
    /\ pass[r].at \in Working \cup {"claim"}
    /\ Go(r, "dead")
    /\ UNCHANGED <<artifact, assigned, receipt, mails, noticed>>

\* Meanwhile a user assigns a strategy or takes it away.
Assign(p) ==
    /\ assigned' = IF p \in assigned THEN assigned \ {p} ELSE assigned \cup {p}
    /\ UNCHANGED <<artifact, receipt, pass, mails, noticed>>

MailInit ==
    /\ artifact = NoRun
    /\ assigned = Portfolios
    /\ receipt = [s \in Slots |-> "none"]
    /\ pass = [r \in Runs |-> NoPass]
    /\ mails = [s \in Slots |-> 0]
    /\ noticed = {}

MailNext ==
    \/ \E r \in Runs : Publish(r) \/ Open(r) \/ DispatchAll(r) \/ PassDies(r)
    \/ \E p \in Portfolios : Assign(p)

MailSpec == MailInit /\ [][MailNext]_dispatch

-----------------------------------------------------------------------------
(* Properties.                                                              *)

\* The receipts and passes keep their shape.
MailTypeOK ==
    /\ artifact \in Runs \cup {NoRun}
    /\ assigned \subseteq Portfolios
    /\ receipt \in [Slots -> Status]
    /\ pass \in [Runs -> Pass]
    /\ mails \in [Slots -> Nat]
    /\ noticed \subseteq Slots

\* The contract of the receipts: no portfolio is mailed twice for one analysis
\* run, over every interleaving of passes, failures and deaths, also when two
\* runs key on the same artifact; and what a receipt says was sent was.
AtMostOneMail ==
    \A s \in Slots : /\ mails[s] <= 1
                     /\ receipt[s] = "sent" => mails[s] = 1

\* A pass that died, or was broken off, on the portfolio at hand is silent of it.
Stuck(s) ==
    \E r \in Runs : pass[r].slot = s /\ pass[r].at \in Working \cup {"dead", "broken"}

\* The portfolios a pass that was broken off never came to.
Dropped(r) == IF pass[r].at = "broken" THEN pass[r].todo ELSE {}

\* However its receipts, evaluations and mails fail, no portfolio costs another
\* its turn and none fails unseen: of a pass that is over, every portfolio it
\* listed was mailed, was found to have lost its assignment, or has its failure
\* in the notification centre.  The exception is the handler's own: a name it
\* cannot read breaks the pass off, which leaves the portfolio at hand silent
\* and those behind it without a turn, and costs those before it nothing.
EveryPortfolioAnswered ==
    \A r \in Runs : pass[r].at \in {"over", "broken"} => \A p \in pass[r].listed \ Dropped(r) :
        LET s == <<p, pass[r].key>> IN
        \/ mails[s] = 1
        \/ receipt[s] = "skipped"
        \/ s \in noticed
        \/ Stuck(s)
=============================================================================
