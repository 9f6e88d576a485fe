--------------------------- MODULE SnapshotMonths ---------------------------
(***************************************************************************)
(* Snapshot months: for one data version (a snapshot profile) and one       *)
(* closed month, what the scanner would have said of every member of the    *)
(* roster.  Initialization children write them, month by month, under the   *)
(* claim of their job; BAU promotion writes the month a pipeline run saw.   *)
(* In Update mode a child adopts the results of the predecessor data        *)
(* version instead of computing them.                                       *)
(*                                                                         *)
(* Content is what decides a result: the policy of the code (detectors,     *)
(* ingestion, calendar, contract: what the adoption gate compares), the     *)
(* member and the rows of its price evidence.  A profile is its own hash.   *)
(* New code is deployed only while no child is at work, so that the profile *)
(* authority is asked when a child boots.  The job ledger itself is         *)
(* StrategyJobs: here a claim is a name.                                    *)
(***************************************************************************)
EXTENDS Integers, FiniteSetsExt, SequencesExt

CONSTANTS
  Ids,         \* securities, numbered in the order of their ids
  LastMonth,   \* snapshot months are 1..LastMonth
  LastClock,   \* bound: the last current month
  Profiles,    \* data versions: [captured, policy, alias, roster]; a roster
               \* has a symbol for each of its ids
  Policies,
  Answers,     \* per security, the rows the provider may answer with
  Detect,      \* [policy][id][rows]: what the detectors say
  Excluded,    \* ... or that the history is too short
  Children,    \* initialization workers
  Nobody,
  MaxActivations \* bound

Months == 1 .. LastMonth
Rows == UNION {Answers[id] : id \in Ids}

ASSUME MonthsAssumption ==
  /\ LastMonth \in Nat /\ LastClock \in Nat
  /\ Ids \subseteq Nat
  /\ Nobody \notin Children
  /\ \A p \in Profiles : DOMAIN p.roster \subseteq Ids /\ p.policy \in Policies

VARIABLES
  months,      \* snapshot_months with their members, in order of commit
  evidence,    \* historical_price_revisions, in order of acquisition
  activations, \* snapshot_profile_activation_history; the last one is active
  runtime,     \* the policy of the deployed code
  clock,       \* the current month
  claim,       \* the child whose claim token the running job carries
  child        \* per child, its CanonicalSnapshotMonthProcessor

vault == <<months, evidence, activations, runtime, clock, claim, child>>

Symbol(p, id) == p.roster[id]
Active == Last(activations)

Stored(p, m) == {i \in DOMAIN months : months[i].profile = p /\ months[i].month = m}
HasMonths(p) == \E i \in DOMAIN months : months[i].profile = p

Unborn ==
  [stage |-> "idle", profile |-> CHOOSE p \in Profiles : TRUE, update |-> FALSE, left |-> {}, month |-> 0,
   end |-> 0, cache |-> {}, looked |-> FALSE, predecessor |-> {}, source |-> {},
   draft |-> <<>>, adopted |-> {}]

Become(c, state) == child' = [child EXCEPT ![c] = state]
Die(c) == Become(c, Unborn)

-----------------------------------------------------------------------------

(* previous_snapshot_profile: the last profile activated before that owns   *)
(* a month; for one with no forerunner, the profile other than the active   *)
(* one that committed last.                                                 *)
Forerunners(p) ==
  {i \in DOMAIN activations :
     /\ activations[i] # p
     /\ \E k \in DOMAIN activations : activations[k] = p /\ i < k}

Previous(p) ==
  LET walk == {i \in Forerunners(p) : HasMonths(activations[i])}
      rest == {i \in DOMAIN months : months[i].profile \notin {p, Active}}
  IN  IF Forerunners(p) # {}
      THEN {activations[i] : i \in {k \in walk : \A j \in walk : j <= k}}
      ELSE {months[i].profile : i \in {k \in rest : \A j \in rest : j <= k}}

(* Mutant of Gate: any predecessor will do.                                 *)
GateOpen(q, p) == TRUE

(* adoption_gate_failures.                                                  *)
Gate(q, p) == q.policy = p.policy

(* _predecessor_profile, once per run and in Update mode only.              *)
Predecessor(c) ==
  IF child[c].looked THEN child[c].predecessor
  ELSE {q \in Previous(child[c].profile) : child[c].update /\ Gate(q, child[c].profile)}

(* A claimed job boots: snapshot_profile refuses a profile of other code.   *)
Boot(c, p, update) ==
  /\ child[c].stage = "idle"
  /\ claim = Nobody
  /\ p \in Range(activations)
  /\ p.policy = runtime
  /\ claim' = c
  /\ Become(c, [Unborn EXCEPT !.stage = "months", !.profile = p, !.update = update,
                              !.left = {m \in Months : m < clock}])
  /\ UNCHANGED <<months, evidence, activations, runtime, clock>>

(* HistoricalInitializationEngine.run, at a month boundary: a month that is *)
(* committed is skipped, another begins with what can be adopted.           *)
NextMonth(c) ==
  LET w == child[c]
      m == Min(w.left)
  IN  /\ w.stage = "months"
      /\ claim = c
      /\ IF w.left = {} THEN claim' = Nobody /\ Die(c)
         ELSE IF Stored(w.profile, m) # {}
              THEN Become(c, [w EXCEPT !.left = @ \ {m}]) /\ UNCHANGED claim
              ELSE /\ Become(c, [w EXCEPT !.stage = "gather", !.month = m, !.end = clock,
                                          !.looked = TRUE, !.predecessor = Predecessor(c),
                                          !.source = UNION {Stored(q, m) : q \in Predecessor(c)}])
                   /\ UNCHANGED claim
      /\ UNCHANGED <<months, evidence, activations, runtime, clock>>

-----------------------------------------------------------------------------

(* _evidence_request: the full history up to the current month, under the   *)
(* alias revision of the roster, which is part of a revision's identity.    *)
Revision(p, id, end, rows) ==
  [id |-> id, symbol |-> Symbol(p, id), alias |-> p.alias, end |-> end,
   rows |-> rows, observed |-> FALSE]

Asked(w, id, r) == r.id = id /\ r.symbol = Symbol(w.profile, id) /\ r.end = w.end /\ ~r.observed

Cached(w, id) == {r \in w.cache : r.id = id /\ r.end = w.end}
Missing(w) == {id \in DOMAIN w.profile.roster : Cached(w, id) = {}}

Oldest(found) == {evidence[i] : i \in {k \in found : \A j \in found : k <= j}}

Filed(r) == IF r \in Range(evidence) THEN evidence ELSE Append(evidence, r)

(* _evidence_for, in order of ids: find_request, the oldest revision of the *)
(* very request.                                                            *)
FindRequest(c) ==
  LET w == child[c]
      id == Min(Missing(w))
      found == {i \in DOMAIN evidence :
                  Asked(w, id, evidence[i]) /\ evidence[i].alias = w.profile.alias}
  IN  /\ w.stage = "gather"
      /\ Missing(w) # {}
      /\ Become(c, IF found = {} THEN [w EXCEPT !.stage = "fetch"]
                                 ELSE [w EXCEPT !.cache = @ \cup Oldest(found)])
      /\ UNCHANGED <<months, evidence, activations, runtime, clock, claim>>

(* Otherwise evidence under another alias revision is bound to this one, or *)
(* the provider is asked; another worker may have done so meanwhile.  The   *)
(* look, the provider's answer and the commit are one step here; in the     *)
(* code another child may commit its own answer during the call.            *)
Fetch(c) ==
  LET w == child[c]
      id == Min(Missing(w))
      known == {i \in DOMAIN evidence : Asked(w, id, evidence[i])}
  IN  /\ w.stage = "fetch"
      /\ \E rows \in (IF known = {} THEN Answers[id] ELSE {r.rows : r \in Oldest(known)}) :
           LET r == Revision(w.profile, id, w.end, rows)
           IN  /\ evidence' = Filed(r)
               /\ Become(c, [w EXCEPT !.stage = "gather", !.cache = @ \cup {r}])
      /\ UNCHANGED <<months, activations, runtime, clock, claim>>

(* The carried results are those of the evidence they were computed from.   *)
SameRevision(w, member, r) == member.revision = r

(* _carried_identity_matches, for a member with a valid scan.               *)
Carried(w, id, r) ==
  {i \in w.source :
     /\ id \in DOMAIN months[i].members
     /\ LET member == months[i].members[id]
        IN  /\ member.result # Excluded
            /\ member.revision.symbol = Symbol(w.profile, id)
            /\ SameRevision(w, member, r)}

(* _resolve_fresh_members.                                                  *)
Scanned(id, r) == Detect[runtime][id][r.rows]

Result(w, id, r) ==
  IF Carried(w, id, r) = {} THEN Scanned(id, r)
  ELSE months[CHOOSE i \in Carried(w, id, r) : TRUE].members[id].result

Pinned(w, id) == CHOOSE r \in Cached(w, id) : TRUE

Adopted(w) == {id \in DOMAIN w.profile.roster : Carried(w, id, Pinned(w, id)) # {}}

(* _self_check_sample: the first and the last member adopted.               *)
Sample(adopted) == IF adopted = {} THEN {} ELSE {Min(adopted), Max(adopted)}

(* _adopt_month, or every member fresh.                                     *)
Resolve(c) ==
  LET w == child[c]
      members == [id \in DOMAIN w.profile.roster |->
                    [revision |-> Pinned(w, id), result |-> Result(w, id, Pinned(w, id))]]
  IN  /\ w.stage = "gather"
      /\ Missing(w) = {}
      /\ \A id \in Sample(Adopted(w)) : members[id].result = Scanned(id, Pinned(w, id))
      /\ Become(c, [w EXCEPT !.stage = "commit", !.draft = members, !.adopted = Adopted(w)])
      /\ UNCHANGED <<months, evidence, activations, runtime, clock, claim>>

Month(p, m, quality, members, adopted) ==
  [profile |-> p, month |-> m, quality |-> quality, members |-> members, adopted |-> adopted]

(* commit_snapshot_month in one transaction: compare and insert.            *)
Insert(new) ==
  /\ Stored(new.profile, new.month) = {}
  /\ months' = Append(months, new)

(* A publisher that lost its job leaves; so does one that finds the month   *)
(* promoted meanwhile, whose quality and content are others.                *)
Commit(c) ==
  LET w == child[c]
      new == Month(w.profile, w.month, "reconstructed", w.draft, w.adopted)
  IN  /\ w.stage = "commit"
      /\ claim = c
      /\ Insert(new)
      /\ Become(c, [w EXCEPT !.stage = "months", !.left = @ \ {w.month}, !.draft = <<>>])
      /\ UNCHANGED <<evidence, activations, runtime, clock, claim>>

(* A job that fails, at its provider, its self-check or its commit, or is   *)
(* cancelled; a child that is killed, or finds its claim gone.              *)
Leave(c) ==
  /\ child[c].stage # "idle"
  /\ claim' = IF claim = c THEN Nobody ELSE claim
  /\ Die(c)
  /\ UNCHANGED <<months, evidence, activations, runtime, clock>>

(* A new dispatcher interrupts the job; the child lives on as an orphan.    *)
Interrupt ==
  /\ claim # Nobody
  /\ claim' = Nobody
  /\ UNCHANGED <<months, evidence, activations, runtime, clock, child>>

-----------------------------------------------------------------------------

(* is_promotable_bau: a month that is over, for the active profile and by   *)
(* the code that is deployed.                                               *)
Promotable(p, m) == m < clock /\ p = Active /\ p.policy = runtime

(* promote_run: the month a completed pipeline run captured for the active  *)
(* profile, without exclusions and from its own evidence, which no request  *)
(* of an initialization finds.                                              *)
PromoteRun(m, rows) ==
  LET p == Active
      seen == [id \in DOMAIN p.roster |->
                 [Revision(p, id, m + 1, rows[id]) EXCEPT !.observed = TRUE]]
      members == [id \in DOMAIN p.roster |->
                    [revision |-> seen[id], result |-> Scanned(id, seen[id])]]
  IN  /\ Promotable(p, m)
      /\ \A id \in DOMAIN p.roster : rows[id] \in Answers[id]
      /\ \A id \in DOMAIN p.roster : members[id].result # Excluded
      /\ Insert(Month(p, m, "observed", members, {}))
      /\ UNCHANGED <<evidence, activations, runtime, clock, claim, child>>

(* A bootstrap job, which is then the one that runs, activates its profile. *)
Activate(p) ==
  /\ claim = Nobody
  /\ Len(activations) < MaxActivations
  /\ p # Active
  /\ p.policy = runtime
  /\ activations' = Append(activations, p)
  /\ UNCHANGED <<months, evidence, runtime, clock, claim, child>>

Deploy(policy) ==
  /\ \A c \in Children : child[c].stage = "idle"
  /\ policy # runtime
  /\ runtime' = policy
  /\ UNCHANGED <<months, evidence, activations, clock, claim, child>>

MonthEnds ==
  /\ clock < LastClock
  /\ clock' = clock + 1
  /\ UNCHANGED <<months, evidence, activations, runtime, claim, child>>

MonthsInit ==
  /\ months = <<>> /\ evidence = <<>>
  /\ activations \in {<<p>> : p \in Profiles}
  /\ runtime = Active.policy
  /\ clock \in 2 .. LastClock
  /\ claim = Nobody
  /\ child = [c \in Children |-> Unborn]

MonthsNext ==
  \/ \E c \in Children :
       \/ \E p \in Profiles, update \in BOOLEAN : Boot(c, p, update)
       \/ NextMonth(c) \/ FindRequest(c) \/ Fetch(c) \/ Resolve(c) \/ Commit(c) \/ Leave(c)
  \/ Interrupt \/ MonthEnds
  \/ \E m \in Months : \E rows \in [DOMAIN Active.roster -> Rows] : PromoteRun(m, rows)
  \/ \E p \in Profiles : Activate(p)
  \/ \E policy \in Policies : Deploy(policy)

MonthsSpec == MonthsInit /\ [][MonthsNext]_vault

-----------------------------------------------------------------------------

(* Every member has the result that a rebuild under this data version       *)
(* computes from the revision the member names.                             *)
AsRebuilt(p, members) ==
  /\ DOMAIN members = DOMAIN p.roster
  /\ \A id \in DOMAIN members :
       LET member == members[id]
       IN  /\ member.revision.symbol = Symbol(p, id)
           /\ member.revision.alias = p.alias
           /\ member.result = Detect[p.policy][id][member.revision.rows]

(* So it is of every month, whoever wrote it and whatever was adopted.  The *)
(* self-check looks at two of the adopted members; the gate and the         *)
(* revisions have to vouch for the rest.                                    *)
MonthsAsRebuilt ==
  \A i \in DOMAIN months : AsRebuilt(months[i].profile, months[i].members)

=============================================================================
