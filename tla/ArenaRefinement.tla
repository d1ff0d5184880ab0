---------------------------- MODULE ArenaRefinement ----------------------------
(***************************************************************************)
(* RefinementJournal (arena/collaboration.py) and RuntimeSKMemoryAdapter    *)
(* (arena/memory_adapter.py): a proposal to change a durable memory passes  *)
(* a canary, an approval and an authorization, each recorded in an          *)
(* append-only journal under one lock; adapters then apply it to the memory *)
(* service and record the receipt.  Adapters run in several processes, read *)
(* the journal without the lock, and may die between any two of their       *)
(* calls.  All proposals of the model change the same target; the content   *)
(* of the target is the proposal that wrote it.                             *)
(***************************************************************************)
EXTENDS Naturals, Sequences, SequencesExt, FiniteSets

CONSTANTS
    Proposal,
    Proposer,        \* [Proposal -> agent]
    Executable,      \* proposals whose target is an executable extension
    Agent,
    Approvers,       \* agents in the journal's list
    Adapter,         \* processes that apply authorized proposals
    MaxDeaths,       \* bound on deaths of adapters and proposers
    ReportsPrior,    \* whether the service's answer names the content before the change
    Original         \* the content of the target at first

ASSUME RefinementAssumption ==
    /\ Proposer \in [Proposal -> Agent] /\ Executable \subseteq Proposal
    /\ Approvers \subseteq Agent /\ ReportsPrior \in BOOLEAN
    /\ Original \notin Proposal /\ "none" \notin Proposal \cup {Original}

VARIABLES
    proposals,       \* proposals.jsonl
    events,          \* events.jsonl by proposal: [Proposal -> Seq of [to, by, kinds, receipt]]
    memory,          \* the memory service: the content of the target
    answers,         \* the service: idempotency key -> the answer it gave
    applied,         \* contents the service has written, in order
    adapter,         \* [Adapter -> its call in progress]
    deaths

journalState == <<proposals, events>>
service == <<memory, answers, applied>>
refineVars == <<journalState, service, adapter, deaths>>

-----------------------------------------------------------------------------
(* The journal. *)

Follows ==
    [none |-> {"proposed"},
     proposed |-> {"canary_authorized", "rejected"},
     canary_authorized |-> {"canary_passed", "canary_failed"},
     canary_passed |-> {"approved", "rejected"},
     approved |-> {"promotion_authorized"},
     promotion_authorized |-> {"promoted"},
     promoted |-> {"rollback_authorized"},
     rollback_authorized |-> {"rolled_back"},
     canary_failed |-> {}, rejected |-> {}, rolled_back |-> {}]

StateOf(p) == IF events[p] = <<>> THEN "none" ELSE Last(events[p]).to

NoReceipt == [prior |-> "none", result |-> "none"]

(* _transition() *)
Records(p, to, by, kinds, receipt) ==
    /\ p \in proposals /\ to \in Follows[StateOf(p)]
    /\ events' = [events EXCEPT ![p] = Append(@, [to |-> to, by |-> by, kinds |-> kinds,
                                                 receipt |-> receipt])]

(* propose(): the proposal and then its event, under one lock.  A process   *)
(* that dies in between leaves a proposal no call can move any more.        *)
Propose(p) ==
    /\ p \notin proposals
    /\ proposals' = proposals \cup {p}
    /\ events' = [events EXCEPT ![p] = <<[to |-> "proposed", by |-> Proposer[p], kinds |-> {},
                                          receipt |-> NoReceipt]>>]
    /\ UNCHANGED <<service, adapter, deaths>>

ProposeDies(p) ==
    /\ p \notin proposals /\ deaths < MaxDeaths
    /\ deaths' = deaths + 1
    /\ proposals' = proposals \cup {p}
    /\ UNCHANGED <<events, service, adapter>>

(* _require_approver(). *)
Independent(p, by) == by \in Approvers /\ by # Proposer[p]

Kind == {"reward", "verified", "canary", "approval", "security"}

(* _require_governed_promotion_evidence(). *)
Governed(p, kinds) ==
    {"verified", "canary", "approval"} \cup (IF p \in Executable THEN {"security"} ELSE {})
        \subseteq kinds

(* authorize_canary(), approve(), reject(), authorize_rollback() *)
Decide(p, by, to) ==
    /\ to \in {"canary_authorized", "approved", "rejected", "rollback_authorized"}
    /\ p \in proposals /\ Independent(p, by)
    /\ Records(p, to, by, {}, NoReceipt)
    /\ UNCHANGED <<proposals, service, adapter, deaths>>

AuthorizePromotion(p, by, kinds) ==
    /\ p \in proposals /\ Independent(p, by) /\ Governed(p, kinds)
    /\ Records(p, "promotion_authorized", by, kinds, NoReceipt)
    /\ UNCHANGED <<proposals, service, adapter, deaths>>

(* record_canary(), by whoever ran it. *)
RecordCanary(p, passed) ==
    /\ Records(p, IF passed THEN "canary_passed" ELSE "canary_failed", "anyone", {}, NoReceipt)
    /\ UNCHANGED <<proposals, service, adapter, deaths>>

-----------------------------------------------------------------------------
(* The memory service (external): one operation for each idempotency key,   *)
(* refused when the content is not the expected one.                        *)

KeyOf(op, p) == <<op, p>>

Answered(key) == key \in DOMAIN answers

WithAnswer(key, a) == [k \in DOMAIN answers \cup {key} |-> IF k = key THEN a ELSE answers[k]]

Reports(prior) == IF ReportsPrior THEN prior ELSE "none"

-----------------------------------------------------------------------------
(* The adapter: promote() and rollback(). *)

Idle == [step |-> "idle", p |-> "none", op |-> "none", prior |-> "none", receipt |-> NoReceipt]

ReceiptOf(p, to) ==
    LET i == CHOOSE i \in DOMAIN events[p] : events[p][i].to = to
    IN  events[p][i].receipt

(* The state in the journal, and for promote() the content of the target.   *)
Authorized(op, p) ==
    StateOf(p) = IF op = "promote" THEN "promotion_authorized" ELSE "rollback_authorized"

AdapterStarts(a, op, p) ==
    /\ adapter[a].step = "idle" /\ Authorized(op, p)
    /\ adapter' = [adapter EXCEPT ![a] = [step |-> "mutate", p |-> p, op |-> op,
                                          prior |-> IF op = "promote" THEN memory
                                                    ELSE ReceiptOf(p, "promoted").result,
                                          receipt |-> NoReceipt]]
    /\ UNCHANGED <<journalState, service, deaths>>

(* compare_and_set or restore.  (Mutant: a fresh key for each try.)         *)
Key_PerAdapter(a, c) == <<c.op, c.p, a>>

Key(a, c) == KeyOf(c.op, c.p)

NewContent(c) == IF c.op = "promote" THEN c.p ELSE ReceiptOf(c.p, "promoted").prior

(* The content before the change, for the receipt: what the answer names,   *)
(* else what was read.                                                      *)
PriorIn(answer, c) == IF answer.prior = "none" THEN c.prior ELSE answer.prior

AdapterMutates(a) ==
    LET c == adapter[a]
        key == Key(a, c)
        answer == IF Answered(key) THEN answers[key]
                  ELSE [prior |-> Reports(memory), result |-> NewContent(c)]
    IN  /\ c.step = "mutate"
        /\ IF Answered(key) \/ memory = c.prior
             THEN /\ adapter' = [adapter EXCEPT ![a].step = "record", ![a].receipt =
                                   [prior |-> PriorIn(answer, c), result |-> answer.result]]
                  /\ IF Answered(key) THEN UNCHANGED service
                     ELSE /\ memory' = NewContent(c)
                          /\ answers' = WithAnswer(key, answer)
                          /\ applied' = Append(applied, <<c.op, c.p>>)
             ELSE adapter' = [adapter EXCEPT ![a] = Idle] /\ UNCHANGED service
        /\ UNCHANGED <<journalState, deaths>>

(* The receipt in the journal; if another adapter was first the call ends   *)
(* well when the receipts are equal, and raises otherwise.                  *)
AdapterRecords(a) ==
    LET c == adapter[a]
        to == IF c.op = "promote" THEN "promoted" ELSE "rolled_back"
    IN  /\ c.step = "record"
        /\ IF to \in Follows[StateOf(c.p)]
             THEN Records(c.p, to, a, {}, c.receipt)
             ELSE UNCHANGED events
        /\ adapter' = [adapter EXCEPT ![a] = Idle]
        /\ UNCHANGED <<proposals, service, deaths>>

AdapterDies(a) ==
    /\ adapter[a].step # "idle" /\ deaths < MaxDeaths
    /\ deaths' = deaths + 1
    /\ adapter' = [adapter EXCEPT ![a] = Idle]
    /\ UNCHANGED <<journalState, service>>

-----------------------------------------------------------------------------
RefineInit ==
    /\ proposals = {} /\ events = [p \in Proposal |-> <<>>]
    /\ memory = Original /\ answers = [k \in {} |-> NoReceipt] /\ applied = <<>>
    /\ adapter = [a \in Adapter |-> Idle] /\ deaths = 0

AdapterNext(a) ==
    \/ \E op \in {"promote", "rollback"}, p \in Proposal : AdapterStarts(a, op, p)
    \/ AdapterMutates(a) \/ AdapterRecords(a)

RefineNext ==
    \/ \E p \in Proposal : Propose(p) \/ ProposeDies(p) \/ \E passed \in BOOLEAN : RecordCanary(p, passed)
    \/ \E p \in Proposal, by \in Agent :
         \/ \E to \in {"canary_authorized", "approved", "rejected", "rollback_authorized"} :
              Decide(p, by, to)
         \/ \E kinds \in {Kind, Kind \ {"security"}, {"reward"}} : AuthorizePromotion(p, by, kinds)
    \/ \E a \in Adapter : AdapterNext(a) \/ AdapterDies(a)

RefineSpec == RefineInit /\ [][RefineNext]_refineVars

-----------------------------------------------------------------------------
(* Properties. *)

RefineTypeOK ==
    /\ proposals \subseteq Proposal
    /\ \A p \in Proposal : events[p] # <<>> => p \in proposals /\ StateOf(p) \in DOMAIN Follows
    /\ memory \in Proposal \cup {Original}
    /\ \A a \in Adapter : adapter[a].step \in {"idle", "mutate", "record"}

HasEvent(p, to, Test(_)) == \E i \in DOMAIN events[p] : events[p][i].to = to /\ Test(events[p][i])

(* The memory was changed for a proposal only after its canary passed and   *)
(* an approver who did not propose it approved and authorized it with every *)
(* kind of evidence its target needs.                                       *)
MemoryIsGoverned ==
    \A i \in DOMAIN applied : LET p == applied[i][2] IN
        /\ HasEvent(p, "canary_passed", LAMBDA e : TRUE)
        /\ HasEvent(p, "approved", LAMBDA e : e.by # Proposer[p])
        /\ HasEvent(p, "promotion_authorized",
                    LAMBDA e : /\ e.by \in Approvers \ {Proposer[p]}
                               /\ {"verified", "canary", "approval"} \subseteq e.kinds
                               /\ p \in Executable => "security" \in e.kinds)

(* "Backend idempotency plus journal state makes crash retries safe": a     *)
(* proposal is applied once and rolled back once, whatever adapters race or *)
(* die between the change and its record.                                   *)
AppliedOnce ==
    \A i, j \in DOMAIN applied : i # j => applied[i] # applied[j]

(* A recorded rollback names the content that was there before the          *)
(* promotion, also when the promotion was recorded by a second adapter      *)
(* after the first one died; so does the memory when nobody changed it      *)
(* since.                                                                   *)
RollbackRestores ==
    \A p \in Proposal : StateOf(p) = "rolled_back" =>
        LET restored == ReceiptOf(p, "rolled_back").result
        IN  restored = ReceiptOf(p, "promoted").prior /\ restored # p

(* Durable memory, with adapters that race and die between the change and   *)
(* its record: every change was approved by another agent on full evidence, *)
(* was applied once, and is rolled back to what was there before.           *)
RefinementIsGoverned ==
    RefineTypeOK /\ MemoryIsGoverned /\ AppliedOnce /\ RollbackRestores
=============================================================================
