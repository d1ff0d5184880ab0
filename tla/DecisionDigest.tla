----------------------------- MODULE DecisionDigest -----------------------------
(***************************************************************************)
(* The operator's decisions (autocode digest.py and resolver.py): decisions *)
(* queued in the GTD store, the numbered manifest that every rebuild        *)
(* renumbers, the digests an operator has been shown, and the resolver that *)
(* applies a reply (number, generation) in separate file operations.        *)
(***************************************************************************)
EXTENDS Naturals, Sequences, FiniteSets, Functions

CONSTANTS
    Qid,            \* stable decision ids
    Contents,       \* what a decision shows: prompt and options
    Ttl,            \* hours a decision stays open
    MaxNow,         \* bound on the clock
    MaxQueued,      \* bound on how often a decision is queued
    MaxCut,         \* bound on the answers cut short
    MaxShown        \* bound on the different digests an operator remembers

ASSUME DigestAssumption ==
    {Ttl, MaxNow, MaxQueued, MaxShown, MaxCut} \subseteq Nat /\ Contents # {} /\ IsFiniteSet(Qid)

VARIABLES
    store,      \* [Qid -> state, content, due, order of capture, queued, answered, cut short]
    manifest,   \* autopilot-digest.json: a sequence of entries, empty when there is none
    seen,       \* the generations the operator was shown
    reply,      \* the resolver's answer in progress
    now

digest == <<store, manifest, seen, reply, now>>

NoReply == [step |-> "idle"]

DigestInit ==
    /\ store = [q \in Qid |-> [state |-> "absent", content |-> CHOOSE c \in Contents : TRUE, due |-> 0,
                               born |-> 0, queued |-> 0, uses |-> 0, cut |-> 0]]
    /\ manifest = <<>> /\ seen = {} /\ reply = NoReply /\ now = 0

\* The generation hash covers number, id and content of every entry and
\* nothing else.
Generation(m) == [i \in 1..Len(m) |-> <<m[i].qid, m[i].content>>]

\* build_manifest: the unanswered decisions that have not expired, in the order
\* of their capture (all have the same priority here).
BuildManifest(s) ==
    LET open == {q \in Qid : s[q].state = "pending"}
        earlier(q) == {p \in open : s[p].born < s[q].born}
        item(i) == CHOOSE q \in open : Cardinality(earlier(q)) = i - 1
    IN  [i \in 1..Cardinality(open) |->
            [qid |-> item(i), content |-> s[item(i)].content, due |-> s[item(i)].due, answered |-> FALSE]]

\* queue_decision: a duplicate capture is replaced, so that an answered or
\* expired decision is open again with a new expiry.
Captured(s) == {q \in Qid : s[q].state # "absent"}

QueuedIn(s, q, c) ==
    [s EXCEPT ![q] = [state |-> "pending", content |-> c, due |-> now + Ttl,
                      born |-> IF q \in Captured(s) THEN s[q].born ELSE 1 + Cardinality(Captured(s)),
                      queued |-> s[q].queued + 1, uses |-> s[q].uses, cut |-> s[q].cut]]

MayQueue(q) == store[q].queued < MaxQueued

\* The engineering executor queues its merge decision during finalize.
QueueDecision(q, c) ==
    /\ MayQueue(q)
    /\ store' = QueuedIn(store, q, c)
    /\ UNCHANGED <<manifest, seen, reply, now>>

\* send_digest: rebuild, persist and show.
SendDigest ==
    /\ Cardinality(seen) < MaxShown \/ Generation(BuildManifest(store)) \in seen
    /\ manifest' = BuildManifest(store)
    /\ seen' = seen \cup {Generation(manifest')}
    /\ UNCHANGED <<store, reply, now>>

Expired(entry) == now >= entry.due

AnswerLoad_AnyGeneration(g, n) ==
    /\ reply.step = "idle" /\ g \in seen
    /\ n \in DOMAIN manifest /\ n \in DOMAIN g
    /\ ~manifest[n].answered
    /\ reply' = [step |-> IF Expired(manifest[n]) THEN "expire" ELSE "store",
                 m |-> manifest, n |-> n, g |-> g]
    /\ UNCHANGED <<store, manifest, seen, now>>

\* answer: the refusals (no manifest, another generation, unknown number,
\* already answered) change nothing; an expired entry takes its own path.
AnswerLoad(g, n) ==
    /\ reply.step = "idle" /\ g \in seen
    /\ Generation(manifest) = g
    /\ n \in DOMAIN manifest
    /\ ~manifest[n].answered
    /\ reply' = [step |-> IF Expired(manifest[n]) THEN "expire" ELSE "store",
                 m |-> manifest, n |-> n, g |-> g]
    /\ UNCHANGED <<store, manifest, seen, now>>

Entry == reply.m[reply.n]

\* The store first, with the prompt and options of the entry; the manifest as it
\* was read, with the entry marked, afterwards.
AnswerStore ==
    /\ reply.step = "store"
    /\ store' = [store EXCEPT ![Entry.qid].state = "answered", ![Entry.qid].content = Entry.content,
                              ![Entry.qid].uses = @ + 1]
    /\ reply' = [reply EXCEPT !.step = "save"]
    /\ UNCHANGED <<manifest, seen, now>>

AnswerSave ==
    /\ reply.step = "save"
    /\ manifest' = [reply.m EXCEPT ![reply.n].answered = TRUE]
    /\ reply' = NoReply
    /\ UNCHANGED <<store, seen, now>>

\* An expired entry: the manifest is saved as read, then the store records it.
ExpireSave ==
    /\ reply.step = "expire"
    /\ manifest' = reply.m
    /\ reply' = [reply EXCEPT !.step = "expired"]
    /\ UNCHANGED <<store, seen, now>>

ExpireStore ==
    /\ reply.step = "expired"
    /\ store' = [store EXCEPT ![Entry.qid].state = "expired", ![Entry.qid].content = Entry.content]
    /\ reply' = NoReply
    /\ UNCHANGED <<manifest, seen, now>>

\* The answering process dies; the store may be ahead of the manifest.
ResolverCrash ==
    /\ reply.step # "idle"
    /\ \A q \in Qid : store[q].cut < MaxCut
    /\ store' = IF reply.step = "save" THEN [store EXCEPT ![Entry.qid].cut = @ + 1] ELSE store
    /\ reply' = NoReply
    /\ UNCHANGED <<manifest, seen, now>>

Tick ==
    /\ now < MaxNow
    /\ now' = now + 1
    /\ UNCHANGED <<store, manifest, seen, reply>>

Resolver ==
    \/ \E g \in seen, n \in 1..Cardinality(Qid) : AnswerLoad(g, n)
    \/ AnswerStore \/ AnswerSave \/ ExpireSave \/ ExpireStore \/ ResolverCrash

Digest ==
    \/ \E q \in Qid, c \in Contents : QueueDecision(q, c)
    \/ SendDigest \/ Resolver \/ Tick

----------------------------------------------------------------------------
(* Properties. *)

\* resolver.py answer: whatever was queued, rebuilt, renumbered, re-worded or
\* saved over in between, an answer is recorded for the decision and the content
\* that stood at the replied number in the digest the operator was shown.
AnswersWhatWasShown ==
    [][\A q \in Qid : store'[q].uses > store[q].uses
            => reply.g[reply.n] = <<q, store'[q].content>>]_digest

\* resolver.py AlreadyAnswered: with one resolver at a time a decision is
\* answered at most once for each time it was queued; only a process that dies
\* between the store and the manifest leaves the reply usable again.
AnsweredOnce == \A q \in Qid : store[q].uses <= store[q].queued + store[q].cut
=============================================================================
