------------------------------ MODULE ActivityRail ------------------------------
(***************************************************************************)
(* The durable activity rail: ActivityJournal (activity.py), one bounded    *)
(* append-only file for each node, the cursor-resumable stream hostd tails  *)
(* it with (daemon.py, activity_stream), and the merged fleet view          *)
(* (read_fleet).  A publisher holds an exclusive file lock and a reader a   *)
(* shared one, so a publish is one step; the process that publishes may die *)
(* between its writes, which releases the lock and leaves the files as they *)
(* are.  An event is its cursor, the time it was stamped with and whether   *)
(* the stream's filter selects it.                                          *)
(***************************************************************************)
EXTENDS Naturals, Sequences, SequencesExt, FiniteSets, FiniteSetsExt

CONSTANTS
    Node,            \* nodes, each with its own partition
    Rank,            \* [Node -> Nat]: the order of the nodes' names
    Retain,          \* max_bytes, in rows: what a trim keeps
    Batch,           \* limit of a read of the stream
    PageSize,        \* limit of read_fleet
    ReplayLimit,     \* MAX_REPLAY_LIMIT: no read returns more
    MaxEvents,       \* bound on the publishes of a node
    MaxFaults,       \* bound on crashes, short writes and reconnects
    MaxClock,        \* bound on the clock
    MaxReads,        \* bound on fleet reads
    Tailed           \* the node whose journal the stream tails

ASSUME RailAssumption ==
    /\ Retain \in Nat \ {0} /\ ReplayLimit \in Nat
    /\ Batch \in 1 .. ReplayLimit /\ PageSize \in 1 .. ReplayLimit
    /\ IsFiniteSet(Node) /\ Tailed \in Node
    /\ Rank \in [Node -> Nat] /\ \A n, m \in Node : Rank[n] = Rank[m] => n = m

VARIABLES
    rows,            \* [Node -> Seq(event)]: the complete lines of the events file
    torn,            \* [Node -> BOOLEAN]: the file ends in an unfinished line
    head,            \* [Node -> Nat]: the head file
    acked,           \* [Node -> Seq(event)]: what publish() returned
    lost,            \* events acknowledged whose write was short
    faults, clock,
    tail,            \* the stream: its cursor, whether it has sent, the batch and window it read
    sent,            \* cursors the stream has sent
    gaps,            \* cursors the stream announced as a gap
    floor,           \* read_fleet's cursor map
    merged,          \* what read_fleet has returned so far
    reads

journal == <<rows, torn, head, acked, lost, faults>>
stream == <<tail, sent, gaps>>
fleet == <<floor, merged, reads>>
railVars == <<journal, clock, stream, fleet>>

-----------------------------------------------------------------------------
(* publish() *)

Newest(n) == IF rows[n] = <<>> THEN 0 ELSE Last(rows[n]).cursor

(* max(head, last.cursor) + 1, the last committed row found after an        *)
(* unfinished line was cut off.                                             *)
NextCursor(n) == (IF head[n] > Newest(n) THEN head[n] ELSE Newest(n)) + 1

Event(n, match) == [cursor |-> NextCursor(n), at |-> clock, match |-> match]

(* _trim_unlocked(): the oldest rows go, never the last one.                *)
Trimmed(rs) == IF Len(rs) > Retain THEN SubSeq(rs, Len(rs) - Retain + 1, Len(rs)) ELSE rs

CanPublish(n) == Len(acked[n]) + faults < MaxEvents

Publish(n, match) ==
    /\ CanPublish(n)
    /\ torn' = [torn EXCEPT ![n] = FALSE]
    /\ rows' = [rows EXCEPT ![n] = Trimmed(Append(@, Event(n, match)))]
    /\ head' = [head EXCEPT ![n] = NextCursor(n)]
    /\ acked' = [acked EXCEPT ![n] = Append(@, Event(n, match))]
    /\ UNCHANGED <<lost, faults, clock, stream, fleet>>

(* The publisher dies in the middle of os.write, after it, or after the     *)
(* head file was replaced.                                                  *)
PublisherDies(n, match, where) ==
    /\ CanPublish(n)
    /\ faults < MaxFaults
    /\ faults' = faults + 1
    /\ torn' = [torn EXCEPT ![n] = where = "write"]
    /\ rows' = [rows EXCEPT ![n] = IF where = "write" THEN @ ELSE Append(@, Event(n, match))]
    /\ head' = [head EXCEPT ![n] = IF where = "trim" THEN NextCursor(n) ELSE @]
    /\ UNCHANGED <<acked, lost, clock, stream, fleet>>

(* os.write stores a part of the row and returns; its count is not checked, *)
(* so the head moves on and the caller gets the event.                      *)
ShortWrite(n, match) ==
    /\ CanPublish(n)
    /\ faults < MaxFaults
    /\ faults' = faults + 1
    /\ torn' = [torn EXCEPT ![n] = TRUE]
    /\ head' = [head EXCEPT ![n] = NextCursor(n)]
    /\ acked' = [acked EXCEPT ![n] = Append(@, Event(n, match))]
    /\ lost' = lost \cup {<<n, NextCursor(n)>>}
    /\ UNCHANGED <<rows, clock, stream, fleet>>

Tick ==
    /\ clock < MaxClock
    /\ clock' = clock + 1
    /\ UNCHANGED <<journal, stream, fleet>>

-----------------------------------------------------------------------------
(* Reading. *)

(* The first k members of a set, in the order of a relation on it.          *)
RankIn(S, order, x) == Cardinality({y \in S : <<y, x>> \in order})

InOrder(S, order) ==
    [i \in 1 .. Cardinality(S) |-> CHOOSE x \in S : RankIn(S, order, x) = i - 1]

FirstIn(S, order, k) == InOrder({x \in S : RankIn(S, order, x) < k}, order)

(* read_after(): the first rows beyond the cursor that the filter selects.  *)
ByCursor(S) == {p \in S \X S : p[1].cursor < p[2].cursor}

Beyond(n, cursor, filtered) ==
    {e \in Range(rows[n]) : e.cursor > cursor /\ (filtered => e.match)}

After(n, cursor, limit, filtered) ==
    FirstIn(Beyond(n, cursor, filtered), ByCursor(Beyond(n, cursor, filtered)), limit)

(* window() *)
RetainedFrom(n) ==
    IF rows[n] = <<>> THEN (IF head[n] > Newest(n) THEN head[n] ELSE Newest(n)) + 1
    ELSE Head(rows[n]).cursor

(* The stream reads a batch, then the window, each under its own lock. *)
TailReads ==
    /\ tail.step = "read"
    /\ After(Tailed, tail.cursor, Batch, TRUE) # <<>> \/ RetainedFrom(Tailed) > tail.cursor + 1
    /\ tail' = [tail EXCEPT !.step = "window", !.batch = After(Tailed, tail.cursor, Batch, TRUE)]
    /\ UNCHANGED <<journal, clock, sent, gaps, fleet>>

(* A gap is announced and the batch dropped; or the batch is sent.          *)
(* Mutant: the window is never looked at.                                   *)
TailSends_NoGap ==
    /\ tail.step = "window"
    /\ tail' = [step |-> "read", batch |-> <<>>,
                cursor |-> IF tail.batch = <<>> THEN tail.cursor ELSE Last(tail.batch).cursor]
    /\ sent' = sent \o tail.batch
    /\ gaps' = gaps
    /\ UNCHANGED <<journal, clock, fleet>>

TailSends ==
    LET from == RetainedFrom(Tailed)
        gap == tail.cursor # 0 /\ tail.cursor + 1 < from
    IN  /\ tail.step = "window"
        /\ tail' = [step |-> "read", batch |-> <<>>,
                    cursor |-> IF gap THEN from - 1
                               ELSE IF tail.batch = <<>> THEN tail.cursor
                               ELSE Last(tail.batch).cursor]
        /\ sent' = IF gap THEN sent ELSE sent \o tail.batch
        /\ gaps' = IF gap THEN gaps \cup ((tail.cursor + 1) .. (from - 1)) ELSE gaps
        /\ UNCHANGED <<journal, clock, fleet>>

(* A viewer reconnects with the cursor of the last event it was sent. *)
Reconnect ==
    /\ tail.step = "window" /\ sent # <<>>
    /\ faults < MaxFaults
    /\ faults' = faults + 1
    /\ tail' = [step |-> "read", batch |-> <<>>, cursor |-> Last(sent).cursor]
    /\ UNCHANGED <<rows, torn, head, acked, lost, clock, sent, gaps, fleet>>

(* read_fleet(): all partitions merged by (published_at, node, cursor), the *)
(* first PageSize rows, and the cursor of each node they reach.             *)
Earlier(a, b) ==
    \/ a.e.at < b.e.at
    \/ a.e.at = b.e.at /\ Rank[a.n] < Rank[b.n]
    \/ a.e.at = b.e.at /\ a.n = b.n /\ a.e.cursor < b.e.cursor

ByTime(S) == {p \in S \X S : Earlier(p[1], p[2])}

NewOf(n) == {[n |-> n, e |-> e] : e \in Range(After(n, floor[n], ReplayLimit, FALSE))}
NewRows == UNION {NewOf(n) : n \in Node}

Page == FirstIn(NewRows, ByTime(NewRows), PageSize)

FleetFloor(n, page) ==
    Max({floor[n]} \cup {page[i].e.cursor : i \in {j \in DOMAIN page : page[j].n = n}})

ReadFleet ==
    /\ reads < MaxReads
    /\ NewRows # {}
    /\ reads' = reads + 1
    /\ merged' = merged \o Page
    /\ floor' = [n \in Node |-> FleetFloor(n, Page)]
    /\ UNCHANGED <<journal, clock, stream>>

-----------------------------------------------------------------------------

RailInit ==
    /\ rows = [n \in Node |-> <<>>]
    /\ torn = [n \in Node |-> FALSE]
    /\ head = [n \in Node |-> 0]
    /\ acked = [n \in Node |-> <<>>]
    /\ lost = {} /\ faults = 0 /\ clock = 0
    /\ tail = [step |-> "read", cursor |-> 0, batch |-> <<>>]
    /\ sent = <<>> /\ gaps = {}
    /\ floor = [n \in Node |-> 0]
    /\ merged = <<>> /\ reads = 0

RailNext ==
    \/ \E n \in Node, m \in BOOLEAN :
          \/ Publish(n, m)
          \/ ShortWrite(n, m)
          \/ \E w \in {"write", "head", "trim"} : PublisherDies(n, m, w)
    \/ Tick \/ TailReads \/ TailSends \/ Reconnect \/ ReadFleet

RailSpec == RailInit /\ [][RailNext]_railVars

-----------------------------------------------------------------------------
(* Properties. *)

EventOf == [cursor : Nat \ {0}, at : Nat, match : BOOLEAN]

RailTypeOK ==
    /\ rows \in [Node -> Seq(EventOf)] /\ acked \in [Node -> Seq(EventOf)]
    /\ torn \in [Node -> BOOLEAN] /\ head \in [Node -> Nat]
    /\ sent \in Seq(EventOf)
    /\ tail.cursor \in Nat /\ tail.step \in {"read", "window"}
    /\ gaps \subseteq Nat
    /\ floor \in [Node -> Nat]

(* The journal never becomes one that readers refuse ("activity cursors are *)
(* not strictly increasing"), and no two acknowledged events of a node have *)
(* one cursor, whatever was torn, half written or trimmed in between.       *)
CursorsIdentify ==
    \A n \in Node :
        /\ \A i, j \in DOMAIN rows[n] : i < j => rows[n][i].cursor < rows[n][j].cursor
        /\ \A i, j \in DOMAIN acked[n] : i < j => acked[n][i].cursor < acked[n][j].cursor

(* An acknowledged event is in the file until a trim took it, unless its    *)
(* write was short.                                                         *)
AcknowledgedIsDurable ==
    \A n \in Node : \A e \in Range(acked[n]) :
        \/ e \in Range(rows[n])
        \/ <<n, e.cursor>> \in lost
        \/ e.cursor < RetainedFrom(n)

(* The stream loses nothing silently: every acknowledged event of its       *)
(* filter between two cursors it passed was sent, announced as a gap, or    *)
(* never stored; and it sends no event twice and none out of order, also    *)
(* over reconnects.                                                         *)
StreamIsHonest ==
    /\ \A i, j \in DOMAIN sent : i < j => sent[i].cursor < sent[j].cursor
    /\ \A e \in Range(acked[Tailed]) :
          sent # <<>> /\ e.match /\ Head(sent).cursor <= e.cursor /\ e.cursor <= tail.cursor =>
              \/ e \in Range(sent)
              \/ e.cursor \in gaps
              \/ <<Tailed, e.cursor>> \in lost

(* The fleet view returns the rows of one node in order and without skipping*)
(* one that is still retained, whatever page boundary they fall on.         *)
FleetSkipsNothing ==
    /\ \A i, j \in DOMAIN merged :
          i < j /\ merged[i].n = merged[j].n => merged[i].e.cursor < merged[j].e.cursor
    /\ \A n \in Node : \A e \in Range(rows[n]) :
          e.cursor <= floor[n] => [n |-> n, e |-> e] \in Range(merged)

(* The stream passes every matching event of the tailed node sooner or      *)
(* later, or the event was trimmed before the stream sent its first.        *)
StreamCatchesUp ==
    \A k \in 1 .. MaxEvents :
        (\E e \in Range(rows[Tailed]) : e.cursor = k /\ e.match)
            ~> (tail.cursor >= k \/ (sent = <<>> /\ k < RetainedFrom(Tailed)))

(* The rail as its readers rely on it, with publishers that die in or       *)
(* between their writes, trims and reconnects: cursors identify events,     *)
(* what was acknowledged is durable, and neither the stream nor the fleet   *)
(* view passes over an event in silence.                                    *)
RailIsHonest ==
    /\ RailTypeOK /\ CursorsIdentify /\ AcknowledgedIsDurable
    /\ StreamIsHonest /\ FleetSkipsNothing
=============================================================================
