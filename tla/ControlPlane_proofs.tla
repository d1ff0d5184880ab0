-------------------------- MODULE ControlPlane_proofs --------------------------
(***************************************************************************)
(* The control plane implements CommandMailbox, for every number of         *)
(* requests, owners, keys and commands, with crashes and failed appends, as *)
(* long as no polling owner shares a target with a control_handler.         *)
(***************************************************************************)
EXTENDS ControlPlane, TLAPS

\* Commands the route applies itself: nobody else may take them.
RouteApplies(c) == Kind[journal[c].content] = "session" \/ HasHandler

\* What is known when an actuation of c has ended with receipt s.
EndsHonestly(c, s) ==
    /\ Latest(c) = "applying"
    /\ s \in Terminal
    /\ s = "applied" => acted[c] = 1
    /\ s \notin {"applied", "rejected"} => acted[c] = 0

Untouched(c) == Latest(c) \in {"queued", "expired"} /\ acted[c] = 0

CommandOK(c) ==
    /\ acted[c] \in {0, 1}
    /\ Latest(c) = "applied" => acted[c] = 1
    /\ Latest(c) \notin {"applying", "applied", "rejected"} => acted[c] = 0

RequestOK(r) ==
    LET c == req[r].cmd IN
    InFlight(r) =>
        /\ c \in Ids
        /\ Latest(c) # "none"
        /\ \/ /\ req[r].pc = "record" /\ req[r].status = "queued"
              /\ ~RouteApplies(c)
           \/ /\ req[r].pc = "record" /\ req[r].status \in {"applying", "conflict", "unsupported"}
              /\ RouteApplies(c) /\ Untouched(c)
           \/ /\ req[r].pc = "record"
              /\ RouteApplies(c) /\ EndsHonestly(c, req[r].status)
           \/ /\ req[r].pc = "check"
              /\ RouteApplies(c) /\ Untouched(c)
           \/ /\ req[r].pc = "act"
              /\ RouteApplies(c) /\ Latest(c) = "applying" /\ acted[c] = 0

Applies(o) == own[o].pc \in {"apply", "record"}

OwnerOK(o) ==
    /\ \A c \in own[o].todo : Latest(c) # "none" /\ ~RouteApplies(c)
    /\ Applies(o) =>
        LET c == own[o].cmd IN
        /\ c \in Ids
        /\ ~RouteApplies(c)
        /\ \/ own[o].pc = "apply" /\ Latest(c) = "applying" /\ acted[c] = 0
           \/ own[o].pc = "record" /\ EndsHonestly(c, own[o].status)

\* No two requests carry one command, and no two owners apply one.
OneHolder ==
    /\ \A r, s \in Request : r # s /\ InFlight(r) /\ InFlight(s) => req[r].cmd # req[s].cmd
    /\ \A o, p \in Owner : o # p /\ Applies(o) /\ Applies(p) => own[o].cmd # own[p].cmd

\* What every step preserves.
PlaneInv ==
    /\ TypeOK
    /\ \A c \in Ids : CommandOK(c)
    /\ \A c \in Id \ Ids : acted[c] = 0
    /\ \A r \in Request : RequestOK(r)
    /\ \A o \in Owner : OwnerOK(o)
    /\ OneHolder

-----------------------------------------------------------------------------
(* How a step may change the journal. *)

\* The commands E get receipt s, nothing else of the journal changes.
Rewritten(E, s) ==
    /\ journal' \in Seq(Row)
    /\ Len(journal') = Len(journal)
    /\ \A d \in Ids :
        /\ journal'[d].content = journal[d].content
        /\ journal'[d].latest = IF d \in E THEN s ELSE journal[d].latest

\* An unchanged journal rewrites nothing.
LEMMA UnchangedRewrites ==
  ASSUME TypeOK, UNCHANGED journal, NEW s PROVE Rewritten({}, s)
  BY DEF TypeOK, RequestState, OwnerState, Rewritten, Row, Ids

\* SetReceipt rewrites its command's receipt alone.
LEMMA SetReceiptRewrites ==
  ASSUME TypeOK, NEW c \in Ids, NEW s \in Status, journal' = SetReceipt(c, s)
  PROVE  Rewritten({c}, s)
<1>1. journal \in [1..Len(journal) -> Row] /\ Len(journal) \in Nat
  BY DEF TypeOK, RequestState, OwnerState
<1>2. [journal[c] EXCEPT !.latest = s] \in Row
  BY <1>1 DEF Row, Ids
<1>3. journal' \in [1..Len(journal) -> Row]
  BY <1>1, <1>2 DEF SetReceipt, Ids
<1>4. journal' \in Seq(Row) /\ Len(journal') = Len(journal)
  BY <1>1, <1>3
<1>5. ASSUME NEW d \in Ids
      PROVE  /\ journal'[d].content = journal[d].content
             /\ journal'[d].latest = IF d \in {c} THEN s ELSE journal[d].latest
  BY <1>1, <1>2, <1>5 DEF SetReceipt, Ids, Row
<1> QED BY <1>4, <1>5 DEF Rewritten

\* Expired rewrites the receipts of its commands.
LEMMA ExpiredRewrites ==
  ASSUME TypeOK, NEW E \in SUBSET Ids, journal' = Expired(E)
  PROVE  Rewritten(E, "expired")
<1>1. journal \in [1..Len(journal) -> Row] /\ Len(journal) \in Nat
  BY DEF TypeOK, RequestState, OwnerState
<1>2. \A d \in Ids : [journal[d] EXCEPT !.latest = "expired"] \in Row
  BY <1>1 DEF Row, Ids, Status, Terminal
<1>3. journal' \in [1..Len(journal) -> Row]
  BY <1>1, <1>2 DEF Expired, Ids
<1>4. journal' \in Seq(Row) /\ Len(journal') = Len(journal)
  BY <1>1, <1>3
<1>5. ASSUME NEW d \in Ids
      PROVE  /\ journal'[d].content = journal[d].content
             /\ journal'[d].latest = IF d \in E THEN "expired" ELSE journal[d].latest
  BY <1>1, <1>2, <1>5 DEF Expired, Ids, Row
<1> QED BY <1>4, <1>5 DEF Rewritten

\* A new command is appended behind all the others.
LEMMA AppendExtends ==
  ASSUME TypeOK, NEW k \in Key, NEW x \in Content, NEW s \in Status,
         journal' = Append(journal, Command(k, x, s))
  PROVE  /\ journal' \in Seq(Row)
         /\ Len(journal') = Len(journal) + 1
         /\ \A d \in Ids : journal'[d] = journal[d]
         /\ journal'[Len(journal) + 1].content = x
         /\ journal'[Len(journal) + 1].latest = s
<1>1. journal \in Seq(Row) /\ Len(journal) \in Nat /\ now \in Nat /\ Ttl \in Nat
  BY PlaneAssumption DEF TypeOK, RequestState, OwnerState, Row
<1>2. Command(k, x, s) \in Row
  BY <1>1 DEF Command, Row
<1> QED BY <1>1, <1>2 DEF Ids, Command

-----------------------------------------------------------------------------
(* Every step preserves PlaneInv and maps to a step of the mailbox. *)

Mapped == [c \in Id |-> IF c \in Ids THEN Latest(c) ELSE "none"]

MailboxStep == [Mailbox!Next]_(Mailbox!mailbox)

Preserves == PlaneInv' /\ MailboxStep

\* Commands keep their mapped receipt unless the step rewrites it.
LEMMA MappedRewritten ==
  ASSUME TypeOK, NEW E \in SUBSET Ids, NEW s, Rewritten(E, s)
  PROVE  Mapped' = [c \in Id |-> IF c \in E THEN s ELSE Mapped[c]]
  BY DEF Mapped, Rewritten, Ids, Id, Latest, TypeOK, RequestState, OwnerState

\* Queuing a command that has no receipt yet is a mailbox step.
LEMMA MailboxAccepts ==
  ASSUME NEW c \in Id, Mapped[c] = "none", UNCHANGED acted,
         Mapped' = [d \in Id |-> IF d = c THEN "queued" ELSE Mapped[d]]
  PROVE  MailboxStep
<1>1. Mailbox!Accept(c)
  BY DEF Mailbox!Accept, Mapped
<1> QED BY <1>1, Zenon DEF MailboxStep, Mailbox!Next

\* So is taking a queued command.
LEMMA MailboxTakes ==
  ASSUME NEW c \in Id, Mapped[c] = "queued", UNCHANGED acted,
         Mapped' = [d \in Id |-> IF d = c THEN "applying" ELSE Mapped[d]]
  PROVE  MailboxStep
<1>1. Mailbox!Take(c)
  BY DEF Mailbox!Take, Mapped
<1> QED BY <1>1, Zenon DEF MailboxStep, Mailbox!Next

\* So is acting on an applying command for the first time.
LEMMA MailboxActs ==
  ASSUME NEW c \in Id, Mapped[c] = "applying", Mapped' = Mapped,
         acted \in [Id -> Nat], acted[c] = 0, acted' = [acted EXCEPT ![c] = 1]
  PROVE  MailboxStep
<1>1. Mailbox!Act(c)
  BY DEF Mailbox!Act, Mapped
<1> QED BY <1>1, Zenon DEF MailboxStep, Mailbox!Next

\* So is an honest terminal receipt of an applying command.
LEMMA MailboxSettles ==
  ASSUME NEW c \in Id, Mapped[c] = "applying", UNCHANGED acted,
         NEW s \in Terminal, s = "applied" => acted[c] = 1,
         s \notin {"applied", "rejected"} => acted[c] = 0,
         Mapped' = [d \in Id |-> IF d = c THEN s ELSE Mapped[d]]
  PROVE  MailboxStep
<1>1. Mailbox!Settle(c)
  BY DEF Mailbox!Settle, Mapped, Terminal, Mailbox!Terminal
<1> QED BY <1>1, Zenon DEF MailboxStep, Mailbox!Next

\* So is refusing, or expiring, queued commands.
LEMMA MailboxDrops ==
  ASSUME NEW D \in SUBSET {d \in Id : Mapped[d] = "queued"}, UNCHANGED acted,
         NEW s \in Terminal \ {"applied", "rejected"},
         Mapped' = [d \in Id |-> IF d \in D THEN s ELSE Mapped[d]]
  PROVE  MailboxStep
<1>1. Mailbox!Drop
  BY DEF Mailbox!Drop, Mapped, Terminal, Mailbox!Terminal
<1> QED BY <1>1, Zenon DEF MailboxStep, Mailbox!Next

\* A step that changes neither the receipts nor the targets is a stutter.
LEMMA MailboxStutters ==
  ASSUME Mapped' = Mapped, UNCHANGED acted PROVE MailboxStep
  BY DEF MailboxStep, Mailbox!mailbox, Mapped

\* The mapped receipt of one rewritten command.
LEMMA MappedOne ==
  ASSUME TypeOK, NEW c \in Ids, NEW s, Rewritten({c}, s)
  PROVE  /\ c \in Id /\ Mapped[c] = Latest(c)
         /\ Mapped' = [d \in Id |-> IF d = c THEN s ELSE Mapped[d]]
<1>1. Mapped' = [d \in Id |-> IF d \in {c} THEN s ELSE Mapped[d]]
  BY MappedRewritten
<1>2. Len(journal) \in Nat /\ MaxCommands \in Nat /\ Len(journal) <= MaxCommands
  BY PlaneAssumption DEF TypeOK, RequestState, OwnerState
<1>3. c \in Id
  BY <1>2 DEF Id, Ids
<1>4. Mapped[c] = Latest(c)
  BY <1>3 DEF Mapped
<1> QED BY <1>1, <1>3, <1>4

\* The receipts that record writes from a live state.
LEMMA RecordedRewrites ==
  ASSUME TypeOK, NEW c \in Ids, NEW s \in Status, Recorded(c, s)
  PROVE  /\ tail' \in {"complete", "unfinished", "corrupt"}
         /\ \/ MayFollow(Latest(c), s) /\ Rewritten({c}, s)
            \/ Latest(c) \in Terminal /\ Latest(c) = s /\ Rewritten({}, s)
<1>1. tail' \in {"complete", "unfinished", "corrupt"}
  BY DEF Recorded, Appended, RecoverTail, TypeOK, RequestState, OwnerState
<1>2. CASE MayFollow(Latest(c), s) /\ journal' = SetReceipt(c, s)
  BY <1>1, <1>2, SetReceiptRewrites
<1>3. CASE Latest(c) \in Terminal /\ Latest(c) = s /\ UNCHANGED journal
  BY <1>1, <1>3, UnchangedRewrites
<1> QED BY <1>2, <1>3 DEF Recorded

\* A request the step does not move keeps its claim on its command.
LEMMA KeepRequest ==
  ASSUME PlaneInv, NEW E \in SUBSET Ids, NEW s \in Status \ {"none"}, Rewritten(E, s),
         NEW q \in Request, req'[q] = req[q],
         InFlight(q) /\ RouteApplies(req[q].cmd) =>
            /\ acted'[req[q].cmd] = acted[req[q].cmd]
            /\ req[q].cmd \in E => Latest(req[q].cmd) = "queued" /\ s = "expired"
  PROVE  RequestOK(q)'
<1>1. /\ Len(journal') = Len(journal)
      /\ \A d \in Ids : journal'[d].content = journal[d].content
      /\ \A d \in Ids : Latest(d)' = IF d \in E THEN s ELSE Latest(d)
  BY DEF Rewritten, Latest
<1>2. CASE ~InFlight(q)
  BY <1>2 DEF RequestOK, InFlight
<1>3. CASE InFlight(q)
  <2>1. RequestOK(q) /\ req[q].cmd \in Ids /\ Latest(req[q].cmd) # "none"
    BY <1>3 DEF PlaneInv, RequestOK
  <2>2. RouteApplies(req[q].cmd)' = RouteApplies(req[q].cmd)
    BY <1>1, <2>1 DEF RouteApplies
  <2>3. Latest(req[q].cmd)' # "none" /\ (req[q].cmd \in Ids)'
    BY <1>1, <2>1 DEF Ids
  <2>4. CASE ~RouteApplies(req[q].cmd)
    <3>1. req[q].pc = "record" /\ req[q].status = "queued"
      BY <2>1, <2>4, <1>3 DEF RequestOK
    <3> QED BY <3>1, <2>2, <2>3, <2>4 DEF RequestOK
  <2>5. CASE RouteApplies(req[q].cmd)
    BY <1>1, <1>3, <2>1, <2>2, <2>3, <2>5 DEF RequestOK, Untouched, EndsHonestly
  <2> QED BY <2>4, <2>5
<1> QED BY <1>2, <1>3

\* So does an owner.
LEMMA KeepOwner ==
  ASSUME PlaneInv, NEW E \in SUBSET Ids, NEW s \in Status \ {"none"}, Rewritten(E, s),
         NEW o \in Owner, own'[o] = own[o],
         Applies(o) => own[o].cmd \notin E /\ acted'[own[o].cmd] = acted[own[o].cmd]
  PROVE  OwnerOK(o)'
<1>1. /\ Len(journal') = Len(journal)
      /\ \A d \in Ids : journal'[d].content = journal[d].content
      /\ \A d \in Ids : Latest(d)' = IF d \in E THEN s ELSE Latest(d)
  BY DEF Rewritten, Latest
<1>2. OwnerOK(o) /\ own[o].todo \subseteq Ids
  BY DEF PlaneInv, TypeOK, RequestState, OwnerState
<1>3. \A d \in Ids : RouteApplies(d)' = RouteApplies(d)
  BY <1>1 DEF RouteApplies
<1>4. \A d \in own[o].todo : Latest(d)' # "none" /\ ~RouteApplies(d)'
  BY <1>1, <1>2, <1>3 DEF OwnerOK
<1> QED BY <1>1, <1>2, <1>3, <1>4 DEF OwnerOK, Applies, EndsHonestly, Ids

\* Commands stay honest when the rewritten ones do.
LEMMA KeepCommands ==
  ASSUME PlaneInv, NEW E \in SUBSET Ids, NEW s, Rewritten(E, s), UNCHANGED acted,
         \A c \in E : /\ s = "applied" => acted[c] = 1
                      /\ s \notin {"applying", "applied", "rejected"} => acted[c] = 0
  PROVE  /\ \A c \in Ids' : CommandOK(c)'
         /\ \A c \in Id \ Ids' : acted'[c] = 0
<1>1. Ids' = Ids /\ \A d \in Ids : Latest(d)' = IF d \in E THEN s ELSE Latest(d)
  BY DEF Rewritten, Latest, Ids
<1> QED BY <1>1 DEF PlaneInv, CommandOK

(* hostd recording the outcome of a direct action keeps the invariant: the request that
   is recording is the only holder of its command. *)
LEMMA RouteRecordsKeeps ==
  ASSUME HandlerExclusive, PlaneInv, NEW r \in Request, RouteRecords(r)
  PROVE  Preserves
<1> DEFINE c == req[r].cmd
           s == req[r].status
<1> USE DEF Ids
<1>1. TypeOK /\ RequestOK(r) /\ InFlight(r) /\ c \in Ids /\ s \in Status
  BY DEF PlaneInv, RouteRecords, RequestOK, InFlight, At, TypeOK, RequestState, OwnerState
<1>2. /\ tail' \in {"complete", "unfinished", "corrupt"}
      /\ \/ MayFollow(Latest(c), s) /\ Rewritten({c}, s)
         \/ Latest(c) \in Terminal /\ Latest(c) = s /\ Rewritten({}, s)
  BY <1>1, RecordedRewrites DEF RouteRecords
<1>3. /\ Len(journal') = Len(journal) /\ journal' \in Seq(Row)
      /\ \A d \in Ids : journal'[d].content = journal[d].content
      /\ \A d \in Ids : d # c => journal'[d].latest = journal[d].latest
      /\ journal'[c].latest = s
  BY <1>2, <1>1 DEF Rewritten, Latest
<1>4. TypeOK'
  BY <1>1, <1>2, <1>3 DEF TypeOK, RequestState, OwnerState, RouteRecords, Goes, Status
<1>5. \/ /\ Latest(c) = "queued" /\ s = "queued" /\ ~RouteApplies(c)
      \/ /\ Latest(c) = "queued" /\ acted[c] = 0 /\ RouteApplies(c)
         /\ s \in {"applying", "conflict", "unsupported"}
      \/ EndsHonestly(c, s) /\ RouteApplies(c)
  BY <1>1, <1>2 DEF RequestOK, RouteRecords, At, MayFollow, Untouched, EndsHonestly, Terminal
<1>6. UNCHANGED <<own, acted>> /\ \A q \in Request : q # r => req'[q] = req[q]
  BY <1>1 DEF RouteRecords, Goes, TypeOK, RequestState, OwnerState
<1>7. /\ req'[r].cmd = c
      /\ req'[r].pc = IF s = "applying" THEN "act" ELSE "answered"
  BY <1>1 DEF RouteRecords, Goes, TypeOK, RequestState, OwnerState
<1>8. \A d \in Ids : CommandOK(d)'
  BY <1>1, <1>3, <1>5, <1>6 DEF PlaneInv, CommandOK, Latest, EndsHonestly, Terminal
<1>9. \A d \in (Id \ Ids)' : acted'[d] = 0
  BY <1>3, <1>6 DEF PlaneInv, Id
<1>10. \A d \in Ids : RouteApplies(d)' = RouteApplies(d)
  BY <1>3 DEF RouteApplies
<1>11. RequestOK(r)'
  BY <1>1, <1>3, <1>5, <1>6, <1>7, <1>10 DEF RequestOK, InFlight, Latest, EndsHonestly, Terminal
<1>12. ASSUME NEW q \in Request, q # r PROVE RequestOK(q)'
  <2>1. InFlight(q) => req[q].cmd # c /\ req[q].cmd \in Ids
    BY <1>1, <1>12 DEF PlaneInv, OneHolder, RequestOK
  <2> QED BY <2>1, <1>3, <1>6, <1>10, <1>12
          DEF PlaneInv, RequestOK, InFlight, Latest, EndsHonestly, Untouched
<1>13. ASSUME NEW o \in Owner PROVE OwnerOK(o)'
  <2>1. own[o].todo \subseteq Ids
    BY <1>1 DEF TypeOK, RequestState, OwnerState
  <2>2. Applies(o) => own[o].cmd # c \/ (Latest(c) = "queued" /\ s = "queued")
    BY <1>5, <1>13 DEF PlaneInv, OwnerOK
  <2>3. s # "none"
    BY <1>5 DEF EndsHonestly, Terminal
  <2> QED BY <2>1, <2>2, <2>3, <1>1, <1>3, <1>6, <1>10, <1>13
          DEF PlaneInv, OwnerOK, Applies, Latest, EndsHonestly
<1>14. OneHolder'
  BY <1>1, <1>6, <1>7 DEF PlaneInv, OneHolder, InFlight, Applies
<1>15. PlaneInv'
  BY <1>3, <1>4, <1>8, <1>9, <1>11, <1>12, <1>13, <1>14 DEF PlaneInv
<1>16. MailboxStep
  <2>1. CASE Rewritten({}, s)
    <3>1. Mapped' = [d \in Id |-> Mapped[d]]
      BY <1>1, <2>1, MappedRewritten
    <3> QED BY <3>1, <1>6, MailboxStutters DEF Mapped
  <2>2. CASE Rewritten({c}, s)
    <3>1. /\ c \in Id /\ Mapped[c] = Latest(c)
          /\ Mapped' = [d \in Id |-> IF d = c THEN s ELSE Mapped[d]]
      BY <1>1, <2>2, MappedOne
    <3>2. CASE s = "queued" /\ Latest(c) = "queued"
      <4>1. Mapped' = Mapped
        BY <3>1, <3>2 DEF Mapped
      <4> QED BY <4>1, <1>6, MailboxStutters
    <3>3. CASE Latest(c) = "queued" /\ s = "applying"
      BY <3>1, <3>3, <1>6, MailboxTakes
    <3>4. CASE Latest(c) = "queued" /\ s \in {"conflict", "unsupported"}
      <4>1. {c} \in SUBSET {d \in Id : Mapped[d] = "queued"} /\ s \in Terminal \ {"applied", "rejected"}
        BY <3>1, <3>4 DEF Terminal
      <4>2. Mapped' = [d \in Id |-> IF d \in {c} THEN s ELSE Mapped[d]]
        BY <3>1
      <4> QED BY <4>1, <4>2, <1>6, MailboxDrops
    <3>5. CASE EndsHonestly(c, s)
      BY <3>1, <3>5, <1>6, MailboxSettles DEF EndsHonestly
    <3> QED BY <1>5, <3>2, <3>3, <3>4, <3>5
  <2> QED BY <1>2, <2>1, <2>2
<1> QED BY <1>15, <1>16 DEF Preserves

(* An owner recording the outcome it computed keeps the invariant. *)
LEMMA OwnerRecordsKeeps ==
  ASSUME HandlerExclusive, PlaneInv, NEW o \in Owner, OwnerRecords(o)
  PROVE  Preserves
<1> DEFINE c == own[o].cmd
           s == own[o].status
<1>1. TypeOK /\ c \in Ids /\ EndsHonestly(c, s) /\ ~RouteApplies(c) /\ s \in Status \ {"none"}
  BY DEF PlaneInv, OwnerRecords, OwnerOK, Applies, EndsHonestly, Status, Terminal
<1>2. Rewritten({c}, s) /\ tail' \in {"complete", "unfinished", "corrupt"}
  BY <1>1, RecordedRewrites DEF OwnerRecords, EndsHonestly, Terminal
<1>3. UNCHANGED <<req, acted>> /\ \A p \in Owner : p # o => own'[p] = own[p]
  BY <1>1 DEF OwnerRecords, TypeOK, RequestState, OwnerState
<1>4. /\ own'[o].todo = own[o].todo
      /\ own'[o].pc = "claim"
  BY <1>1 DEF OwnerRecords, TypeOK, RequestState, OwnerState
<1>5. TypeOK'
  BY <1>1, <1>2 DEF TypeOK, RequestState, OwnerState, OwnerRecords, Rewritten, Ids, Status
<1>6. \A d \in Ids' : CommandOK(d)'
  BY <1>1, <1>2, <1>3, KeepCommands DEF EndsHonestly
<1>7. \A d \in (Id \ Ids)' : acted'[d] = 0
  <2>1. Ids' = Ids
    BY <1>2 DEF Rewritten, Ids
  <2> QED BY <1>3, <2>1 DEF PlaneInv, Id
<1>8. ASSUME NEW q \in Request PROVE RequestOK(q)'
  <2>1. req'[q] = req[q] /\ acted' = acted /\ {c} \in SUBSET Ids
    BY <1>1, <1>3
  <2>2. RouteApplies(req[q].cmd) => req[q].cmd \notin {c}
    BY <1>1
  <2> HIDE DEF c, s
  <2> QED BY <1>1, <1>2, <2>1, <2>2, KeepRequest
<1>9. ASSUME NEW p \in Owner, p # o PROVE OwnerOK(p)'
  <2>1. own'[p] = own[p] /\ acted' = acted /\ {c} \in SUBSET Ids
    BY <1>1, <1>3, <1>9
  <2>2. Applies(p) => own[p].cmd \notin {c}
    BY <1>9 DEF PlaneInv, OneHolder, OwnerRecords, Applies
  <2> HIDE DEF c, s
  <2> QED BY <1>1, <1>2, <2>1, <2>2, KeepOwner
<1>10. OwnerOK(o)'
  <2>1. /\ \A d \in Ids : journal'[d].content = journal[d].content
        /\ \A d \in Ids : Latest(d)' # "none" \/ Latest(d) = "none"
    BY <1>1, <1>2 DEF Rewritten, Latest
  <2>2. own[o].todo \subseteq Ids
    BY <1>1 DEF TypeOK, RequestState, OwnerState
  <2> QED BY <1>4, <2>1, <2>2 DEF PlaneInv, OwnerOK, Applies, RouteApplies
<1>11. OneHolder'
  BY <1>3, <1>4 DEF PlaneInv, OneHolder, InFlight, Applies
<1>12. PlaneInv'
  BY <1>5, <1>6, <1>7, <1>8, <1>9, <1>10, <1>11 DEF PlaneInv
<1>13. MailboxStep
  <2>1. /\ c \in Id /\ Mapped[c] = Latest(c)
        /\ Mapped' = [d \in Id |-> IF d = c THEN s ELSE Mapped[d]]
    BY <1>1, <1>2, MappedOne
  <2> QED BY <2>1, <1>1, <1>3, MailboxSettles DEF EndsHonestly
<1> QED BY <1>12, <1>13 DEF Preserves

\* A step that touches neither the journal nor a target, and hands no command
\* to a process that did not hold it.
LEMMA QuietKeeps ==
  ASSUME PlaneInv, TypeOK', UNCHANGED <<journal, acted>>,
         \A r \in Request : \/ req'[r] = req[r]
                            \/ ~InFlight(r)'
                            \/ InFlight(r) /\ req'[r].cmd = req[r].cmd /\ RequestOK(r)',
         \A o \in Owner :
            /\ own'[o].todo \subseteq own[o].todo
            /\ Applies(o)' => /\ own'[o].pc = own[o].pc
                              /\ own'[o].cmd = own[o].cmd
                              /\ own'[o].status = own[o].status
  PROVE  Preserves
<1>1. /\ Ids' = Ids /\ \A c : Latest(c)' = Latest(c)
      /\ \A c : RouteApplies(c)' = RouteApplies(c)
      /\ \A c, s : EndsHonestly(c, s)' = EndsHonestly(c, s)
      /\ \A c : Untouched(c)' = Untouched(c)
  BY DEF Ids, Latest, RouteApplies, EndsHonestly, Untouched
<1>2. \A r \in Request : RequestOK(r)'
  BY <1>1 DEF PlaneInv, RequestOK, InFlight
<1>3. \A o \in Owner : OwnerOK(o)'
  BY <1>1 DEF PlaneInv, OwnerOK, Applies
<1>4. OneHolder'
  BY DEF PlaneInv, OneHolder, InFlight, Applies
<1>5. PlaneInv'
  BY <1>1, <1>2, <1>3, <1>4 DEF PlaneInv, CommandOK, Id
<1>6. Mapped' = Mapped
  BY <1>1 DEF Mapped, Id
<1> QED BY <1>5, <1>6, MailboxStutters DEF Preserves

(* The steps that change neither the journal's receipts nor what was actuated (a
   replayed submission, a refused read, a failed record, the end of a round, a crash of
   hostd, the clock). *)
LEMMA QuietStepsKeep ==
  ASSUME HandlerExclusive, PlaneInv,
         \/ \E r \in Request, k \in Key, x \in Content : SubmitReplayed(r, k, x)
         \/ \E r \in Request : CheckSession(r) \/ RouteRecordRaises(r)
         \/ \E o \in Owner : EndRound(o) \/ Stop(o)
         \/ HostdCrash
         \/ Tick
  PROVE  Preserves
<1>1. TypeOK
  BY DEF PlaneInv
<1>2. ASSUME NEW r \in Request, NEW k \in Key, NEW x \in Content, SubmitReplayed(r, k, x)
      PROVE  Preserves
  <2>1. TypeOK'
    BY <1>1, <1>2 DEF TypeOK, RequestState, OwnerState, SubmitReplayed, Goes, RecoverTail, Matching, Ids, Status
  <2>2. \A q \in Request : req'[q] = req[q] \/ ~InFlight(q)'
    BY <1>1, <1>2 DEF SubmitReplayed, Goes, InFlight, TypeOK, RequestState, OwnerState
  <2>3. UNCHANGED <<journal, acted, own>>
    BY <1>2 DEF SubmitReplayed
  <2> QED BY <2>1, <2>2, <2>3, QuietKeeps DEF Applies
<1>3. ASSUME NEW r \in Request, CheckSession(r) PROVE Preserves
  <2>1. /\ req[r].pc = "check" /\ req[r].cmd \in Ids
        /\ Latest(req[r].cmd) # "none"
        /\ RouteApplies(req[r].cmd) /\ Untouched(req[r].cmd)
    BY <1>3 DEF CheckSession, At, PlaneInv, RequestOK, InFlight
  <2>2. PICK s \in {"conflict", "applying", "unsupported"} :
            req' = [req EXCEPT ![r] = [pc |-> "record", cmd |-> req[r].cmd, status |-> s]]
    BY <1>3 DEF CheckSession, Goes, ActionStatus
  <2>3. UNCHANGED <<journal, acted, own, tail, now>>
    BY <1>3 DEF CheckSession
  <2>4. TypeOK'
    BY <1>1, <2>1, <2>2, <2>3 DEF TypeOK, RequestState, OwnerState, Ids, Status, Terminal
  <2>5. /\ req'[r].pc = "record" /\ req'[r].cmd = req[r].cmd /\ req'[r].status = s
        /\ \A q \in Request : q # r => req'[q] = req[q]
    BY <1>1, <2>2 DEF TypeOK, RequestState, OwnerState
  <2>6. RequestOK(r)'
    BY <2>1, <2>3, <2>5 DEF RequestOK, Ids, Latest, RouteApplies, Untouched
  <2>7. InFlight(r)
    BY <2>1 DEF InFlight
  <2> QED BY <2>3, <2>4, <2>5, <2>6, <2>7, QuietKeeps DEF Applies
<1>4. ASSUME NEW r \in Request, RouteRecordRaises(r) PROVE Preserves
  <2>1. TypeOK'
    BY <1>1, <1>4 DEF TypeOK, RequestState, OwnerState, RouteRecordRaises, RecordRaises, Goes, RecoverTail, Ids, Status
  <2>2. \A q \in Request : req'[q] = req[q] \/ ~InFlight(q)'
    BY <1>1, <1>4 DEF RouteRecordRaises, Goes, InFlight, TypeOK, RequestState, OwnerState
  <2>3. UNCHANGED <<journal, acted, own>>
    BY <1>4 DEF RouteRecordRaises, RecordRaises
  <2> QED BY <2>1, <2>2, <2>3, QuietKeeps DEF Applies
<1>5. ASSUME NEW o \in Owner, EndRound(o) \/ Stop(o)
      PROVE  Preserves
  <2>1. UNCHANGED <<journal, acted, req, now>> /\ tail' \in {"complete", "unfinished", "corrupt"}
    BY <1>1, <1>5 DEF EndRound, Stop, TypeOK
  <2>2. PICK st \in OwnerState :
            /\ own' = [own EXCEPT ![o] = st]
            /\ st.todo = own[o].todo
            /\ st.pc \in {"apply", "record"} =>
                 st.pc = own[o].pc /\ st.cmd = own[o].cmd /\ st.status = own[o].status
    <3>1. own[o] \in OwnerState
      BY <1>1 DEF TypeOK
    <3>3. CASE EndRound(o) /\ own[o].phase = "serving"
      <4> DEFINE st == [own[o] EXCEPT !.pc = "run"]
      <4> st \in OwnerState /\ st.pc = "run" /\ st.todo = own[o].todo
        BY <3>1 DEF OwnerState
      <4> QED BY <3>3, <1>1 DEF EndRound, TypeOK
    <3>4. CASE EndRound(o) /\ own[o].phase = "stopping"
      <4> DEFINE st == [own[o] EXCEPT !.pc = "run", !.phase = "last"]
      <4> st \in OwnerState /\ st.pc = "run" /\ st.todo = own[o].todo
        BY <3>1 DEF OwnerState
      <4>1. own' = [own EXCEPT ![o].pc = "run", ![o].phase = "last"]
        BY <3>4 DEF EndRound
      <4>2. own' = [own EXCEPT ![o] = st]
        BY <4>1, <1>1 DEF TypeOK
      <4> QED BY <4>2
    <3>5. CASE EndRound(o) /\ own[o].phase = "last"
      <4> DEFINE st == [own[o] EXCEPT !.pc = "retired"]
      <4> st \in OwnerState /\ st.pc = "retired" /\ st.todo = own[o].todo
        BY <3>1 DEF OwnerState
      <4> QED BY <3>5, <1>1 DEF EndRound, TypeOK
    <3>6. CASE Stop(o)
      <4> DEFINE queued == {c \in Ids : /\ Latest(c) = "queued"
                                        /\ journal[c].content \in Owns[o]
                                        /\ Kind[journal[c].content] \in {"run", "agent"}}
                 st == [own[o] EXCEPT !.phase = "stopping", !.owed = queued]
      <4> st \in OwnerState /\ st.todo = own[o].todo
          /\ st.pc = own[o].pc /\ st.cmd = own[o].cmd /\ st.status = own[o].status
        BY <3>1 DEF OwnerState
      <4>1. own' = [own EXCEPT ![o].phase = "stopping", ![o].owed = queued]
        BY <3>6 DEF Stop
      <4>2. own' = [own EXCEPT ![o] = st]
        BY <4>1, <1>1 DEF TypeOK
      <4> QED BY <4>2
    <3> QED BY <1>5, <3>1, <3>3, <3>4, <3>5, <3>6 DEF OwnerState, EndRound
  <2>3. own' \in [Owner -> OwnerState]
    BY <1>1, <2>2 DEF TypeOK
  <2>4. TypeOK'
    BY <1>1, <2>1, <2>3 DEF TypeOK, OwnerState, RequestState, Ids
  <2>5. \A p \in Owner :
            /\ own'[p].todo = own[p].todo
            /\ Applies(p)' => /\ own'[p].pc = own[p].pc
                              /\ own'[p].cmd = own[p].cmd
                              /\ own'[p].status = own[p].status
    BY <1>1, <2>2 DEF TypeOK, Applies
  <2> QED BY <2>1, <2>4, <2>5, QuietKeeps
<1>6. ASSUME HostdCrash PROVE Preserves
  <2>1. UNCHANGED <<journal, acted, own, now>> /\ tail' \in {"complete", "unfinished", "corrupt"}
    BY <1>1, <1>6 DEF HostdCrash, TypeOK
  <2>2. \A q \in Request : [req[q] EXCEPT !.pc = "lost"] \in RequestState /\ req[q] \in RequestState
    BY <1>1 DEF TypeOK, RequestState
  <2>3. req' \in [Request -> RequestState]
    BY <1>6, <2>2 DEF HostdCrash
  <2>4. TypeOK'
    BY <1>1, <2>1, <2>3 DEF TypeOK, OwnerState, RequestState, Ids
  <2>5. \A q \in Request : req'[q] = req[q] \/ ~InFlight(q)'
    BY <1>6, <2>2 DEF HostdCrash, InFlight, RequestState
  <2> QED BY <2>1, <2>4, <2>5, QuietKeeps DEF Applies
<1>7. ASSUME Tick PROVE Preserves
  <2>1. TypeOK'
    BY <1>1, <1>7, PlaneAssumption DEF TypeOK, RequestState, OwnerState, Tick, Ids
  <2> QED BY <2>1, <1>7, QuietKeeps DEF Tick, Applies
<1> QED BY <1>2, <1>3, <1>4, <1>5, <1>6, <1>7

\* Expiring queued commands disturbs nobody who is applying one.
LEMMA ExpiryKeeps ==
  ASSUME PlaneInv, TypeOK', NEW E \in SUBSET Overdue, Rewritten(E, "expired"),
         UNCHANGED <<req, acted>>,
         \A p \in Owner : \/ own'[p] = own[p]
                          \/ /\ ~Applies(p)'
                             /\ \A c \in own'[p].todo :
                                  c \in Ids /\ Latest(c) # "none" /\ ~RouteApplies(c)
  PROVE  Preserves
<1>1. /\ E \in SUBSET Ids /\ \A c \in E : Latest(c) = "queued" /\ acted[c] = 0
      /\ "expired" \in Status \ {"none"}
  BY DEF Overdue, Scanned, PlaneInv, CommandOK, Status, Terminal
<1>2. \A c \in Ids' : CommandOK(c)'
  BY <1>1, KeepCommands
<1>3. \A c \in (Id \ Ids)' : acted'[c] = 0
  BY <1>1, KeepCommands DEF Id
<1>4. ASSUME NEW q \in Request PROVE RequestOK(q)'
  BY <1>1, KeepRequest
<1>5. ASSUME NEW p \in Owner PROVE OwnerOK(p)'
  <2>1. CASE own'[p] = own[p]
    <3>1. Applies(p) => own[p].cmd \notin E
      BY <1>1 DEF PlaneInv, OwnerOK, EndsHonestly
    <3> QED BY <1>1, <2>1, <3>1, KeepOwner
  <2>2. CASE ~Applies(p)' /\ \A c \in own'[p].todo :
                c \in Ids /\ Latest(c) # "none" /\ ~RouteApplies(c)
    <3>1. \A c \in Ids : /\ journal'[c].content = journal[c].content
                         /\ Latest(c) # "none" => Latest(c)' # "none"
      BY DEF Rewritten, Latest
    <3> QED BY <2>2, <3>1 DEF OwnerOK, RouteApplies
  <2> QED BY <2>1, <2>2
<1>6. OneHolder'
  BY DEF PlaneInv, OneHolder, InFlight, Applies
<1>7. PlaneInv'
  BY <1>2, <1>3, <1>4, <1>5, <1>6 DEF PlaneInv
<1>8. MailboxStep
  <2>1. Mapped' = [c \in Id |-> IF c \in E THEN "expired" ELSE Mapped[c]]
    BY <1>1, MappedRewritten DEF PlaneInv
  <2>2. Len(journal) \in Nat /\ MaxCommands \in Nat /\ Len(journal) <= MaxCommands
    BY PlaneAssumption DEF PlaneInv, TypeOK
  <2>3. \A c \in E : c \in Id
    BY <1>1, <2>2 DEF Ids, Id
  <2>4. E \in SUBSET {c \in Id : Mapped[c] = "queued"}
    BY <1>1, <2>3 DEF Mapped
  <2> QED BY <2>1, <2>4, MailboxDrops DEF Terminal
<1> QED BY <1>7, <1>8 DEF Preserves

(* An owner's poll expires the overdue commands and chooses a batch of queued ones; a
   poll that raises expires some of them and leaves. *)
LEMMA PollKeeps ==
  ASSUME HandlerExclusive, PlaneInv, NEW o \in Owner, NEW kind \in {"run", "agent"},
         Poll(o, kind) \/ PollRaises(o, kind)
  PROVE  Preserves
<1>1. TypeOK /\ own[o] \in OwnerState /\ Overdue \in SUBSET Ids
  BY DEF PlaneInv, TypeOK, Overdue, Scanned
<1>2. Rewritten(Overdue, "expired") /\ UNCHANGED <<req, acted, now>>
  BY <1>1, ExpiredRewrites DEF Poll, PollRaises
<1>3. tail' \in {"complete", "unfinished", "corrupt"}
  BY <1>1 DEF Poll, PollRaises, RecoverTail, Appended, TypeOK
<1>4. PICK st \in OwnerState :
        /\ own' = [own EXCEPT ![o] = st]
        /\ st.pc \notin {"apply", "record"}
        /\ st.todo \subseteq own[o].todo \cup OwnedPending(o, kind)
  <2>1. CASE Poll(o, kind)
    <3> DEFINE st == [own[o] EXCEPT !.pc = PollNext(kind),
                                    !.todo = @ \cup OwnedPending(o, kind)]
    <3>1. OwnedPending(o, kind) \subseteq Ids /\ PollNext(kind) \in {"agent", "claim"}
      BY DEF OwnedPending, Pending, PollNext
    <3>2. st \in OwnerState /\ st.pc = PollNext(kind)
          /\ st.todo = own[o].todo \cup OwnedPending(o, kind)
      BY <1>1, <3>1 DEF OwnerState
    <3>3. own' = [own EXCEPT ![o] = st]
      BY <1>1, <2>1 DEF Poll, TypeOK
    <3> HIDE DEF st
    <3> QED BY <3>1, <3>2, <3>3
  <2>2. CASE PollRaises(o, kind)
    <3> DEFINE st == [own[o] EXCEPT !.pc = "dead"]
    <3>1. st \in OwnerState /\ st.pc = "dead" /\ st.todo = own[o].todo
      BY <1>1 DEF OwnerState
    <3>2. own' = [own EXCEPT ![o] = st]
      BY <1>1, <2>2 DEF PollRaises, TypeOK
    <3> HIDE DEF st
    <3> QED BY <3>1, <3>2
  <2> QED BY <2>1, <2>2
<1>5. TypeOK'
  <2>1. Ids' = Ids /\ journal' \in Seq(Row) /\ Len(journal') = Len(journal)
    BY <1>2 DEF Rewritten, Ids
  <2>2. own' \in [Owner -> OwnerState] /\ OwnerState' = OwnerState /\ RequestState' = RequestState
    BY <1>1, <1>4, <2>1 DEF TypeOK, OwnerState, RequestState
  <2> QED BY <1>1, <1>2, <1>3, <2>1, <2>2 DEF TypeOK
<1>6. \A c \in OwnedPending(o, kind) : c \in Ids /\ Latest(c) # "none" /\ ~RouteApplies(c)
  BY DEF OwnedPending, Pending, HandlerExclusive, RouteApplies
<1>7. \A c \in own[o].todo : c \in Ids /\ Latest(c) # "none" /\ ~RouteApplies(c)
  BY <1>1 DEF PlaneInv, OwnerOK, OwnerState
<1>8. ASSUME NEW p \in Owner
      PROVE  \/ own'[p] = own[p]
             \/ /\ ~Applies(p)'
                /\ \A c \in own'[p].todo :
                     c \in Ids /\ Latest(c) # "none" /\ ~RouteApplies(c)
  <2>1. CASE p = o
    <3>1. own'[p].pc \notin {"apply", "record"}
          /\ own'[p].todo \subseteq own[o].todo \cup OwnedPending(o, kind)
      BY <1>1, <1>4, <2>1 DEF TypeOK
    <3> QED BY <3>1, <1>6, <1>7 DEF Applies
  <2>2. CASE p # o
    BY <1>1, <1>4, <2>2 DEF TypeOK
  <2> QED BY <2>1, <2>2
<1> QED BY <1>2, <1>5, <1>8, ExpiryKeeps

(* An owner that dies, even between the appends of the expiry sweep, leaves the
   invariant: what it held stays 'applying' and nobody acts on it. *)
LEMMA OwnerCrashKeeps ==
  ASSUME HandlerExclusive, PlaneInv, NEW o \in Owner, OwnerCrash(o)
  PROVE  Preserves
<1>1. TypeOK /\ UNCHANGED <<req, acted, now>> /\ tail' \in {"complete", "unfinished", "corrupt"}
  BY DEF PlaneInv, TypeOK, OwnerCrash, RecoverTail
<1>2. PICK E \in SUBSET Overdue : Rewritten(E, "expired")
  <2>1. CASE UNCHANGED journal
    BY <1>1, <2>1, UnchangedRewrites
  <2>2. ASSUME NEW E \in SUBSET Overdue, journal' = Expired(E)
        PROVE  Rewritten(E, "expired")
    BY <1>1, <2>2, ExpiredRewrites DEF Overdue, Scanned
  <2> QED BY <2>1, <2>2 DEF OwnerCrash
<1>3. InitialOwner \in OwnerState /\ InitialOwner.todo = {} /\ InitialOwner.pc = "run"
  BY DEF InitialOwner, OwnerState, Status
<1>4. TypeOK'
  <2>1. Ids' = Ids /\ journal' \in Seq(Row) /\ Len(journal') = Len(journal)
    BY <1>2 DEF Rewritten, Ids
  <2>2. own' \in [Owner -> OwnerState] /\ OwnerState' = OwnerState /\ RequestState' = RequestState
    BY <1>1, <1>3, <2>1 DEF TypeOK, OwnerState, RequestState, OwnerCrash
  <2> QED BY <1>1, <1>2, <2>1, <2>2 DEF TypeOK
<1>5. \A p \in Owner : own'[p] = own[p] \/ (own'[p].todo = {} /\ own'[p].pc = "run")
  BY <1>1, <1>3 DEF TypeOK, OwnerCrash
<1> QED BY <1>1, <1>2, <1>4, <1>5, ExpiryKeeps DEF Applies

(* A claim re-reads the latest receipt under the file lock, so it makes its owner the
   only holder or only drops the command from the batch. *)
LEMMA ClaimKeeps ==
  ASSUME HandlerExclusive, PlaneInv, NEW o \in Owner, Claim(o)
  PROVE  Preserves
<1>1. TypeOK /\ own[o] \in OwnerState /\ UNCHANGED <<req, acted, now>>
  BY DEF PlaneInv, TypeOK, Claim
<1> DEFINE live(c) == Latest(c) = "queued" /\ journal[c].expires > now
           taken(c) == [own[o] EXCEPT !.todo = @ \ {c},
                          !.pc = IF live(c) THEN "apply" ELSE "claim",
                          !.cmd = IF live(c) THEN c ELSE None]
<1>2. PICK c \in own[o].todo :
        /\ Latest(c) # "none"
        /\ journal' = CASE live(c) -> SetReceipt(c, "applying")
                        [] ~live(c) /\ Latest(c) = "queued" -> SetReceipt(c, "expired")
                        [] OTHER -> journal
        /\ tail' = IF Latest(c) = "queued" THEN Appended(RecoverTail) ELSE RecoverTail
        /\ own' = [own EXCEPT ![o].todo = @ \ {c},
                              ![o].pc = IF live(c) THEN "apply" ELSE "claim",
                              ![o].cmd = IF live(c) THEN c ELSE None]
  BY DEF Claim
<1>3. c \in Ids /\ ~RouteApplies(c)
  BY <1>1, <1>2 DEF OwnerState, PlaneInv, OwnerOK
<1>4. own' = [own EXCEPT ![o] = taken(c)]
  BY <1>1, <1>2 DEF TypeOK
<1>5. /\ taken(c) \in OwnerState
      /\ taken(c).todo = own[o].todo \ {c}
      /\ taken(c).pc = IF live(c) THEN "apply" ELSE "claim"
      /\ live(c) => taken(c).cmd = c
  BY <1>1, <1>3 DEF OwnerState
<1>6. tail' \in {"complete", "unfinished", "corrupt"}
  BY <1>1, <1>2 DEF Appended, RecoverTail, TypeOK
<1>7. PICK E \in SUBSET {c}, s \in {"applying", "expired"} :
        /\ Rewritten(E, s)
        /\ E = {c} => Latest(c) = "queued"
        /\ live(c) => E = {c} /\ s = "applying"
        /\ ~live(c) => s = "expired"
  <2>1. CASE live(c)
    BY <1>1, <1>2, <1>3, <2>1, SetReceiptRewrites DEF Status
  <2>2. CASE ~live(c) /\ Latest(c) = "queued"
    <3>1. journal' = SetReceipt(c, "expired")
      BY <1>2, <2>2
    <3>2. Rewritten({c}, "expired")
      BY <1>1, <1>3, <3>1, SetReceiptRewrites DEF Status, Terminal
    <3> QED BY <2>2, <3>2
  <2>3. CASE ~live(c) /\ Latest(c) # "queued"
    <3>1. journal' = journal
      BY <1>2, <2>3
    <3>2. Rewritten({}, "expired")
      BY <1>1, <3>1, UnchangedRewrites
    <3> QED BY <2>3, <3>2
  <2> QED BY <2>1, <2>2, <2>3
<1>8. E \in SUBSET Ids /\ s \in Status \ {"none"} /\ \A d \in E : Latest(d) = "queued" /\ acted[d] = 0
  BY <1>3, <1>7 DEF Status, Terminal, PlaneInv, CommandOK
<1> HIDE DEF live, taken
<1>9. TypeOK'
  <2>1. Ids' = Ids /\ journal' \in Seq(Row) /\ Len(journal') = Len(journal)
    BY <1>7 DEF Rewritten, Ids
  <2>2. own' \in [Owner -> OwnerState] /\ OwnerState' = OwnerState /\ RequestState' = RequestState
    BY <1>1, <1>4, <1>5, <2>1 DEF TypeOK, OwnerState, RequestState
  <2> QED BY <1>1, <1>6, <2>1, <2>2 DEF TypeOK
<1>10. \A d \in Ids' : CommandOK(d)'
  BY <1>1, <1>7, <1>8, KeepCommands
<1>11. \A d \in (Id \ Ids)' : acted'[d] = 0
  BY <1>1, <1>7, <1>8, KeepCommands DEF Id
<1>12. ASSUME NEW q \in Request PROVE RequestOK(q)'
  <2>1. RouteApplies(req[q].cmd) => req[q].cmd \notin E
    BY <1>3, <1>7
  <2> QED BY <1>1, <1>7, <1>8, <2>1, KeepRequest
<1>13. ASSUME NEW p \in Owner, p # o PROVE OwnerOK(p)'
  <2>1. Applies(p) => own[p].cmd \notin E
    BY <1>8 DEF PlaneInv, OwnerOK, EndsHonestly
  <2>2. own'[p] = own[p]
    BY <1>1, <1>4, <1>13 DEF TypeOK
  <2> QED BY <1>1, <1>7, <1>8, <2>1, <2>2, KeepOwner
<1>14. own'[o] = taken(c)
  BY <1>1, <1>4 DEF TypeOK
<1>15. /\ \A d \in Ids : journal'[d].content = journal[d].content
       /\ \A d \in Ids : Latest(d)' = IF d \in E THEN s ELSE Latest(d)
       /\ Ids' = Ids
  BY <1>7 DEF Rewritten, Latest, Ids
<1>16. OwnerOK(o)'
  <2>1. \A d \in taken(c).todo : Latest(d)' # "none" /\ ~RouteApplies(d)'
    BY <1>1, <1>5, <1>8, <1>15 DEF PlaneInv, OwnerOK, RouteApplies, OwnerState
  <2>2. live(c) => /\ c \in Ids' /\ ~RouteApplies(c)'
                   /\ Latest(c)' = "applying" /\ acted'[c] = 0
    BY <1>1, <1>3, <1>7, <1>8, <1>15 DEF RouteApplies
  <2> QED BY <1>5, <1>14, <2>1, <2>2 DEF OwnerOK, Applies
<1>17. OneHolder'
  <2>1. \A p \in Owner : p # o => own'[p] = own[p]
    BY <1>1, <1>4 DEF TypeOK
  <2>2. \A p \in Owner : p # o /\ Applies(p) /\ live(c) => own[p].cmd # c
    BY <1>7, <1>8 DEF PlaneInv, OwnerOK, EndsHonestly
  <2> QED BY <1>1, <1>5, <1>14, <2>1, <2>2 DEF PlaneInv, OneHolder, InFlight, Applies
<1>18. PlaneInv'
  BY <1>9, <1>10, <1>11, <1>12, <1>13, <1>16, <1>17 DEF PlaneInv
<1>19. MailboxStep
  <2>1. CASE E = {}
    <3>1. Mapped' = [d \in Id |-> Mapped[d]]
      BY <1>1, <1>7, <1>8, <2>1, MappedRewritten
    <3> QED BY <1>1, <3>1, MailboxStutters DEF Mapped
  <2>2. CASE E = {c}
    <3>1. /\ c \in Id /\ Mapped[c] = "queued"
          /\ Mapped' = [d \in Id |-> IF d = c THEN s ELSE Mapped[d]]
      BY <1>1, <1>3, <1>7, <2>2, MappedOne
    <3>2. CASE s = "applying"
      BY <1>1, <3>1, <3>2, MailboxTakes
    <3>3. CASE s = "expired"
      <4>1. {c} \in SUBSET {d \in Id : Mapped[d] = "queued"} /\ s \in Terminal \ {"applied", "rejected"}
        BY <3>1, <3>3 DEF Terminal
      <4>2. Mapped' = [d \in Id |-> IF d \in {c} THEN s ELSE Mapped[d]]
        BY <3>1
      <4> QED BY <4>1, <4>2, <1>1, MailboxDrops
    <3> QED BY <1>7, <3>2, <3>3
  <2> QED BY <1>7, <2>1, <2>2
<1> QED BY <1>18, <1>19 DEF Preserves

\* What an actuation that ends with outcome w may report.
HonestOutcome(w) ==
    /\ w.status \in Terminal
    /\ w.acts \in {0, 1}
    /\ w.status = "applied" => w.acts = 1
    /\ w.status \notin {"applied", "rejected"} => w.acts = 0

\* Every outcome of a target, a handler or an owner is of that kind.
LEMMA OutcomesAreHonest ==
  /\ \A w \in Outcomes \cup Declined : HonestOutcome(w)
  /\ \A x : \A w \in OwnerOutcomes(x) : HonestOutcome(w)
  BY DEF Outcomes, Declined, OwnerOutcomes, HonestOutcome, Terminal

\* Acting on a command that only one process applies, and for the first time.
LEMMA ActKeeps ==
  ASSUME PlaneInv, NEW c \in Ids, Latest(c) = "applying", acted[c] = 0,
         NEW n \in {0, 1}, acted' = [acted EXCEPT ![c] = @ + n], UNCHANGED journal
  PROVE  /\ acted' \in [Id -> Nat] /\ acted'[c] = n
         /\ \A d \in Id : d # c => acted'[d] = acted[d]
         /\ \A d \in Ids' : CommandOK(d)'
         /\ \A d \in (Id \ Ids)' : acted'[d] = 0
         /\ Rewritten({}, "applying")
         /\ MailboxStep
<1>1. TypeOK /\ acted \in [Id -> Nat]
  BY DEF PlaneInv, TypeOK
<1>2. Len(journal) \in Nat /\ MaxCommands \in Nat /\ Len(journal) <= MaxCommands
  BY PlaneAssumption, <1>1 DEF TypeOK
<1>3. c \in Id /\ Ids' = Ids /\ \A d \in Ids : d \in Id
  BY <1>2 DEF Ids, Id
<1>4. acted' \in [Id -> Nat] /\ acted'[c] = n /\ \A d \in Id : d # c => acted'[d] = acted[d]
  BY <1>1, <1>3
<1>5. \A d \in Ids' : CommandOK(d)'
  BY <1>3, <1>4 DEF PlaneInv, CommandOK, Latest
<1>6. \A d \in (Id \ Ids)' : acted'[d] = 0
  BY <1>3, <1>4 DEF PlaneInv, Id
<1>7. Mapped' = Mapped /\ Mapped[c] = "applying"
  BY <1>3 DEF Mapped, Latest, Id
<1>8. CASE n = 0
  <2>1. acted' = acted
    BY <1>1, <1>3, <1>8
  <2> QED BY <1>1, <1>4, <1>5, <1>6, <1>7, <2>1, MailboxStutters, UnchangedRewrites
<1>9. CASE n = 1
  <2>1. acted' = [acted EXCEPT ![c] = 1]
    BY <1>1, <1>3, <1>9
  <2> QED BY <1>1, <1>3, <1>4, <1>5, <1>6, <1>7, <2>1, MailboxActs, UnchangedRewrites
<1> QED BY <1>8, <1>9

(* An owner acts on the command it holds, which nobody has acted on. *)
LEMMA ApplyKeeps ==
  ASSUME HandlerExclusive, PlaneInv, NEW o \in Owner, Apply(o)
  PROVE  Preserves
<1> DEFINE c == own[o].cmd
<1>1. /\ TypeOK /\ own[o] \in OwnerState /\ c \in Ids /\ ~RouteApplies(c)
      /\ Latest(c) = "applying" /\ acted[c] = 0
      /\ UNCHANGED <<journal, tail, req, now>>
  BY DEF PlaneInv, TypeOK, Apply, OwnerOK, Applies
<1>2. PICK w \in OwnerOutcomes(journal[c].content) :
        /\ acted' = [acted EXCEPT ![c] = @ + w.acts]
        /\ own' = [own EXCEPT ![o].pc = "record", ![o].status = w.status]
  BY DEF Apply
<1>3. HonestOutcome(w)
  BY <1>2, OutcomesAreHonest
<1> DEFINE st == [own[o] EXCEPT !.pc = "record", !.status = w.status]
<1>4. /\ st \in OwnerState /\ st.pc = "record" /\ st.cmd = c
      /\ st.status = w.status /\ st.todo = own[o].todo
  BY <1>1, <1>3 DEF OwnerState, HonestOutcome, Status
<1>5. own' = [own EXCEPT ![o] = st]
  BY <1>1, <1>2 DEF TypeOK
<1>6. own'[o] = st /\ \A p \in Owner : p # o => own'[p] = own[p]
  BY <1>1, <1>5 DEF TypeOK
<1> HIDE DEF c, st
<1>7. /\ acted' \in [Id -> Nat] /\ acted'[c] = w.acts
      /\ \A d \in Id : d # c => acted'[d] = acted[d]
      /\ \A d \in Ids' : CommandOK(d)'
      /\ \A d \in (Id \ Ids)' : acted'[d] = 0
      /\ Rewritten({}, "applying")
      /\ MailboxStep
  BY <1>1, <1>2, <1>3, ActKeeps DEF HonestOutcome
<1>8. TypeOK'
  <2>1. Ids' = Ids /\ OwnerState' = OwnerState /\ RequestState' = RequestState
    BY <1>1 DEF Ids, OwnerState, RequestState
  <2>2. own' \in [Owner -> OwnerState]
    BY <1>1, <1>4, <1>5 DEF TypeOK
  <2> QED BY <1>1, <1>7, <2>1, <2>2 DEF TypeOK
<1>9. \A d \in Ids : d \in Id
  <2>1. Len(journal) \in Nat /\ MaxCommands \in Nat /\ Len(journal) <= MaxCommands
    BY PlaneAssumption, <1>1 DEF TypeOK
  <2> QED BY <2>1 DEF Ids, Id
<1>10. ASSUME NEW q \in Request PROVE RequestOK(q)'
  <2>1. InFlight(q) /\ RouteApplies(req[q].cmd) => acted'[req[q].cmd] = acted[req[q].cmd]
    BY <1>1, <1>7, <1>9 DEF PlaneInv, RequestOK
  <2>2. req'[q] = req[q] /\ "applying" \in Status \ {"none"}
    BY <1>1 DEF Status
  <2> QED BY <1>7, <2>1, <2>2, KeepRequest
<1>11. ASSUME NEW p \in Owner, p # o PROVE OwnerOK(p)'
  <2>1. Applies(p) => own[p].cmd # c /\ own[p].cmd \in Id
    BY <1>9, <1>11 DEF PlaneInv, OneHolder, OwnerOK, Applies, Apply, c
  <2>2. own'[p] = own[p] /\ "applying" \in Status \ {"none"}
    BY <1>6, <1>11 DEF Status
  <2> QED BY <1>7, <2>1, <2>2, KeepOwner
<1>12. OwnerOK(o)'
  BY <1>1, <1>3, <1>4, <1>6, <1>7
     DEF PlaneInv, OwnerOK, Applies, RouteApplies, EndsHonestly, HonestOutcome, Latest, Ids
<1>13. OneHolder'
  <2>1. own'[o].cmd = own[o].cmd /\ Applies(o)
    BY <1>4, <1>6 DEF Applies, Apply, c
  <2>2. \A p \in Owner : own'[p].cmd = own[p].cmd /\ (Applies(p)' => Applies(p))
    BY <1>6, <2>1 DEF Applies
  <2>3. \A q \in Request : req'[q] = req[q] /\ (InFlight(q)' <=> InFlight(q))
    BY <1>1 DEF InFlight
  <2> QED BY <2>2, <2>3 DEF PlaneInv, OneHolder
<1>14. PlaneInv'
  BY <1>7, <1>8, <1>10, <1>11, <1>12, <1>13 DEF PlaneInv
<1> QED BY <1>7, <1>14 DEF Preserves

(* hostd acts on the command its own request submitted, which nobody has acted on. *)
LEMMA RouteActsKeeps ==
  ASSUME HandlerExclusive, PlaneInv, NEW r \in Request, RouteActs(r)
  PROVE  Preserves
<1> DEFINE c == req[r].cmd
<1>1. /\ TypeOK /\ InFlight(r) /\ c \in Ids /\ RouteApplies(c)
      /\ Latest(c) = "applying" /\ acted[c] = 0
      /\ UNCHANGED <<journal, tail, own, now>>
  BY DEF PlaneInv, RouteActs, At, RequestOK, InFlight
<1>2. PICK w \in Outcomes \cup Declined :
        /\ acted' = [acted EXCEPT ![c] = @ + w.acts]
        /\ req' = [req EXCEPT ![r] = [pc |-> "record", cmd |-> c, status |-> w.status]]
  BY DEF RouteActs, Goes
<1>3. HonestOutcome(w)
  BY <1>2, OutcomesAreHonest
<1>4. /\ req'[r] = [pc |-> "record", cmd |-> c, status |-> w.status]
      /\ \A q \in Request : q # r => req'[q] = req[q]
  BY <1>1, <1>2 DEF TypeOK
<1> HIDE DEF c
<1>5. /\ acted' \in [Id -> Nat] /\ acted'[c] = w.acts
      /\ \A d \in Id : d # c => acted'[d] = acted[d]
      /\ \A d \in Ids' : CommandOK(d)'
      /\ \A d \in (Id \ Ids)' : acted'[d] = 0
      /\ Rewritten({}, "applying")
      /\ MailboxStep
  BY <1>1, <1>2, <1>3, ActKeeps DEF HonestOutcome
<1>6. TypeOK'
  <2>1. Ids' = Ids /\ OwnerState' = OwnerState /\ RequestState' = RequestState
    BY <1>1 DEF Ids, OwnerState, RequestState
  <2>2. [pc |-> "record", cmd |-> c, status |-> w.status] \in RequestState
    BY <1>1, <1>3 DEF RequestState, HonestOutcome, Status
  <2>3. req' \in [Request -> RequestState]
    BY <1>1, <1>2, <2>2 DEF TypeOK, c
  <2> QED BY <1>1, <1>5, <2>1, <2>3 DEF TypeOK
<1>7. \A d \in Ids : d \in Id
  <2>1. Len(journal) \in Nat /\ MaxCommands \in Nat /\ Len(journal) <= MaxCommands
    BY PlaneAssumption, <1>1 DEF TypeOK
  <2> QED BY <2>1 DEF Ids, Id
<1>8. ASSUME NEW q \in Request, q # r PROVE RequestOK(q)'
  <2>1. InFlight(q) => acted'[req[q].cmd] = acted[req[q].cmd]
    BY <1>1, <1>5, <1>7, <1>8 DEF PlaneInv, RequestOK, OneHolder, c
  <2>2. req'[q] = req[q] /\ "applying" \in Status \ {"none"}
    BY <1>4, <1>8 DEF Status
  <2> QED BY <1>5, <2>1, <2>2, KeepRequest
<1>9. RequestOK(r)'
  BY <1>1, <1>3, <1>4, <1>5
     DEF RequestOK, InFlight, RouteApplies, EndsHonestly, HonestOutcome, Latest, Ids
<1>10. ASSUME NEW o \in Owner PROVE OwnerOK(o)'
  <2>1. Applies(o) => own[o].cmd # c /\ own[o].cmd \in Id
    BY <1>1, <1>7 DEF PlaneInv, OwnerOK
  <2>2. own'[o] = own[o] /\ "applying" \in Status \ {"none"}
    BY <1>1 DEF Status
  <2> QED BY <1>5, <2>1, <2>2, KeepOwner
<1>11. OneHolder'
  <2>1. req'[r].cmd = req[r].cmd
    BY <1>4 DEF c
  <2>2. \A q \in Request : req'[q].cmd = req[q].cmd /\ (InFlight(q)' => InFlight(q))
    BY <1>1, <1>4, <2>1 DEF InFlight
  <2>3. \A o \in Owner : own'[o] = own[o] /\ (Applies(o)' <=> Applies(o))
    BY <1>1 DEF Applies
  <2> QED BY <2>2, <2>3 DEF PlaneInv, OneHolder
<1>12. PlaneInv'
  BY <1>5, <1>6, <1>8, <1>9, <1>10, <1>11 DEF PlaneInv
<1> QED BY <1>5, <1>12 DEF Preserves

\* A new command: everyone keeps what they held.
LEMMA ExtensionKeeps ==
  ASSUME PlaneInv, NEW s \in {"none", "queued"}, NEW x \in Content,
         journal' \in Seq(Row), Len(journal') = Len(journal) + 1, Len(journal') <= MaxCommands,
         \A d \in Ids : journal'[d] = journal[d],
         journal'[Len(journal) + 1].latest = s,
         NEW r \in Request, ~InFlight(r), \A q \in Request : q # r => req'[q] = req[q],
         UNCHANGED <<own, acted, now>>, tail' \in {"complete", "unfinished", "corrupt"},
         req'[r] \in RequestState', req' \in [Request -> RequestState'],
         InFlight(r)' => req'[r].cmd = Len(journal) + 1 /\ RequestOK(r)'
  PROVE  PlaneInv' /\ MailboxStep
<1>1. TypeOK /\ Len(journal) \in Nat /\ MaxCommands \in Nat
  BY PlaneAssumption DEF PlaneInv, TypeOK
<1>n. PICK n \in Nat : n = Len(journal) + 1
  BY <1>1
<1>2. Ids' = Ids \cup {n} /\ n \notin Ids /\ n \in Id /\ Ids \subseteq Id
  BY <1>1, <1>n DEF Ids, Id, TypeOK
<1>3. /\ \A d \in Ids : Latest(d)' = Latest(d) /\ RouteApplies(d)' = RouteApplies(d)
      /\ Latest(n)' = s
  BY <1>n DEF Latest, RouteApplies
<1>4. TypeOK'
  <2>1. OwnerState \subseteq OwnerState'
    BY <1>2 DEF OwnerState
  <2>2. own' \in [Owner -> OwnerState']
    BY <1>1, <2>1 DEF TypeOK
  <2> QED BY <1>1, <2>2 DEF TypeOK
<1>5. \A d \in Ids' : CommandOK(d)'
  BY <1>2, <1>3 DEF PlaneInv, CommandOK
<1>6. \A d \in (Id \ Ids)' : acted'[d] = 0
  BY <1>2 DEF PlaneInv, Id
<1>7. ASSUME NEW q \in Request, q # r PROVE RequestOK(q)'
  BY <1>2, <1>3, <1>7 DEF PlaneInv, RequestOK, InFlight, Untouched, EndsHonestly
<1>8. RequestOK(r)'
  BY DEF RequestOK
<1>9. ASSUME NEW o \in Owner PROVE OwnerOK(o)'
  <2>1. own[o].todo \subseteq Ids
    BY <1>1 DEF TypeOK, OwnerState
  <2> QED BY <1>2, <1>3, <2>1 DEF PlaneInv, OwnerOK, Applies, EndsHonestly
<1>10. OneHolder'
  <2>1. \A q \in Request : InFlight(q) => req[q].cmd # n
    BY <1>2 DEF PlaneInv, RequestOK
  <2> QED BY <1>n, <2>1 DEF PlaneInv, OneHolder, InFlight, Applies
<1>11. PlaneInv'
  BY <1>4, <1>5, <1>6, <1>7, <1>8, <1>9, <1>10 DEF PlaneInv
<1>12. MailboxStep
  <2>1. Mapped' = [d \in Id |-> IF d = n THEN s ELSE Mapped[d]] /\ Mapped[n] = "none"
    BY <1>2, <1>3 DEF Mapped, Id
  <2>2. CASE s = "queued"
    BY <1>2, <2>1, <2>2, MailboxAccepts
  <2>3. CASE s = "none"
    <3>1. Mapped' = Mapped
      BY <2>1, <2>3 DEF Mapped
    <3> QED BY <3>1, MailboxStutters
  <2> QED BY <2>2, <2>3
<1> QED BY <1>11, <1>12

(* A new command extends the journal by one row that nobody has acted on. *)
LEMMA SubmitFreshKeeps ==
  ASSUME HandlerExclusive, PlaneInv, NEW r \in Request, NEW k \in Key, NEW x \in Content,
         SubmitFresh(r, k, x)
  PROVE  Preserves
<1>n. PICK n \in Nat : n = Len(journal) + 1
  BY DEF PlaneInv, TypeOK
<1>1. TypeOK /\ ~InFlight(r) /\ UNCHANGED <<own, acted, now>> /\ Len(journal) < MaxCommands
  BY DEF PlaneInv, SubmitFresh, At, InFlight
<1>2. /\ journal' \in Seq(Row) /\ Len(journal') = n
      /\ \A d \in Ids : journal'[d] = journal[d]
      /\ journal'[n].content = x /\ journal'[n].latest = "queued"
  BY <1>1, <1>n, AppendExtends DEF SubmitFresh, Status
<1>3. tail' \in {"complete", "unfinished", "corrupt"}
  BY DEF SubmitFresh, Appended
<1>4. Len(journal) \in Nat /\ MaxCommands \in Nat
  BY <1>1, PlaneAssumption DEF TypeOK
<1>5. n \in Ids' /\ n \in Id \ Ids /\ Ids \subseteq Ids' /\ Len(journal') <= MaxCommands
  BY <1>1, <1>2, <1>4, <1>n DEF Ids, Id
<1>6. PICK st : /\ req' = [req EXCEPT ![r] = st]
                /\ \/ st = [pc |-> "record", cmd |-> n, status |-> "applying"] /\ RouteApplies(n)'
                   \/ st = [pc |-> "record", cmd |-> n, status |-> "queued"] /\ ~RouteApplies(n)'
                   \/ st = [pc |-> "check", cmd |-> n, status |-> "none"] /\ RouteApplies(n)'
                   \/ st = [pc |-> "record", cmd |-> n, status |-> "unsupported"] /\ RouteApplies(n)'
  <2>1. RouteApplies(n)' <=> Kind[x] = "session" \/ HasHandler
    BY <1>2 DEF RouteApplies
  <2>2. FirstStep(r, n, x)
    BY <1>n DEF SubmitFresh
  <2>3. CASE Kind[x] # "session" /\ HasHandler
    BY <2>1, <2>2, <2>3 DEF FirstStep, Goes
  <2>4. CASE Kind[x] # "session" /\ ~HasHandler
    BY <2>1, <2>2, <2>4 DEF FirstStep, Goes
  <2>5. CASE Kind[x] = "session" /\ x \in Guarded
    BY <2>1, <2>2, <2>5 DEF FirstStep, Goes
  <2>6. CASE Kind[x] = "session" /\ x \notin Guarded
    BY <2>1, <2>2, <2>6 DEF FirstStep, Goes, ActionStatus
  <2> QED BY <2>3, <2>4, <2>5, <2>6, PlaneAssumption
<1>7. /\ st \in RequestState' /\ st.cmd = n
      /\ st.pc \in {"record", "check"}
  BY <1>5, <1>6 DEF RequestState, Status, Terminal
<1>8. RequestState \subseteq RequestState'
  BY <1>5 DEF RequestState
<1>9. req'[r] = st /\ req' \in [Request -> RequestState'] /\ \A q \in Request : q # r => req'[q] = req[q]
  BY <1>1, <1>6, <1>7, <1>8 DEF TypeOK
<1>10. acted'[n] = 0 /\ Latest(n)' = "queued"
  BY <1>1, <1>2, <1>5 DEF PlaneInv, Latest
<1>11. RequestOK(r)'
  BY <1>5, <1>6, <1>9, <1>10 DEF RequestOK, Untouched
<1> QED BY <1>1, <1>2, <1>3, <1>5, <1>7, <1>9, <1>11, <1>n, ExtensionKeeps DEF Preserves

(* A submission whose append raises leaves the journal with or without its command, and
   no request in flight holds it. *)
LEMMA SubmitFailsKeeps ==
  ASSUME HandlerExclusive, PlaneInv, NEW r \in Request, NEW k \in Key, NEW x \in Content,
         SubmitFails(r, k, x)
  PROVE  Preserves
<1>1. TypeOK /\ ~InFlight(r) /\ UNCHANGED <<own, acted, now>> /\ Len(journal) < MaxCommands
  BY DEF PlaneInv, SubmitFails, At, InFlight
<1> DEFINE st == [pc |-> "failed", cmd |-> None, status |-> "none"]
<1>2. st \in RequestState /\ st \in RequestState' /\ st.pc = "failed" /\ st.cmd = None
  BY DEF RequestState, Status
<1>3. req' = [req EXCEPT ![r] = st]
  BY DEF SubmitFails, Goes
<1> HIDE DEF st
<1>4. /\ req'[r] = st /\ \A q \in Request : q # r => req'[q] = req[q]
      /\ ~InFlight(r)'
  BY <1>1, <1>2, <1>3 DEF TypeOK, InFlight
<1>5. tail' \in {"complete", "unfinished", "corrupt"}
  BY <1>1 DEF SubmitFails, RecoverTail, TypeOK
<1>6. Len(journal) \in Nat /\ MaxCommands \in Nat
  BY <1>1, PlaneAssumption DEF TypeOK
<1>7. CASE UNCHANGED journal
  <2>1. Ids' = Ids /\ OwnerState' = OwnerState /\ RequestState' = RequestState
    BY <1>7 DEF Ids, OwnerState, RequestState
  <2>2. req' \in [Request -> RequestState]
    BY <1>1, <1>2, <1>3 DEF TypeOK
  <2>3. TypeOK'
    BY <1>1, <1>5, <1>7, <2>1, <2>2 DEF TypeOK
  <2> QED BY <1>1, <1>4, <1>7, <2>3, QuietKeeps DEF Applies
<1>8. CASE journal' = Append(journal, Command(k, x, "none"))
  <2>1. /\ journal' \in Seq(Row) /\ Len(journal') = Len(journal) + 1
        /\ \A d \in Ids : journal'[d] = journal[d]
        /\ journal'[Len(journal) + 1].latest = "none"
    BY <1>1, <1>8, AppendExtends DEF Status
  <2>2. Ids \subseteq Ids' /\ Len(journal') <= MaxCommands
    BY <1>1, <1>6, <2>1 DEF Ids
  <2>3. RequestState \subseteq RequestState'
    BY <2>2 DEF RequestState
  <2>4. req' \in [Request -> RequestState']
    BY <1>1, <1>2, <1>3, <2>3 DEF TypeOK
  <2> QED BY <1>1, <1>2, <1>4, <1>5, <2>1, <2>2, <2>4, ExtensionKeeps DEF Preserves
<1> QED BY <1>7, <1>8 DEF SubmitFails

-----------------------------------------------------------------------------

(* The empty journal satisfies the invariant and is an initial state of the mailbox. *)
LEMMA InitHolds == Init => PlaneInv /\ Mailbox!Init
<1> SUFFICES ASSUME Init PROVE PlaneInv /\ Mailbox!Init
  OBVIOUS
<1>1. Ids = {} /\ journal \in Seq(Row) /\ Len(journal) = 0
  BY DEF Init, Ids
<1>2. InitialRequest \in RequestState /\ InitialRequest.pc = "idle"
  BY DEF InitialRequest, RequestState, Status
<1>3. /\ InitialOwner \in OwnerState /\ InitialOwner.pc = "run" /\ InitialOwner.todo = {}
  BY DEF InitialOwner, OwnerState, Status
<1>4. TypeOK
  BY <1>1, <1>2, <1>3, PlaneAssumption DEF Init, TypeOK
<1>5. /\ \A r \in Request : RequestOK(r) /\ ~InFlight(r)
      /\ \A o \in Owner : OwnerOK(o) /\ ~Applies(o)
  BY <1>2, <1>3 DEF Init, RequestOK, InFlight, OwnerOK, Applies
<1>6. PlaneInv
  BY <1>1, <1>4, <1>5 DEF Init, PlaneInv, OneHolder
<1>7. Mailbox!Init
  BY <1>1 DEF Init, Mailbox!Init
<1> QED BY <1>6, <1>7

(* Every step keeps the invariant and is a step, or a stutter, of the mailbox. *)
LEMMA NextKeepsPlane == HandlerExclusive /\ PlaneInv /\ [Next]_vars => Preserves
<1> SUFFICES ASSUME HandlerExclusive, PlaneInv, [Next]_vars PROVE Preserves
  OBVIOUS
<1>1. ASSUME NEW r \in Request, NEW k \in Key, NEW x \in Content, Submit(r, k, x)
      PROVE  Preserves
  BY <1>1, SubmitFreshKeeps, SubmitFailsKeeps, QuietStepsKeep DEF Submit
<1>2. ASSUME NEW r \in Request, RouteStep(r) PROVE Preserves
  BY <1>2, RouteRecordsKeeps, RouteActsKeeps, QuietStepsKeep DEF RouteStep
<1>3. ASSUME NEW o \in Owner, OwnerStep(o) PROVE Preserves
  BY <1>3, PollKeeps, ClaimKeeps, ApplyKeeps, OwnerRecordsKeeps, QuietStepsKeep DEF OwnerStep
<1>4. ASSUME NEW o \in Owner, Stop(o) \/ OwnerCrash(o) PROVE Preserves
  BY <1>4, OwnerCrashKeeps, QuietStepsKeep
<1>5. CASE HostdCrash \/ Tick
  BY <1>5, QuietStepsKeep
<1>6. CASE UNCHANGED vars
  <2>1. TypeOK'
    BY <1>6 DEF PlaneInv, TypeOK, vars, Ids, RequestState, OwnerState
  <2> QED BY <1>6, <2>1, QuietKeeps DEF vars, Applies
<1> QED BY <1>1, <1>2, <1>3, <1>4, <1>5, <1>6 DEF Next

\* With handlers and owners apart, every variable keeps its shape and every
\* process that holds a command holds one that is in the journal.
THEOREM PlaneTypeCorrect == HandlerExclusive => (Spec => []TypeOK)
<1> SUFFICES ASSUME HandlerExclusive PROVE Spec => []TypeOK
  OBVIOUS
<1>1. Init => PlaneInv
  BY InitHolds
<1>2. PlaneInv /\ [Next]_vars => PlaneInv'
  BY NextKeepsPlane DEF Preserves
<1>3. PlaneInv => TypeOK
  BY DEF PlaneInv
<1> QED BY <1>1, <1>2, <1>3, PTL DEF Spec

\* With handlers and owners apart, no command's target is acted upon twice,
\* whatever is replayed, polled, claimed, expired or crashed.
THEOREM NeverActuatedTwice == HandlerExclusive => (Spec => []ActuatedAtMostOnce)
<1> SUFFICES ASSUME HandlerExclusive PROVE Spec => []ActuatedAtMostOnce
  OBVIOUS
<1>1. Init => PlaneInv
  BY InitHolds
<1>2. PlaneInv /\ [Next]_vars => PlaneInv'
  BY NextKeepsPlane DEF Preserves
<1>3. PlaneInv => ActuatedAtMostOnce
  BY DEF PlaneInv, CommandOK, ActuatedAtMostOnce
<1> QED BY <1>1, <1>2, <1>3, PTL DEF Spec

\* Applied receipts follow an action, and queued, expired, unsupported or
\* conflicting commands were never acted upon.
THEOREM ReceiptsStayHonest == HandlerExclusive => (Spec => []ReceiptsAreHonest)
<1> SUFFICES ASSUME HandlerExclusive PROVE Spec => []ReceiptsAreHonest
  OBVIOUS
<1>1. Init => PlaneInv
  BY InitHolds
<1>2. PlaneInv /\ [Next]_vars => PlaneInv'
  BY NextKeepsPlane DEF Preserves
<1>3. PlaneInv => ReceiptsAreHonest
  BY DEF PlaneInv, CommandOK, ReceiptsAreHonest
<1> QED BY <1>1, <1>2, <1>3, PTL DEF Spec

\* The journal, the hostd route and the owners together implement the
\* abstract mailbox: accepted once, taken once, acted upon at most once,
\* settled once.
THEOREM PlaneImplementsMailbox == HandlerExclusive => (Spec => MailboxSpec)
<1> SUFFICES ASSUME HandlerExclusive PROVE Spec => MailboxSpec
  OBVIOUS
<1>1. Init => PlaneInv /\ Mailbox!Init
  BY InitHolds
<1>2. PlaneInv /\ [Next]_vars => PlaneInv' /\ [Mailbox!Next]_(Mailbox!mailbox)
  BY NextKeepsPlane DEF Preserves, MailboxStep
<1> QED BY <1>1, <1>2, PTL DEF Spec, MailboxSpec, Mailbox!Spec

-----------------------------------------------------------------------------
(* The journal file, the owner's last sweep and the expiry check. *)

\* A step that rewrites receipts: every row keeps its key and its content, and
\* none becomes queued again.
KeepsRows ==
    /\ Len(journal') = Len(journal)
    /\ \A d \in Ids :
        /\ journal'[d].key = journal[d].key
        /\ journal'[d].content = journal[d].content
        /\ journal'[d].latest = "queued" => journal[d].latest = "queued"

\* A step that appends a command under a key no other command has.
AddsRow ==
    /\ Len(journal') = Len(journal) + 1
    /\ \A d \in Ids : journal'[d] = journal[d]
    /\ \A d \in Ids : journal[d].key # journal'[Len(journal) + 1].key

JournalStep == tail' # "corrupt" /\ (KeepsRows \/ AddsRow)

\* What an owner that was stopped still has to look at: in its last round,
\* whatever it owes and has polled past is listed in todo.
SweepOK(o) ==
    /\ \A c \in own[o].owed : /\ journal[c].content \in Owns[o]
                              /\ Kind[journal[c].content] \in {"run", "agent"}
    /\ own[o].phase = "serving" => own[o].owed = {}
    /\ own[o].pc = "retired" => \A c \in own[o].owed : Latest(c) # "queued"
    /\ own[o].phase = "last" =>
        \A c \in own[o].owed : Latest(c) = "queued" =>
            /\ own[o].pc = "agent" /\ Kind[journal[c].content] = "run" => c \in own[o].todo
            /\ own[o].pc \in {"claim", "apply", "record"} => c \in own[o].todo

SweepInv == \A o \in Owner : SweepOK(o)

\* An unchanged journal keeps its rows.
LEMMA UnchangedRows == ASSUME UNCHANGED journal PROVE KeepsRows
  BY DEF KeepsRows

\* A receipt keeps every row; it queues only a command that was queued.
LEMMA SetReceiptRows ==
  ASSUME TypeOK, NEW c \in Ids, NEW s \in Status, journal' = SetReceipt(c, s),
         s = "queued" => Latest(c) = "queued"
  PROVE  KeepsRows
<1>1. journal \in [1..Len(journal) -> Row] /\ Len(journal) \in Nat
  BY DEF TypeOK
<1>2. Len(journal') = Len(journal)
  BY SetReceiptRewrites DEF Rewritten
<1>3. ASSUME NEW d \in Ids
      PROVE  /\ journal'[d].key = journal[d].key
             /\ journal'[d].content = journal[d].content
             /\ journal'[d].latest = IF d = c THEN s ELSE journal[d].latest
  BY <1>1, <1>3 DEF SetReceipt, Ids, Row
<1> QED BY <1>2, <1>3 DEF KeepsRows, Latest

\* Expiring commands keeps every row.
LEMMA ExpiredRows ==
  ASSUME TypeOK, NEW E \in SUBSET Ids, journal' = Expired(E)
  PROVE  KeepsRows
<1>1. journal \in [1..Len(journal) -> Row] /\ Len(journal) \in Nat
  BY DEF TypeOK
<1>2. Len(journal') = Len(journal)
  BY ExpiredRewrites DEF Rewritten
<1>3. ASSUME NEW d \in Ids
      PROVE  /\ journal'[d].key = journal[d].key
             /\ journal'[d].content = journal[d].content
             /\ journal'[d].latest = IF d \in E THEN "expired" ELSE journal[d].latest
  BY <1>1, <1>3 DEF Expired, Ids, Row
<1> QED BY <1>2, <1>3 DEF KeepsRows

\* submit appends under a key that no committed command has.
LEMMA SubmittedRow ==
  ASSUME TypeOK, NEW k \in Key, NEW x \in Content, NEW s \in Status, Matching(k) = {},
         journal' = Append(journal, Command(k, x, s))
  PROVE  AddsRow
<1>1. /\ Len(journal') = Len(journal) + 1
      /\ \A d \in Ids : journal'[d] = journal[d]
  BY AppendExtends
<1>2. journal'[Len(journal) + 1] = Command(k, x, s)
  <2>1. journal \in Seq(Row) /\ Len(journal) \in Nat
    BY DEF TypeOK
  <2> QED BY <2>1
<1>3. journal'[Len(journal) + 1].key = k
  BY <1>2 DEF Command
<1>4. \A d \in Ids : journal[d].key # k
  BY DEF Matching
<1> QED BY <1>1, <1>3, <1>4 DEF AddsRow

\* record keeps every row and leaves a file that ends with a whole row.
LEMMA RecordedRows ==
  ASSUME TypeOK, tail # "corrupt", NEW c \in Ids, NEW s \in Status, Recorded(c, s)
  PROVE  JournalStep
<1>1. tail' # "corrupt"
  BY DEF Recorded, Appended, RecoverTail, TypeOK
<1>2. CASE MayFollow(Latest(c), s) /\ journal' = SetReceipt(c, s)
  <2>1. s = "queued" => Latest(c) = "queued"
    BY <1>2 DEF MayFollow, Terminal
  <2> QED BY <1>1, <1>2, <2>1, SetReceiptRows DEF JournalStep
<1>3. CASE UNCHANGED journal
  BY <1>1, <1>3, UnchangedRows DEF JournalStep
<1> QED BY <1>2, <1>3 DEF Recorded

\* The route's requests only append to the journal or rewrite a receipt.
LEMMA RequestJournal ==
  ASSUME PlaneInv, tail # "corrupt", NEW r \in Request,
         \/ \E k \in Key, x \in Content : Submit(r, k, x)
         \/ RouteStep(r)
  PROVE  JournalStep /\ UNCHANGED own
<1>1. TypeOK
  BY DEF PlaneInv
<1>2. ASSUME NEW k \in Key, NEW x \in Content, SubmitFresh(r, k, x)
      PROVE  JournalStep
  <2>1. tail' # "corrupt"
    BY <1>1, <1>2 DEF SubmitFresh, Appended, RecoverTail, TypeOK
  <2>2. AddsRow
    BY <1>1, <1>2, SubmittedRow DEF SubmitFresh, Status
  <2> QED BY <2>1, <2>2 DEF JournalStep
<1>3. ASSUME NEW k \in Key, NEW x \in Content, SubmitFails(r, k, x)
      PROVE  JournalStep
  <2>1. tail' # "corrupt"
    BY <1>1, <1>3 DEF SubmitFails, RecoverTail, TypeOK
  <2>2. CASE UNCHANGED journal
    BY <2>1, <2>2, UnchangedRows DEF JournalStep
  <2>3. CASE journal' = Append(journal, Command(k, x, "none"))
    <3>1. AddsRow
      BY <1>1, <1>3, <2>3, SubmittedRow DEF SubmitFails, Status
    <3> QED BY <2>1, <3>1 DEF JournalStep
  <2> QED BY <1>3, <2>2, <2>3 DEF SubmitFails
<1>4. ASSUME NEW k \in Key, NEW x \in Content, SubmitReplayed(r, k, x)
      PROVE  JournalStep
  BY <1>1, <1>4, UnchangedRows DEF JournalStep, SubmitReplayed, RecoverTail, TypeOK
<1>5. ASSUME RouteRecords(r) PROVE JournalStep
  <2>1. req[r].cmd \in Ids /\ req[r].status \in Status
    BY <1>1, <1>5 DEF PlaneInv, RouteRecords, RequestOK, InFlight, At, TypeOK, RequestState
  <2> QED BY <1>1, <1>5, <2>1, RecordedRows DEF RouteRecords
<1>6. ASSUME RouteRecordRaises(r) \/ CheckSession(r) \/ RouteActs(r) PROVE JournalStep
  BY <1>1, <1>6, UnchangedRows
     DEF JournalStep, RouteRecordRaises, RecordRaises, CheckSession, RouteActs, RecoverTail, TypeOK
<1>7. UNCHANGED own
  BY DEF Submit, SubmitFresh, SubmitFails, SubmitReplayed,
         RouteStep, CheckSession, RouteRecords, RouteRecordRaises, RouteActs
<1> QED BY <1>2, <1>3, <1>4, <1>5, <1>6, <1>7 DEF Submit, RouteStep

\* So do the owners.
LEMMA OwnerJournal ==
  ASSUME PlaneInv, tail # "corrupt", NEW o \in Owner,
         OwnerStep(o) \/ Stop(o) \/ OwnerCrash(o)
  PROVE  JournalStep /\ \A p \in Owner : p # o => own'[p] = own[p]
<1>1. TypeOK /\ Overdue \in SUBSET Ids
  BY DEF PlaneInv, Overdue, Scanned
<1>2. ASSUME NEW kind, Poll(o, kind) \/ PollRaises(o, kind)
      PROVE  JournalStep
  <2>1. tail' # "corrupt"
    BY <1>1, <1>2 DEF Poll, PollRaises, Appended, RecoverTail, TypeOK
  <2>2. KeepsRows
    BY <1>1, <1>2, ExpiredRows DEF Poll, PollRaises
  <2> QED BY <2>1, <2>2 DEF JournalStep
<1>3. ASSUME Claim(o) PROVE JournalStep
  <2>1. PICK c \in own[o].todo :
          /\ \/ journal' = SetReceipt(c, "applying")
             \/ journal' = SetReceipt(c, "expired")
             \/ UNCHANGED journal
          /\ tail' \in {Appended(RecoverTail), RecoverTail}
    BY <1>3 DEF Claim
  <2>2. c \in Ids /\ "applying" \in Status /\ "expired" \in Status
    BY <1>1 DEF TypeOK, OwnerState, Status, Terminal
  <2>3. tail' # "corrupt"
    BY <1>1, <2>1 DEF Appended, RecoverTail, TypeOK
  <2>4. KeepsRows
    BY <1>1, <2>1, <2>2, SetReceiptRows, UnchangedRows
  <2> QED BY <2>3, <2>4 DEF JournalStep
<1>4. ASSUME OwnerRecords(o) PROVE JournalStep
  <2>1. own[o].cmd \in Ids /\ own[o].status \in Status
    BY <1>1, <1>4 DEF PlaneInv, OwnerRecords, OwnerOK, Applies, TypeOK, OwnerState
  <2> QED BY <1>1, <1>4, <2>1, RecordedRows DEF OwnerRecords
<1>5. ASSUME Apply(o) \/ EndRound(o) \/ Stop(o) PROVE JournalStep
  BY <1>5, UnchangedRows DEF JournalStep, Apply, EndRound, Stop
<1>6. ASSUME OwnerCrash(o) PROVE JournalStep
  <2>1. tail' # "corrupt"
    BY <1>1, <1>6 DEF OwnerCrash, RecoverTail, TypeOK
  <2>2. UNCHANGED journal \/ \E E \in SUBSET Overdue : journal' = Expired(E)
    BY <1>6 DEF OwnerCrash
  <2>3. KeepsRows
    BY <1>1, <2>2, ExpiredRows, UnchangedRows
  <2> QED BY <2>1, <2>3 DEF JournalStep
<1>7. JournalStep
  BY <1>2, <1>3, <1>4, <1>5, <1>6 DEF OwnerStep
<1>8. \A p \in Owner : p # o => own'[p] = own[p]
  BY <1>1 DEF TypeOK, OwnerStep, Poll, PollRaises, Claim, Apply, OwnerRecords, EndRound,
              Stop, OwnerCrash
<1> QED BY <1>7, <1>8

\* hostd's crash and the clock leave the rows alone.
LEMMA OtherJournal ==
  ASSUME PlaneInv, tail # "corrupt", HostdCrash \/ Tick \/ UNCHANGED vars
  PROVE  JournalStep /\ UNCHANGED own
<1>1. tail' # "corrupt"
  BY DEF HostdCrash, Tick, vars
<1>2. UNCHANGED <<journal, own>>
  BY DEF HostdCrash, Tick, vars
<1> QED BY <1>1, <1>2, UnchangedRows DEF JournalStep

\* Every step appends a command with a new key, or rewrites receipts, and no
\* append continues an unfinished row.
LEMMA NextIsJournalStep ==
  ASSUME PlaneInv, tail # "corrupt", [Next]_vars PROVE JournalStep
  BY RequestJournal, OwnerJournal, OtherJournal DEF Next

\* Such a step keeps the keys apart.
LEMMA StepKeepsKeys ==
  ASSUME TypeOK, JournalIsSound, JournalStep PROVE JournalIsSound'
<1>1. Len(journal) \in Nat
  BY DEF TypeOK
<1>2. CASE KeepsRows
  <2>1. Ids' = Ids /\ \A d \in Ids : journal'[d].key = journal[d].key
    BY <1>2 DEF KeepsRows, Ids
  <2> QED BY <2>1 DEF JournalIsSound, KeysUnique, RowsStayWhole, JournalStep
<1>3. CASE AddsRow
  <2>n. PICK n : n = Len(journal) + 1
    OBVIOUS
  <2>1. Ids' = Ids \cup {n}
    BY <1>1, <1>3, <2>n DEF AddsRow, Ids
  <2>2. /\ \A d \in Ids : journal'[d].key = journal[d].key
        /\ \A d \in Ids : journal[d].key # journal'[n].key
    BY <1>3, <2>n DEF AddsRow
  <2> QED BY <2>1, <2>2 DEF JournalIsSound, KeysUnique, RowsStayWhole, JournalStep
<1> QED BY <1>2, <1>3 DEF JournalStep

\* An idempotency key names one command for good and no append ever glues two
\* rows, for any number of requests, owners and commands, wherever hostd or an
\* owner crashes inside an append (ControlJournal.submit, record, pending, claim).
THEOREM JournalStaysSound == HandlerExclusive => (Spec => []JournalIsSound)
<1> SUFFICES ASSUME HandlerExclusive PROVE Spec => []JournalIsSound
  OBVIOUS
<1> DEFINE I == PlaneInv /\ JournalIsSound
<1>1. Init => I
  <2>1. Init => JournalIsSound
    BY DEF Init, JournalIsSound, KeysUnique, RowsStayWhole, Ids
  <2> QED BY <2>1, InitHolds
<1>2. I /\ [Next]_vars => I'
  <2> SUFFICES ASSUME PlaneInv, JournalIsSound, [Next]_vars PROVE I'
    OBVIOUS
  <2>1. PlaneInv'
    BY NextKeepsPlane DEF Preserves
  <2>2. JournalStep
    BY NextIsJournalStep DEF JournalIsSound, RowsStayWhole
  <2>3. TypeOK
    BY DEF PlaneInv
  <2> QED BY <2>1, <2>2, <2>3, StepKeepsKeys
<1>3. I => JournalIsSound
  OBVIOUS
<1> QED BY <1>1, <1>2, <1>3, PTL DEF Spec

-----------------------------------------------------------------------------

\* A committed command carries an expiry time.
LEMMA ExpiresNat == ASSUME TypeOK, NEW c \in Ids PROVE journal[c].expires \in Nat
<1>1. journal \in [1..Len(journal) -> Row]
  BY DEF TypeOK
<1>2. journal[c] \in Row
  BY <1>1 DEF Ids
<1> QED BY <1>2 DEF Row

\* Only a claim of a command that has not expired starts an application.
LEMMA StepTakesBeforeExpiry ==
  ASSUME PlaneInv, [Next]_vars, NEW o \in Owner,
         own[o].pc # "apply", own'[o].pc = "apply"
  PROVE  now < journal[own'[o].cmd].expires
<1>1. TypeOK
  BY DEF PlaneInv
<1>2. CASE UNCHANGED own
  BY <1>2
<1>3. ASSUME NEW p \in Owner, OwnerStep(p) \/ Stop(p) \/ OwnerCrash(p), p # o
      PROVE  FALSE
  <2>1. own'[o] = own[o]
    BY <1>1, <1>3 DEF TypeOK, OwnerStep, Poll, PollRaises, Claim, Apply, OwnerRecords,
                      EndRound, Stop, OwnerCrash
  <2> QED BY <2>1
<1>4. ASSUME \/ \E kind \in {"run", "agent"} : Poll(o, kind) \/ PollRaises(o, kind)
             \/ Apply(o) \/ OwnerRecords(o) \/ EndRound(o) \/ Stop(o) \/ OwnerCrash(o)
      PROVE  FALSE
  <2>1. own[o] \in OwnerState /\ own \in [Owner -> OwnerState]
    BY <1>1 DEF TypeOK
  <2>2. ASSUME NEW kind \in {"run", "agent"}, Poll(o, kind) \/ PollRaises(o, kind)
        PROVE  own'[o].pc # "apply"
    BY <2>1, <2>2 DEF Poll, PollRaises, PollNext, OwnerState
  <2>3. ASSUME Apply(o) PROVE FALSE
    BY <2>3 DEF Apply
  <2>4. ASSUME OwnerRecords(o) PROVE own'[o].pc # "apply"
    BY <2>1, <2>4 DEF OwnerRecords, OwnerState
  <2>5. ASSUME EndRound(o) PROVE own'[o].pc # "apply"
    <3>1. CASE own[o].phase = "serving"
      BY <2>1, <2>5, <3>1 DEF EndRound, OwnerState
    <3>2. CASE own[o].phase = "stopping"
      BY <2>1, <2>5, <3>2 DEF EndRound, OwnerState
    <3>3. CASE own[o].phase = "last"
      BY <2>1, <2>5, <3>3 DEF EndRound, OwnerState
    <3> QED BY <2>1, <3>1, <3>2, <3>3 DEF OwnerState
  <2>6. ASSUME Stop(o) PROVE own'[o].pc = own[o].pc
    BY <2>1, <2>6 DEF Stop, OwnerState
  <2>7. ASSUME OwnerCrash(o) PROVE own'[o].pc # "apply"
    BY <2>1, <2>7 DEF OwnerCrash, InitialOwner
  <2> QED BY <1>4, <2>2, <2>3, <2>4, <2>5, <2>6, <2>7
<1>5. ASSUME Claim(o) PROVE now < journal[own'[o].cmd].expires
  <2>1. PICK c \in own[o].todo :
          LET live == Latest(c) = "queued" /\ journal[c].expires > now IN
          own' = [own EXCEPT ![o].todo = @ \ {c},
                             ![o].pc = IF live THEN "apply" ELSE "claim",
                             ![o].cmd = IF live THEN c ELSE None]
    BY <1>5 DEF Claim
  <2> DEFINE live == Latest(c) = "queued" /\ journal[c].expires > now
  <2>2. /\ own'[o].pc = IF live THEN "apply" ELSE "claim"
        /\ own'[o].cmd = IF live THEN c ELSE None
    BY <1>1, <2>1 DEF TypeOK, OwnerState
  <2>3. live /\ own'[o].cmd = c
    BY <2>2
  <2>4. c \in Ids /\ now \in Nat /\ MaxTime \in Nat
    BY <1>1, PlaneAssumption DEF TypeOK, OwnerState
  <2>5. journal[c].expires \in Nat
    BY <1>1, <2>4, ExpiresNat
  <2> QED BY <2>3, <2>4, <2>5
<1>6. ASSUME NEW r \in Request, \/ \E k \in Key, x \in Content : Submit(r, k, x)
                                \/ RouteStep(r)
      PROVE  UNCHANGED own
  BY <1>6 DEF Submit, SubmitFresh, SubmitFails, SubmitReplayed,
              RouteStep, CheckSession, RouteRecords, RouteRecordRaises, RouteActs
<1>7. CASE HostdCrash \/ Tick \/ UNCHANGED vars
  BY <1>2, <1>7 DEF HostdCrash, Tick, vars
<1>8. CASE \E p \in Owner : OwnerStep(p) \/ Stop(p) \/ OwnerCrash(p)
  <2>1. PICK p \in Owner : OwnerStep(p) \/ Stop(p) \/ OwnerCrash(p)
    BY <1>8
  <2>2. p = o
    BY <1>3, <2>1
  <2> QED BY <1>4, <1>5, <2>1, <2>2 DEF OwnerStep
<1> QED BY <1>2, <1>6, <1>7, <1>8 DEF Next

\* An owner never starts on a command past its expiry, however long the command
\* waited on its list while other owners and hostd ran (ControlJournal.claim).
THEOREM NothingTakenLate == HandlerExclusive => (Spec => TakenBeforeExpiry)
<1> SUFFICES ASSUME HandlerExclusive PROVE Spec => TakenBeforeExpiry
  OBVIOUS
<1> DEFINE InTime == \A o \in Owner :
                        own[o].pc # "apply" /\ own'[o].pc = "apply"
                          => now < journal[own'[o].cmd].expires
<1>1. Init => PlaneInv
  BY InitHolds
<1>2. PlaneInv /\ [Next]_vars => PlaneInv' /\ [InTime]_vars
  BY NextKeepsPlane, StepTakesBeforeExpiry DEF Preserves
<1> QED BY <1>1, <1>2, PTL DEF Spec, TakenBeforeExpiry

-----------------------------------------------------------------------------

\* What a step of anyone else leaves of an owner's last sweep.
LEMMA SweepKept ==
  ASSUME TypeOK, NEW o \in Owner, SweepOK(o), JournalStep, own'[o] = own[o]
  PROVE  SweepOK(o)'
<1>1. own[o].owed \subseteq Ids
  BY DEF TypeOK, OwnerState
<1>2. ASSUME NEW c \in Ids
      PROVE  /\ journal'[c].content = journal[c].content
             /\ Latest(c)' = "queued" => Latest(c) = "queued"
  BY <1>2 DEF JournalStep, KeepsRows, AddsRow, Latest
<1>3. ASSUME NEW c \in own[o].owed
      PROVE  /\ journal'[c].content = journal[c].content
             /\ Latest(c)' = "queued" => Latest(c) = "queued"
  BY <1>1, <1>2
<1> QED BY <1>3 DEF SweepOK

\* A poll that does not raise has scanned the whole journal: what is still
\* queued afterwards was pending, so the owner lists what it owns of that kind.
LEMMA PollLists ==
  ASSUME PlaneInv, NEW o \in Owner, NEW kind \in {"run", "agent"}, Poll(o, kind),
         NEW c \in Ids, Latest(c)' = "queued",
         journal[c].content \in Owns[o], Kind[journal[c].content] = kind
  PROVE  c \in own'[o].todo
<1>1. TypeOK /\ Orphans = {} /\ journal' = Expired(Overdue) /\ own[o] \in OwnerState
  BY DEF PlaneInv, Poll, TypeOK
<1>2. Overdue \in SUBSET Ids /\ Scanned = Ids
  BY <1>1 DEF Overdue, Scanned
<1>3. journal'[c].latest = IF c \in Overdue THEN "expired" ELSE journal[c].latest
  BY <1>1, <1>2, ExpiredRewrites DEF Rewritten
<1>4. c \notin Overdue /\ Latest(c) = "queued"
  BY <1>3 DEF Latest
<1>5. journal[c].expires \in Nat /\ now \in Nat
  BY <1>1, PlaneAssumption, ExpiresNat DEF TypeOK
<1>6. journal[c].expires > now
  BY <1>2, <1>4, <1>5 DEF Overdue
<1>7. c \in OwnedPending(o, kind)
  BY <1>4, <1>6 DEF OwnedPending, Pending
<1>8. own'[o].todo = own[o].todo \cup OwnedPending(o, kind)
  BY <1>1 DEF Poll, TypeOK, OwnerState
<1> QED BY <1>7, <1>8

\* The fields of the owner that a poll, a claim or a record leaves alone.
SameSweep(o) == own'[o].phase = own[o].phase /\ own'[o].owed = own[o].owed

\* An owner's own steps keep what it owes on its list.
LEMMA OwnSweep ==
  ASSUME PlaneInv, tail # "corrupt", NEW o \in Owner, SweepOK(o),
         OwnerStep(o) \/ Stop(o) \/ OwnerCrash(o)
  PROVE  SweepOK(o)'
<1>1. TypeOK /\ own[o] \in OwnerState /\ own \in [Owner -> OwnerState] /\ JournalStep
  BY OwnerJournal DEF PlaneInv, TypeOK
<1>2. own[o].owed \subseteq Ids /\ own[o].todo \subseteq Ids
  BY <1>1 DEF OwnerState
<1>3. ASSUME NEW c \in Ids
      PROVE  /\ journal'[c].content = journal[c].content
             /\ Latest(c)' = "queued" => Latest(c) = "queued"
  BY <1>1, <1>3 DEF JournalStep, KeepsRows, AddsRow, Latest
<1>4. ASSUME NEW kind \in {"run", "agent"}, Poll(o, kind) PROVE SweepOK(o)'
  <2>1. /\ own[o].pc = kind /\ SameSweep(o)
        /\ own'[o].pc = PollNext(kind)
        /\ own[o].todo \subseteq own'[o].todo
    BY <1>1, <1>4 DEF Poll, SameSweep, OwnerState
  <2>2. ASSUME NEW c \in own[o].owed, Latest(c)' = "queued", own[o].phase = "last",
               kind = "run" => Kind[journal[c].content] = "run"
        PROVE  c \in own'[o].todo
    <3>1. c \in Ids /\ Latest(c) = "queued" /\ journal[c].content \in Owns[o]
          /\ Kind[journal[c].content] \in {"run", "agent"}
      BY <1>2, <1>3, <2>2 DEF SweepOK
    <3>2. CASE Kind[journal[c].content] = kind
      BY <1>4, <2>2, <3>1, <3>2, PollLists
    <3>3. CASE Kind[journal[c].content] # kind
      <4>1. kind = "agent" /\ Kind[journal[c].content] = "run"
        BY <2>2, <3>1, <3>3
      <4>2. c \in own[o].todo
        BY <2>1, <2>2, <3>1, <4>1 DEF SweepOK
      <4> QED BY <2>1, <4>2
    <3> QED BY <3>2, <3>3
  <2>3. own'[o].pc = IF kind = "run" THEN "agent" ELSE "claim"
    BY <2>1 DEF PollNext
  <2>4. \A c \in own[o].owed : journal'[c].content = journal[c].content
    BY <1>2, <1>3
  <2> QED BY <2>1, <2>2, <2>3, <2>4 DEF SweepOK, SameSweep
<1>5. ASSUME NEW kind \in {"run", "agent"}, PollRaises(o, kind) PROVE SweepOK(o)'
  <2>1. SameSweep(o) /\ own'[o].pc = "dead"
    BY <1>1, <1>5 DEF PollRaises, SameSweep, OwnerState
  <2> QED BY <1>2, <1>3, <2>1 DEF SweepOK, SameSweep
<1>6. ASSUME Claim(o) PROVE SweepOK(o)'
  <2>1. PICK c \in own[o].todo :
          /\ \/ journal' = SetReceipt(c, "applying")
             \/ journal' = SetReceipt(c, "expired")
             \/ Latest(c) # "queued" /\ UNCHANGED journal
          /\ own'[o].todo = own[o].todo \ {c}
          /\ own'[o].pc \in {"apply", "claim"}
          /\ SameSweep(o)
    BY <1>1, <1>6 DEF Claim, SameSweep, OwnerState
  <2>2. c \in Ids /\ Latest(c)' # "queued"
    <3>1. c \in Ids
      BY <1>2, <2>1
    <3>2. "applying" \in Status /\ "expired" \in Status
      BY DEF Status, Terminal
    <3>3. CASE journal' = SetReceipt(c, "applying")
      BY <1>1, <3>1, <3>2, <3>3, SetReceiptRewrites DEF Rewritten, Latest
    <3>4. CASE journal' = SetReceipt(c, "expired")
      BY <1>1, <3>1, <3>2, <3>4, SetReceiptRewrites DEF Rewritten, Latest
    <3>5. CASE Latest(c) # "queued" /\ UNCHANGED journal
      BY <3>1, <3>5 DEF Latest
    <3> QED BY <2>1, <3>1, <3>3, <3>4, <3>5
  <2>3. own[o].pc = "claim"
    BY <1>6 DEF Claim
  <2> QED BY <1>2, <1>3, <2>1, <2>2, <2>3 DEF SweepOK, SameSweep
<1>7. ASSUME Apply(o) \/ OwnerRecords(o) PROVE SweepOK(o)'
  <2>1. /\ SameSweep(o) /\ own'[o].todo = own[o].todo
        /\ own[o].pc \in {"apply", "record"} /\ own'[o].pc \in {"record", "claim"}
    BY <1>1, <1>7 DEF Apply, OwnerRecords, SameSweep, OwnerState
  <2> QED BY <1>2, <1>3, <2>1 DEF SweepOK, SameSweep
<1>8. ASSUME EndRound(o) PROVE SweepOK(o)'
  <2>1. own[o].pc = "claim" /\ own[o].todo = {} /\ UNCHANGED journal
    BY <1>8 DEF EndRound
  <2>2. CASE own[o].phase = "serving"
    <3>1. own'[o].pc = "run" /\ SameSweep(o)
      BY <1>1, <1>8, <2>2 DEF EndRound, SameSweep, OwnerState
    <3> QED BY <2>1, <2>2, <3>1 DEF SweepOK, SameSweep
  <2>3. CASE own[o].phase = "stopping"
    <3>1. own'[o].pc = "run" /\ own'[o].phase = "last" /\ own'[o].owed = own[o].owed
      BY <1>1, <1>8, <2>3 DEF EndRound, OwnerState
    <3> QED BY <2>1, <3>1 DEF SweepOK
  <2>4. CASE own[o].phase = "last"
    <3>1. own'[o].pc = "retired" /\ SameSweep(o)
      BY <1>1, <1>8, <2>4 DEF EndRound, SameSweep, OwnerState
    <3>2. \A c \in own[o].owed : Latest(c) # "queued"
      BY <2>1, <2>4 DEF SweepOK
    <3> QED BY <2>1, <3>1, <3>2 DEF SweepOK, SameSweep, Latest
  <2> QED BY <1>1, <2>2, <2>3, <2>4 DEF OwnerState
<1>9. ASSUME Stop(o) PROVE SweepOK(o)'
  <2>1. /\ own'[o].phase = "stopping" /\ own'[o].pc = own[o].pc /\ own[o].pc # "retired"
        /\ UNCHANGED journal
        /\ own'[o].owed = {c \in Ids : /\ Latest(c) = "queued"
                                       /\ journal[c].content \in Owns[o]
                                       /\ Kind[journal[c].content] \in {"run", "agent"}}
    BY <1>1, <1>9 DEF Stop, Alive, OwnerState
  <2> QED BY <2>1 DEF SweepOK
<1>10. ASSUME OwnerCrash(o) PROVE SweepOK(o)'
  <2>1. own'[o].owed = {} /\ own'[o].phase = "serving" /\ own'[o].pc = "run"
    BY <1>1, <1>10 DEF OwnerCrash, InitialOwner
  <2> QED BY <2>1 DEF SweepOK
<1> QED BY <1>4, <1>5, <1>6, <1>7, <1>8, <1>9, <1>10 DEF OwnerStep

\* Every step keeps every owner's sweep.
LEMMA NextKeepsSweep ==
  ASSUME PlaneInv, tail # "corrupt", SweepInv, [Next]_vars PROVE SweepInv'
<1>1. TypeOK
  BY DEF PlaneInv
<1>2. CASE JournalStep /\ UNCHANGED own
  BY <1>1, <1>2, SweepKept DEF SweepInv
<1>3. ASSUME NEW o \in Owner, OwnerStep(o) \/ Stop(o) \/ OwnerCrash(o)
      PROVE  SweepInv'
  <2>1. JournalStep /\ \A p \in Owner : p # o => own'[p] = own[p]
    BY <1>3, OwnerJournal
  <2>2. SweepOK(o)'
    BY <1>3, OwnSweep DEF SweepInv
  <2>3. \A p \in Owner : p # o => SweepOK(p)'
    BY <1>1, <2>1, SweepKept DEF SweepInv
  <2> QED BY <2>2, <2>3 DEF SweepInv
<1> QED BY <1>2, <1>3, RequestJournal, OtherJournal DEF Next

\* An owner that ended after stop left nothing queued that was queued for it
\* when stop was called, whatever was submitted, claimed by other owners or
\* expired meanwhile and whoever crashed (_serve's last process_once).
THEOREM LastSweepSettles == HandlerExclusive => (Spec => []FinalSweep)
<1> SUFFICES ASSUME HandlerExclusive PROVE Spec => []FinalSweep
  OBVIOUS
<1> DEFINE I == PlaneInv /\ JournalIsSound /\ SweepInv
<1>1. Init => I
  <2>1. Init => JournalIsSound
    BY DEF Init, JournalIsSound, KeysUnique, RowsStayWhole, Ids
  <2>2. Init => SweepInv
    BY DEF Init, SweepInv, SweepOK, InitialOwner
  <2> QED BY <2>1, <2>2, InitHolds
<1>2. I /\ [Next]_vars => I'
  <2> SUFFICES ASSUME PlaneInv, JournalIsSound, SweepInv, [Next]_vars PROVE I'
    OBVIOUS
  <2>1. PlaneInv'
    BY NextKeepsPlane DEF Preserves
  <2>2. tail # "corrupt" /\ TypeOK
    BY DEF JournalIsSound, RowsStayWhole, PlaneInv
  <2>3. JournalIsSound'
    BY <2>2, NextIsJournalStep, StepKeepsKeys
  <2>4. SweepInv'
    BY <2>2, NextKeepsSweep
  <2> QED BY <2>1, <2>3, <2>4
<1>3. I => FinalSweep
  BY DEF SweepInv, SweepOK, FinalSweep
<1> QED BY <1>1, <1>2, <1>3, PTL DEF Spec
=============================================================================
