------------------------ MODULE ConditionalWriteProofs ------------------------
(***************************************************************************)
(* Optimistic concurrency over one resource, for every number of clients,  *)
(* slots and operations: the inductive invariant of ConditionalWrite, the  *)
(* safety properties it gives, and the refinement of VersionChain.         *)
(***************************************************************************)
EXTENDS ConditionalWrite, TLAPS

(* StatedRevision yields a revision, or None.                               *)
LEMMA StatedRevisionType ==
  ASSUME NEW r \in Request
  PROVE  /\ StatedRevision(r) \in Revision \cup {None}
         /\ StatedRevision(r) # None => StatedRevision(r).tag = r.ifMatch
         /\ StatedRevision(r) # None /\ StatedRevision(r).absent => r.ifMatch = 0
<1>1. r.ifMatch \in Nat /\ r.ifMatch \in Tag /\ 0 \in Tag
  BY DEF Request, Tag
<1>2. [absent |-> FALSE, tag |-> r.ifMatch] \in Revision
  BY <1>1 DEF Revision
<1>3. [absent |-> TRUE, tag |-> 0] \in Revision
  BY <1>1 DEF Revision
<1>4. None \notin Revision
  BY NoneAssumption
<1>5. CASE r.wellFormed /\ r.ifMatch # 0 /\ ~r.weak /\ r.ifNoneMatch = "missing"
  BY <1>1, <1>2, <1>5 DEF StatedRevision
<1>6. CASE r.wellFormed /\ r.ifMatch = 0 /\ r.ifNoneMatch = "star"
  BY <1>1, <1>3, <1>6 DEF StatedRevision
<1>7. CASE /\ ~(r.wellFormed /\ r.ifMatch # 0 /\ ~r.weak /\ r.ifNoneMatch = "missing")
           /\ ~(r.wellFormed /\ r.ifMatch = 0 /\ r.ifNoneMatch = "star")
  <2>1. StatedRevision(r) = None
    BY <1>7 DEF StatedRevision
  <2> QED BY <2>1
<1> QED BY <1>5, <1>6, <1>7

(* What a client composes has the shape of a request.                       *)
LEMMA PutForType ==
  ASSUME NEW c \in Client, NEW rev \in Revision, ops[c] + 1 \in OpNumber
  PROVE  PutFor(c, rev) \in Request
BY DEF PutFor, Request, Revision, Tag

(* Decode yields an outcome that is no longer pending.                      *)
LEMMA DecodeType ==
  ASSUME NEW reply \in Reply, NEW header, NEW oversized
  PROVE  /\ Decode(reply, header, oversized) \in Outcome
         /\ Decode(reply, header, oversized).kind = "ok" =>
              /\ reply.status \in {201, 204}
              /\ Decode(reply, header, oversized).tag \in {0, reply.tag}
BY DEF Decode, Outcome, Reply, Failed, Tag, Status

(* Each step of the server keeps a server operation one.                    *)
LEMMA ServerOpType ==
  /\ IdleSlot \in ServerOp
  /\ \A op \in ServerOp : /\ Authorized(op, TRUE) \in ServerOp
                          /\ Authorized(op, FALSE) \in ServerOp
  /\ \A op \in ServerOp, usable \in BOOLEAN : Written(op, usable) \in ServerOp
<1>1. IdleSlot \in ServerOp
  BY DEF IdleSlot, ServerOp, Tag
<1>2. ASSUME NEW op \in ServerOp
      PROVE  Authorized(op, TRUE) \in ServerOp /\ Authorized(op, FALSE) \in ServerOp
  <2>1. [status |-> 403, tag |-> 0] \in Response
    BY DEF Response, Status, Tag
  <2>2. [op EXCEPT !.need = "write"] \in ServerOp
    BY DEF ServerOp
  <2>3. \A resp \in Response : [op EXCEPT !.need = "none", !.responder = FALSE,
                                          !.response = resp] \in ServerOp
    BY DEF ServerOp
  <2> QED BY <2>1, <2>2, <2>3 DEF Authorized
<1>3. ASSUME NEW op \in ServerOp, NEW usable \in BOOLEAN
      PROVE  Written(op, usable) \in ServerOp
  <2>1. [status |-> 412, tag |-> 0] \in Response
    BY DEF Response, Status, Tag
  <2>2. \A st \in {201, 204} : [status |-> st, tag |-> op.stored] \in Response
    BY DEF Response, Status, Tag, ServerOp
  <2> DEFINE done == [op EXCEPT !.need = "none", !.responder = FALSE]
  <2>3. done \in ServerOp /\ done.stored = op.stored
    BY DEF ServerOp
  <2>4. \A resp \in Response : [done EXCEPT !.response = resp] \in ServerOp
    BY <2>3 DEF ServerOp
  <2> HIDE DEF done
  <2>5. Written(op, usable) \in {[done EXCEPT !.response = [status |-> 412, tag |-> 0]],
                                 done,
                                 [done EXCEPT !.response = [status |-> 201, tag |-> op.stored]],
                                 [done EXCEPT !.response = [status |-> 204, tag |-> op.stored]]}
    BY DEF Written, done
  <2> QED BY <2>1, <2>2, <2>3, <2>4, <2>5
<1> QED BY <1>1, <1>2, <1>3

(* A quota that is not used up leaves a number for the next operation.      *)
LEMMA QuotaLeaves ==
  ASSUME NEW c \in Client, ops[c] \in 0..MaxOps, WithinQuota(c)
  PROVE  ops[c] + 1 \in 0..MaxOps /\ ops[c] + 1 \in OpNumber /\ ops[c] + 1 > ops[c]
<1>1. PICK quota \in Quotas : ops[c] < quota[c]
  BY DEF WithinQuota
<1>2. quota[c] \in 0..MaxOps /\ MaxOps \in Nat
  BY ConstantAssumption
<1> QED BY <1>1, <1>2 DEF OpNumber

(* Starting an operation, whichever client composes it.                     *)
LEMMA BeginType ==
  ASSUME TypeOK, NEW c \in Client, NEW r \in Request, NEW v \in Nat \cup {None},
         r.op = ops[c] + 1, Begin(c, r, v)
  PROVE  TypeOK'
<1>1. ops[c] + 1 \in 0..MaxOps /\ ops[c] + 1 \in OpNumber
  <2>1. ops[c] \in 0..MaxOps /\ WithinQuota(c)
    BY DEF TypeOK, Begin
  <2> QED BY <2>1, QuotaLeaves
<1>2. <<c, r.op>> \in Write
  BY <1>1 DEF Write
<1>3. basis' \in [Write -> Nat \cup {None}]
  BY <1>2 DEF TypeOK, Begin
<1>4. ops' \in [Client -> 0..MaxOps] /\ request' \in [Client -> Request \cup {None}]
      /\ decoder' \in [Client -> BOOLEAN]
  BY <1>1 DEF TypeOK, Begin
<1> QED BY <1>3, <1>4 DEF TypeOK, Begin

(* Every step of a client keeps the state's shape.                          *)
LEMMA ClientType ==
  ASSUME TypeOK, NEW c \in Client, ClientStep(c)
  PROVE  TypeOK'
<1>0. revision[c] \in Revision /\ seen[c] \in Nat /\ ops[c] \in 0..MaxOps
      /\ Len(history) \in Nat
  BY DEF TypeOK
<1>a. ASSUME WithinQuota(c)
      PROVE  ops[c] + 1 \in OpNumber
  BY <1>0, <1>a, QuotaLeaves
<1>1. ASSUME NEW v \in 0..Len(history), Read(c, v)
      PROVE  TypeOK'
  <2>1. RevisionOf(v) \in Revision
    BY DEF RevisionOf, Revision, Tag
  <2> QED BY <1>0, <1>1, <2>1 DEF Read, TypeOK, storeVars
<1>2. CASE ConditionalWrite(c)
  <2>1. ops[c] + 1 \in OpNumber
    BY <1>2, <1>a DEF ConditionalWrite, Begin
  <2>2. PutFor(c, revision[c]) \in Request /\ PutFor(c, revision[c]).op = ops[c] + 1
    BY <1>0, <2>1, PutForType DEF PutFor
  <2> QED BY <1>0, <1>2, <2>2, BeginType DEF ConditionalWrite
<1>3. ASSUME NEW ifMatch \in 0..Len(history), NEW weak \in BOOLEAN,
             NEW wellFormed \in BOOLEAN,
             NEW ifNoneMatch \in {"missing", "star", "other"},
             ForeignWrite(c, ifMatch, weak, ifNoneMatch, wellFormed)
      PROVE  TypeOK'
  <2> DEFINE r == [client |-> c, op |-> ops[c] + 1, ifMatch |-> ifMatch, weak |-> weak,
                   ifNoneMatch |-> ifNoneMatch, wellFormed |-> wellFormed]
             v == IF (\/ ifMatch # 0 /\ ~weak /\ ifNoneMatch = "missing"
                      \/ ifMatch = 0 /\ ifNoneMatch = "star") /\ wellFormed
                  THEN ifMatch ELSE None
  <2>0. v \in Nat \cup {None}
    BY <1>0
  <2>1. Begin(c, r, v)
    BY <1>3 DEF ForeignWrite
  <2>2. ops[c] + 1 \in OpNumber
    BY <2>1, <1>a DEF Begin
  <2>3. r \in Request
    BY <1>0, <2>2 DEF Request, Tag
  <2> QED BY <2>0, <2>1, <2>3, BeginType
<1>4. CASE Transmit(c)
  <2>1. request[c] \in Request
    BY <1>4 DEF TypeOK, Transmit
  <2> QED BY <1>4, <2>1 DEF Transmit, TypeOK, clientVars, storeVars
<1>5. ASSUME NEW reply \in replies, NEW header \in {"strong", "weak", "missing"},
             NEW oversized \in BOOLEAN, Accept(c, reply, header, oversized)
      PROVE  TypeOK'
  <2>1. Decode(reply, header, oversized) \in Outcome
    BY DecodeType DEF TypeOK
  <2> QED BY <1>5, <2>1 DEF Accept, TypeOK, storeVars
<1>6. CASE Finish(c)
  <2>1. Pending \in Outcome /\ result[c] \in Outcome
    BY DEF Pending, Outcome, Tag, TypeOK
  <2>2. [absent |-> FALSE, tag |-> result[c].tag] \in Revision /\ result[c].tag \in Nat
    BY <2>1 DEF Outcome, Revision, Tag
  <2>3. revision' \in [Client -> Revision] /\ seen' \in [Client -> Nat]
    BY <1>6, <2>2 DEF Finish, TypeOK
  <2> QED BY <1>6, <2>1, <2>3 DEF Finish, TypeOK, storeVars
<1> QED BY <1>1, <1>2, <1>3, <1>4, <1>5, <1>6 DEF ClientStep

(* The host's answer to the authorization need, as a set of two.            *)
LEMMA AuthorizedCases ==
  ASSUME NEW s \in Slot, server \in [Slot -> ServerOp], SupplyAuthorized(s)
  PROVE  \/ /\ server[s].request.client \in Allowed
            /\ server' = [server EXCEPT ![s] = Authorized(server[s], TRUE)]
         \/ server' = [server EXCEPT ![s] = Authorized(server[s], FALSE)]
<1>1. CASE server[s].request.client \in Allowed
  <2>1. Authorized(server[s], server[s].request.client \in Allowed)
          = Authorized(server[s], TRUE)
    BY <1>1 DEF Authorized
  <2> QED BY <1>1, <2>1 DEF SupplyAuthorized
<1>2. CASE server[s].request.client \notin Allowed
  <2>1. Authorized(server[s], server[s].request.client \in Allowed)
          = Authorized(server[s], FALSE)
    BY <1>2 DEF Authorized
  <2> QED BY <2>1 DEF SupplyAuthorized
<1> QED BY <1>1, <1>2

(* Replacing one slot, and nothing else, by a server operation.             *)
LEMMA SlotType ==
  ASSUME TypeOK, NEW s \in Slot, NEW op \in ServerOp,
         server' = [server EXCEPT ![s] = op],
         op.request = None => op = IdleSlot
  PROVE  /\ server' \in [Slot -> ServerOp]
         /\ \A t \in Slot : server'[t].request = None => server'[t] = IdleSlot
BY DEF TypeOK

(* Every step of the server, and of its host, keeps the state's shape.      *)
LEMMA ServerType ==
  ASSUME TypeOK, NEW s \in Slot, ServerStep(s)
  PROVE  TypeOK'
<1>0. server[s] \in ServerOp /\ Len(history) \in Nat
  BY DEF TypeOK
<1>t. IdleSlot \in ServerOp /\ IdleSlot.request = None /\ IdleSlot.need = "none"
  BY ServerOpType DEF IdleSlot
<1>r. ASSUME NEW r \in Request, NEW response \in Response
      PROVE  Answer(r, response) \in Reply
  BY DEF Answer, Reply, Request, Response
<1>c. \A st \in Status : [status |-> st, tag |-> 0] \in Response
  BY DEF Response, Tag
<1>w. ASSUME server[s].need # "none"
      PROVE  server[s].request \in Request
  BY <1>0, <1>t, <1>w DEF TypeOK, ServerOp
<1>1. ASSUME NEW r \in wire, Handle(s, r)
      PROVE  TypeOK'
  <2>1. r \in Request /\ r # None
    BY NoneAssumption DEF TypeOK
  <2>2. CASE StatedRevision(r) = None
    BY <1>1, <1>r, <1>c, <2>1, <2>2 DEF Handle, TypeOK, Status, clientVars, storeVars
  <2>3. CASE StatedRevision(r) # None
    <3> DEFINE op == [IdleSlot EXCEPT !.request = r, !.need = "authorize",
                                      !.responder = TRUE, !.revision = StatedRevision(r)]
    <3>1. op \in ServerOp /\ op.request # None
      BY <2>1, StatedRevisionType, ServerOpType DEF ServerOp
    <3>2. server' = [server EXCEPT ![s] = op]
      BY <1>1, <2>3 DEF Handle
    <3> HIDE DEF op
    <3>3. server' \in [Slot -> ServerOp]
          /\ \A t \in Slot : server'[t].request = None => server'[t] = IdleSlot
      BY <3>1, <3>2, SlotType
    <3> QED BY <1>1, <2>3, <3>3 DEF Handle, TypeOK, clientVars, storeVars
  <2> QED BY <2>2, <2>3
<1>2. CASE SupplyMismatch(s)
  <2> DEFINE op == [server[s] EXCEPT !.need = "none", !.responder = FALSE]
  <2>1. op \in ServerOp /\ op.request # None
    BY <1>0, <1>2, <1>w, NoneAssumption DEF ServerOp, SupplyMismatch
  <2>2. server' = [server EXCEPT ![s] = op]
    BY <1>2 DEF SupplyMismatch, TypeOK
  <2> HIDE DEF op
  <2>3. server' \in [Slot -> ServerOp]
        /\ \A t \in Slot : server'[t].request = None => server'[t] = IdleSlot
    BY <2>1, <2>2, SlotType
  <2> QED BY <1>2, <2>3 DEF SupplyMismatch, TypeOK, clientVars, storeVars
<1>3. CASE SupplyAuthorized(s)
  <2>1. PICK op \in {Authorized(server[s], TRUE), Authorized(server[s], FALSE)} :
          server' = [server EXCEPT ![s] = op]
    BY <1>3, AuthorizedCases DEF TypeOK
  <2>2. op \in ServerOp
    BY <1>0, ServerOpType
  <2>3. op.request = server[s].request
    <3>1. CASE op = Authorized(server[s], TRUE)
      BY <1>0, <3>1 DEF ServerOp, Authorized
    <3>2. CASE op = Authorized(server[s], FALSE)
      BY <1>0, <3>2 DEF ServerOp, Authorized
    <3> QED BY <2>1, <3>1, <3>2
  <2>4. op.request # None
    BY <1>3, <1>w, <2>3, NoneAssumption DEF SupplyAuthorized, Wanting
  <2>5. server' \in [Slot -> ServerOp]
        /\ \A t \in Slot : server'[t].request = None => server'[t] = IdleSlot
    BY <2>1, <2>2, <2>4, SlotType
  <2> QED BY <1>3, <2>5 DEF SupplyAuthorized, TypeOK, clientVars, storeVars
<1>4. CASE HostStore(s)
  <2> DEFINE rev == server[s].revision
             holds == IF rev.absent THEN Len(history) = 0
                      ELSE rev.tag = Len(history) /\ Len(history) # 0
             won == [server[s] EXCEPT !.cas = "stored", !.stored = Len(history) + 1]
             lost == [server[s] EXCEPT !.cas = "conflict"]
  <2>0. server[s].request \in Request /\ server[s].request # None
    BY <1>4, <1>w, NoneAssumption DEF HostStore, Wanting
  <2>1. CASE holds
    <3>1. server' = [server EXCEPT ![s] = won]
      BY <1>4, <2>1 DEF HostStore
    <3>2. Len(history) + 1 \in Tag
      BY <1>0 DEF Tag
    <3>3. won \in ServerOp /\ won.request # None
      BY <1>0, <2>0, <3>2 DEF ServerOp
    <3>4. history' \in Seq(Write)
      <4>1. history' = Append(history, <<server[s].request.client, server[s].request.op>>)
        BY <1>4, <2>1 DEF HostStore
      <4>2. <<server[s].request.client, server[s].request.op>> \in Write
        BY <2>0 DEF Request, Write
      <4> QED BY <4>1, <4>2 DEF TypeOK
    <3> HIDE DEF won
    <3>5. server' \in [Slot -> ServerOp]
          /\ \A t \in Slot : server'[t].request = None => server'[t] = IdleSlot
      BY <3>1, <3>3, SlotType
    <3> QED BY <1>4, <3>4, <3>5 DEF HostStore, TypeOK, clientVars
  <2>2. CASE ~holds
    <3>1. server' = [server EXCEPT ![s] = lost] /\ UNCHANGED history
      BY <1>4, <2>2 DEF HostStore
    <3>2. lost \in ServerOp /\ lost.request # None
      BY <1>0, <2>0 DEF ServerOp
    <3> HIDE DEF lost
    <3>3. server' \in [Slot -> ServerOp]
          /\ \A t \in Slot : server'[t].request = None => server'[t] = IdleSlot
      BY <3>1, <3>2, SlotType
    <3> QED BY <1>4, <3>1, <3>3 DEF HostStore, TypeOK, clientVars
  <2> QED BY <2>1, <2>2
<1>5. ASSUME NEW usable \in BOOLEAN, SupplyWritten(s, usable)
      PROVE  TypeOK'
  <2>1. Written(server[s], usable) \in ServerOp
    BY <1>0, ServerOpType
  <2>2. Written(server[s], usable).request # None
    BY <1>0, <1>5, <1>w, NoneAssumption
       DEF ServerOp, SupplyWritten, Wanting, Written
  <2>3. server' \in [Slot -> ServerOp]
        /\ \A t \in Slot : server'[t].request = None => server'[t] = IdleSlot
    BY <1>5, <2>1, <2>2, SlotType DEF SupplyWritten
  <2> QED BY <1>5, <2>3 DEF SupplyWritten, TypeOK, clientVars, storeVars
<1>6. CASE FinishServer(s)
  <2>1. server[s].request \in Request
    BY <1>0, <1>6 DEF FinishServer, ServerOp
  <2>2. (IF server[s].response # None THEN server[s].response
         ELSE [status |-> 500, tag |-> 0]) \in Response
    BY <1>0, <1>c DEF ServerOp, Status
  <2>3. replies' \in SUBSET Reply
    BY <1>6, <1>r, <2>1, <2>2 DEF FinishServer, TypeOK
  <2>4. server' \in [Slot -> ServerOp]
        /\ \A t \in Slot : server'[t].request = None => server'[t] = IdleSlot
    BY <1>6, <1>t, SlotType DEF FinishServer
  <2> QED BY <1>6, <2>3, <2>4 DEF FinishServer, TypeOK, clientVars, storeVars
<1>7. CASE Crash(s)
  <2>1. server' \in [Slot -> ServerOp]
        /\ \A t \in Slot : server'[t].request = None => server'[t] = IdleSlot
    BY <1>7, <1>t, SlotType DEF Crash
  <2> QED BY <1>7, <2>1 DEF Crash, TypeOK, clientVars, storeVars
<1> QED BY <1>1, <1>2, <1>3, <1>4, <1>5, <1>6, <1>7 DEF ServerStep

(* Operations, wire, slots, replies and store always have the shape the     *)
(* structs give them.                                                       *)
THEOREM TypeCorrect == Spec => []TypeOK
<1>1. Init => TypeOK
  <2> SUFFICES ASSUME Init PROVE TypeOK
    OBVIOUS
  <2>1. Pending \in Outcome /\ [absent |-> TRUE, tag |-> 0] \in Revision
    BY DEF Pending, Outcome, Revision, Tag
  <2>2. 0 \in 0..MaxOps
    BY ConstantAssumption
  <2> QED BY <2>1, <2>2, ServerOpType DEF Init, TypeOK
<1>2. TypeOK /\ [Next]_vars => TypeOK'
  <2> SUFFICES ASSUME TypeOK, [Next]_vars PROVE TypeOK'
    OBVIOUS
  <2>1. CASE Next
    BY <2>1, ClientType, ServerType DEF Next
  <2>2. CASE UNCHANGED vars
    BY <2>2 DEF vars, clientVars, storeVars, TypeOK
  <2> QED BY <2>1, <2>2
<1> QED BY <1>1, <1>2, PTL DEF Spec

-------------------------------------------------------------------------------
(* The inductive invariant *)

(* A new operation takes a number nobody has seen, so what is already known *)
(* of requests, slots, replies and versions stays known.                    *)
LEMMA BeginInv ==
  ASSUME TypeOK, Inv, NEW c \in Client, NEW r \in Request, NEW v \in Nat \cup {None},
         r.client = c, r.op = ops[c] + 1, Begin(c, r, v),
         StatedRevision(r) # None => v = StatedRevision(r).tag
  PROVE  Inv'
<1>0. ops[c] \in Nat /\ r.op \in OpNumber /\ ops' = [ops EXCEPT ![c] = r.op]
      /\ <<c, r.op>> \in Write
  BY DEF TypeOK, Begin, Request, Write
<1>1. ASSUME NEW q \in Request, Known(q)
      PROVE  Known(q)'
  <2>1. q.op <= ops[q.client] /\ q.op \in Nat /\ q.client \in Client /\ q.op \in OpNumber
    BY <1>1 DEF Known, Request, OpNumber
  <2>2. <<q.client, q.op>> # <<c, r.op>>
    BY <1>0, <2>1
  <2>3. <<q.client, q.op>> \in Write
    BY <2>1 DEF Write
  <2>4. basis'[<<q.client, q.op>>] = basis[<<q.client, q.op>>]
    BY <2>2, <2>3 DEF Begin, TypeOK
  <2>5. ops[q.client] \in Nat
    BY <2>1 DEF TypeOK
  <2>6. q.op <= ops'[q.client]
    BY <1>0, <2>1, <2>5 DEF TypeOK
  <2> QED BY <1>1, <2>4, <2>6 DEF Known
<1>2. Known(r)'
  <2>1. ops'[c] = r.op /\ basis'[<<c, r.op>>] = v
    BY <1>0 DEF Begin, TypeOK
  <2> QED BY <1>0, <2>1 DEF Known, OpNumber
<1>3. \A n \in 1..Len(history) :
        /\ history[n] \in Write
        /\ history[n][2] <= ops[history[n][1]]
        /\ history[n][2] <= ops'[history[n][1]]
        /\ basis'[history[n]] = basis[history[n]]
  <2> SUFFICES ASSUME NEW n \in 1..Len(history)
               PROVE  /\ history[n] \in Write
                      /\ history[n][2] <= ops[history[n][1]]
                      /\ history[n][2] <= ops'[history[n][1]]
                      /\ basis'[history[n]] = basis[history[n]]
    OBVIOUS
  <2>1. history[n] \in Write
    BY DEF TypeOK
  <2>2. PICK d \in Client, k \in OpNumber : history[n] = <<d, k>>
    BY <2>1 DEF Write
  <2>3. k <= ops[d] /\ ops[d] \in Nat /\ k \in Nat
    BY <2>2 DEF Inv, RequestsKnown, TypeOK, OpNumber
  <2>4. k <= ops'[d]
    BY <1>0, <2>3 DEF TypeOK
  <2>5. <<d, k>> # <<c, r.op>>
    BY <1>0, <2>3
  <2> QED BY <2>1, <2>2, <2>3, <2>4, <2>5 DEF Begin, TypeOK
<1>4. history' = history /\ revision' = revision /\ seen' = seen /\ result' = result
      /\ wire' = wire /\ server' = server /\ replies' = replies
  BY DEF Begin
<1>5. NoLostUpdate'
  BY <1>3, <1>4 DEF Inv, NoLostUpdate
<1>6. OkIsMine'
  <2> SUFFICES ASSUME NEW d \in Client, result[d].kind = "ok"
               PROVE  /\ \E n \in 1..Len(history) : StoredAs(<<d, ops'[d]>>, n)
                      /\ result[d].tag # 0 => StoredAs(<<d, ops'[d]>>, result[d].tag)
    BY <1>4 DEF OkIsMine, StoredAs
  <2>1. d # c
    BY DEF Begin, HasOperation
  <2>2. ops'[d] = ops[d]
    BY <1>0, <2>1 DEF TypeOK
  <2> QED BY <2>2 DEF Inv, OkIsMine
<1>7. OnlyAuthorizedStores'
  BY <1>4 DEF Inv, OnlyAuthorizedStores
<1>8. RevisionDerives'
  BY <1>4 DEF Inv, RevisionDerives
<1>9. RequestsKnown'
  <2>1. \A q \in wire : Known(q)'
    BY <1>1 DEF Inv, RequestsKnown, TypeOK
  <2>2. ASSUME NEW d \in Client
        PROVE  (request[d] # None => request[d].client = d /\ Known(request[d]))'
    <3>1. CASE d = c
      <4>1. request'[d] = r
        BY <3>1 DEF Begin, TypeOK
      <4> QED BY <1>2, <3>1, <4>1 DEF Known
    <3>2. CASE d # c
      <4>1. request'[d] = request[d]
        BY <3>2 DEF Begin, TypeOK
      <4>2. request[d] # None => request[d] \in Request /\ Known(request[d])
                                 /\ request[d].client = d
        BY DEF Inv, RequestsKnown, TypeOK
      <4> QED BY <1>1, <4>1, <4>2 DEF Known
    <3> QED BY <3>1, <3>2
  <2>3. (\A n \in 1..Len(history) : history[n][2] <= ops[history[n][1]])'
    BY <1>3, <1>4
  <2>4. (\A q \in wire : Known(q))'
    BY <1>4, <2>1 DEF Known
  <2>5. (\A d \in Client, k \in OpNumber : k > ops[d] => basis[<<d, k>>] = None)'
    <3> SUFFICES ASSUME NEW d \in Client, NEW k \in OpNumber, k > ops'[d]
                 PROVE  basis'[<<d, k>>] = None
      OBVIOUS
    <3>1. <<d, k>> \in Write /\ ops[d] \in Nat /\ k \in Nat
      BY DEF Write, TypeOK, OpNumber
    <3>2. k > ops[d] /\ <<d, k>> # <<c, r.op>>
      BY <1>0, <3>1 DEF TypeOK
    <3> QED BY <3>1, <3>2 DEF Begin, TypeOK, Inv, RequestsKnown
  <2> QED BY <2>2, <2>3, <2>4, <2>5 DEF RequestsKnown
<1>10. ASSUME NEW s \in Slot
       PROVE  SlotInv(server[s])'
  <2>1. SlotInv(server[s])
    BY DEF Inv
  <2>2. server[s].request # None => server[s].request \in Request
    BY DEF TypeOK, ServerOp
  <2>3. server'[s] = server[s]
    BY <1>4
  <2>4. server[s].request # None => Known(server[s].request)'
    BY <1>1, <1>4, <2>1, <2>2 DEF SlotInv, Known
  <2> QED BY <1>4, <2>1, <2>3, <2>4 DEF SlotInv, StoredAs, Known
<1>11. AnswersKnown'
  BY <1>4 DEF Inv, AnswersKnown, StoredAs
<1> QED BY <1>4, <1>5, <1>6, <1>7, <1>8, <1>9, <1>10, <1>11 DEF Inv

(* A step that starts nothing and stores nothing leaves what is known of    *)
(* every write alone; then only the parts it touches are left to prove.     *)
LEMMA Frame ==
  ASSUME TypeOK, Inv, UNCHANGED <<ops, basis, history>>,
         RevisionDerives', OkIsMine', AnswersKnown',
         \A r \in wire' : Known(r),
         \A c \in Client : request'[c] # None => /\ request'[c].client = c
                                                 /\ Known(request'[c]),
         \A s \in Slot : SlotInv(server'[s])
  PROVE  Inv'
<1>1. NoLostUpdate' /\ OnlyAuthorizedStores'
  BY DEF Inv, NoLostUpdate, OnlyAuthorizedStores
<1>2. RequestsKnown'
  BY DEF Inv, RequestsKnown, Known
<1>3. \A s \in Slot : SlotInv(server[s])'
  BY DEF SlotInv, Known, StoredAs
<1> QED BY <1>1, <1>2, <1>3 DEF Inv

(* A step of a client keeps the invariant.                                  *)
LEMMA ClientInv ==
  ASSUME TypeOK, Inv, NEW c \in Client, ClientStep(c)
  PROVE  Inv'
<1>0. revision[c] \in Revision /\ seen[c] \in Nat /\ ops[c] \in 0..MaxOps
      /\ Len(history) \in Nat /\ result[c] \in Outcome
  BY DEF TypeOK
<1>k. /\ \A r \in wire : Known(r)
      /\ \A d \in Client : request[d] # None => request[d].client = d /\ Known(request[d])
      /\ \A s \in Slot : SlotInv(server[s])
  BY DEF Inv, RequestsKnown
<1>1. ASSUME NEW v \in 0..Len(history), Read(c, v)
      PROVE  Inv'
  <2>1. RevisionDerives'
    <3>0. RevisionOf(v).tag = v /\ (RevisionOf(v).absent => v = 0)
      BY DEF RevisionOf
    <3>1. \A d \in Client :
            IF d = c THEN revision'[d] = RevisionOf(v) /\ seen'[d] = v
            ELSE revision'[d] = revision[d] /\ seen'[d] = seen[d]
      BY <1>1 DEF Read, TypeOK
    <3>2. history' = history /\ v <= Len(history)
      BY <1>0, <1>1 DEF Read, storeVars
    <3> QED BY <3>0, <3>1, <3>2 DEF Inv, RevisionDerives
  <2>2. OkIsMine' /\ AnswersKnown'
    BY <1>1 DEF Inv, OkIsMine, AnswersKnown, Read, StoredAs, storeVars
  <2> QED BY <1>1, <1>k, <2>1, <2>2, Frame DEF Read, storeVars
<1>2. CASE ConditionalWrite(c)
  <2> DEFINE r == PutFor(c, revision[c])
  <2>1. Begin(c, r, seen[c]) /\ (revision[c].absent \/ revision[c].tag # 0)
    BY <1>2 DEF ConditionalWrite
  <2>2. ops[c] + 1 \in OpNumber
    <3>1. WithinQuota(c)
      BY <2>1 DEF Begin
    <3> QED BY <1>0, <3>1, QuotaLeaves
  <2>3. r \in Request /\ r.client = c /\ r.op = ops[c] + 1
    BY <1>0, <2>2, PutForType DEF PutFor
  <2>4. StatedRevision(r) # None => seen[c] = StatedRevision(r).tag
    <3>1. r.ifMatch = seen[c]
      BY <1>0, <2>1 DEF PutFor, Inv, RevisionDerives
    <3> QED BY <2>3, <3>1, StatedRevisionType
  <2> HIDE DEF r
  <2> QED BY <1>0, <2>1, <2>3, <2>4, BeginInv
<1>3. ASSUME NEW ifMatch \in 0..Len(history), NEW weak \in BOOLEAN,
             NEW wellFormed \in BOOLEAN,
             NEW ifNoneMatch \in {"missing", "star", "other"},
             ForeignWrite(c, ifMatch, weak, ifNoneMatch, wellFormed)
      PROVE  Inv'
  <2> DEFINE r == [client |-> c, op |-> ops[c] + 1, ifMatch |-> ifMatch, weak |-> weak,
                   ifNoneMatch |-> ifNoneMatch, wellFormed |-> wellFormed]
             v == IF (\/ ifMatch # 0 /\ ~weak /\ ifNoneMatch = "missing"
                      \/ ifMatch = 0 /\ ifNoneMatch = "star") /\ wellFormed
                  THEN ifMatch ELSE None
  <2>0. v \in Nat \cup {None}
    BY <1>0
  <2>1. Begin(c, r, v)
    BY <1>3 DEF ForeignWrite
  <2>2. ops[c] + 1 \in OpNumber
    <3>1. WithinQuota(c)
      BY <2>1 DEF Begin
    <3> QED BY <1>0, <3>1, QuotaLeaves
  <2>3. r \in Request
    BY <1>0, <2>2 DEF Request, Tag
  <2>4. StatedRevision(r) # None => v = StatedRevision(r).tag
    <3>1. CASE (\/ ifMatch # 0 /\ ~weak /\ ifNoneMatch = "missing"
                \/ ifMatch = 0 /\ ifNoneMatch = "star") /\ wellFormed
      BY <2>3, <3>1, StatedRevisionType
    <3>2. CASE ~((\/ ifMatch # 0 /\ ~weak /\ ifNoneMatch = "missing"
                  \/ ifMatch = 0 /\ ifNoneMatch = "star") /\ wellFormed)
      <4>1. StatedRevision(r) = None
        BY <3>2 DEF StatedRevision
      <4> QED BY <4>1
    <3> QED BY <3>1, <3>2
  <2>5. r.client = c /\ r.op = ops[c] + 1
    OBVIOUS
  <2> HIDE DEF r, v
  <2> QED BY <2>0, <2>1, <2>3, <2>4, <2>5, BeginInv
<1>4. CASE Transmit(c)
  <2>1. RevisionDerives' /\ OkIsMine' /\ AnswersKnown'
    BY <1>4 DEF Inv, RevisionDerives, OkIsMine, AnswersKnown, Transmit, StoredAs,
                clientVars, storeVars
  <2> QED BY <1>4, <1>k, <2>1, Frame DEF Transmit, clientVars, storeVars
<1>5. ASSUME NEW reply \in replies, NEW header \in {"strong", "weak", "missing"},
             NEW oversized \in BOOLEAN, Accept(c, reply, header, oversized)
      PROVE  Inv'
  <2> DEFINE out == Decode(reply, header, oversized)
  <2>1. reply \in Reply /\ reply.client = c /\ reply.op = ops[c]
    BY <1>5 DEF Accept, TypeOK
  <2>2. out.kind = "ok" => reply.status \in {201, 204} /\ out.tag \in {0, reply.tag}
    BY <2>1, DecodeType
  <2>3. out.kind = "ok" => StoredAs(<<c, ops[c]>>, reply.tag)
    BY <2>1, <2>2 DEF Inv, AnswersKnown
  <2>4. result' = [result EXCEPT ![c] = out] /\ UNCHANGED <<ops, basis, history>>
    BY <1>5 DEF Accept, storeVars
  <2> HIDE DEF out
  <2>5. OkIsMine'
    <3> SUFFICES ASSUME NEW d \in Client, result'[d].kind = "ok"
                 PROVE  /\ \E n \in 1..Len(history) : StoredAs(<<d, ops[d]>>, n)
                        /\ result'[d].tag # 0 => StoredAs(<<d, ops[d]>>, result'[d].tag)
      BY <2>4 DEF OkIsMine, StoredAs
    <3>1. CASE d = c
      <4>1. result'[d] = out /\ ops'[d] = ops[c] /\ history' = history
        BY <2>4, <3>1 DEF TypeOK
      <4>2. StoredAs(<<c, ops[c]>>, reply.tag) /\ out.tag \in {0, reply.tag}
        BY <2>2, <2>3, <4>1
      <4> QED BY <2>1, <3>1, <4>1, <4>2 DEF StoredAs
    <3>2. CASE d # c
      BY <2>4, <3>2 DEF TypeOK, Inv, OkIsMine
    <3> QED BY <3>1, <3>2
  <2>6. RevisionDerives' /\ AnswersKnown'
    BY <1>5 DEF Inv, RevisionDerives, AnswersKnown, Accept, StoredAs, storeVars
  <2>7. \A d \in Client : request'[d] # None =>
           request'[d].client = d /\ Known(request'[d])
    BY <1>5, <1>k DEF Accept, TypeOK
  <2> QED BY <1>5, <1>k, <2>4, <2>5, <2>6, <2>7, Frame DEF Accept
<1>6. CASE Finish(c)
  <2>1. UNCHANGED <<ops, basis, history, wire, server, replies>>
    BY <1>6 DEF Finish, storeVars
  <2>2. RevisionDerives'
    <3>1. CASE result[c].kind = "ok"
      <4>1. \A d \in Client :
              IF d = c THEN /\ revision'[d] = [absent |-> FALSE, tag |-> result[c].tag]
                            /\ seen'[d] = result[c].tag
              ELSE revision'[d] = revision[d] /\ seen'[d] = seen[d]
        BY <1>6, <3>1 DEF Finish, TypeOK
      <4>2. result[c].tag <= Len(history)
        BY <1>0, <3>1 DEF Inv, OkIsMine, StoredAs
      <4> QED BY <2>1, <4>1, <4>2 DEF Inv, RevisionDerives
    <3>2. CASE result[c].kind # "ok"
      BY <1>6, <2>1, <3>2 DEF Finish, Inv, RevisionDerives
    <3> QED BY <3>1, <3>2
  <2>3. OkIsMine'
    <3>1. result' = [result EXCEPT ![c] = Pending] /\ Pending.kind = "none"
      BY <1>6 DEF Finish, Pending
    <3>2. \A d \in Client : result'[d].kind = "ok" => d # c /\ result'[d] = result[d]
      BY <3>1 DEF TypeOK
    <3> QED BY <2>1, <3>2 DEF Inv, OkIsMine, StoredAs
  <2>4. AnswersKnown'
    BY <2>1 DEF Inv, AnswersKnown, StoredAs
  <2>5. \A d \in Client : request'[d] # None =>
           request'[d].client = d /\ Known(request'[d])
    BY <1>6, <1>k DEF Finish, TypeOK
  <2> QED BY <1>k, <2>1, <2>2, <2>3, <2>4, <2>5, Frame
<1> QED BY <1>1, <1>2, <1>3, <1>4, <1>5, <1>6 DEF ClientStep

(* Replacing one slot by an operation that satisfies SlotInv.               *)
LEMMA SlotFrame ==
  ASSUME TypeOK, Inv, NEW s \in Slot, NEW op, SlotInv(op),
         server' = [server EXCEPT ![s] = op],
         UNCHANGED <<clientVars, wire, storeVars>>, AnswersKnown'
  PROVE  Inv'
<1>1. \A t \in Slot : SlotInv(server'[t])
  BY DEF TypeOK, Inv
<1>2. RevisionDerives' /\ OkIsMine'
  BY DEF Inv, RevisionDerives, OkIsMine, StoredAs, clientVars, storeVars
<1> QED BY <1>1, <1>2, Frame DEF Inv, RequestsKnown, clientVars, storeVars

(* A step of the server or of its host keeps the invariant.                 *)
LEMMA ServerInv ==
  ASSUME TypeOK, Inv, NEW s \in Slot, ServerStep(s)
  PROVE  Inv'
<1>0. server[s] \in ServerOp /\ Len(history) \in Nat /\ SlotInv(server[s])
  BY DEF TypeOK, Inv
<1>t. SlotInv(IdleSlot)
  BY DEF SlotInv, IdleSlot
<1>w. ASSUME server[s].need # "none"
      PROVE  server[s].request \in Request /\ server[s].request # None
  BY <1>0, <1>w, NoneAssumption DEF TypeOK, ServerOp, IdleSlot
<1>a. UNCHANGED <<replies, history>> => AnswersKnown'
  BY DEF Inv, AnswersKnown, StoredAs
<1>1. ASSUME NEW r \in wire, Handle(s, r)
      PROVE  Inv'
  <2>0. r \in Request /\ r # None /\ Known(r) /\ UNCHANGED <<clientVars, wire, storeVars>>
    BY <1>1, NoneAssumption DEF TypeOK, Inv, RequestsKnown, Handle
  <2>1. CASE StatedRevision(r) = None
    <3>1. UNCHANGED server
      BY <1>1, <2>1 DEF Handle
    <3>2. AnswersKnown'
      BY <1>1, <2>0, <2>1 DEF Handle, Inv, AnswersKnown, Answer, StoredAs, storeVars
    <3> QED BY <2>0, <3>1, <3>2, <1>0, SlotFrame DEF TypeOK
  <2>2. CASE StatedRevision(r) # None
    <3> DEFINE op == [IdleSlot EXCEPT !.request = r, !.need = "authorize",
                                      !.responder = TRUE, !.revision = StatedRevision(r)]
    <3>1. SlotInv(op)
      BY <2>0, <2>2 DEF SlotInv, IdleSlot
    <3>2. server' = [server EXCEPT ![s] = op] /\ UNCHANGED replies
      BY <1>1, <2>2 DEF Handle
    <3> HIDE DEF op
    <3> QED BY <1>a, <2>0, <3>1, <3>2, SlotFrame DEF storeVars
  <2> QED BY <2>1, <2>2
<1>2. CASE SupplyMismatch(s)
  <2> DEFINE op == [server[s] EXCEPT !.need = "none", !.responder = FALSE]
  <2>1. SlotInv(op)
    BY <1>0 DEF SlotInv, ServerOp
  <2>2. server' = [server EXCEPT ![s] = op]
    BY <1>2 DEF SupplyMismatch, TypeOK
  <2> HIDE DEF op
  <2> QED BY <1>2, <1>a, <2>1, <2>2, SlotFrame DEF SupplyMismatch, storeVars
<1>3. CASE SupplyAuthorized(s)
  <2>1. SlotInv(Authorized(server[s], FALSE))
    BY <1>0 DEF SlotInv, Authorized, ServerOp
  <2>2. CASE server[s].request.client \in Allowed
    <3>1. SlotInv(Authorized(server[s], TRUE))
      BY <1>0, <2>2 DEF SlotInv, Authorized, ServerOp
    <3>2. PICK op : op \in {Authorized(server[s], TRUE), Authorized(server[s], FALSE)}
                    /\ server' = [server EXCEPT ![s] = op]
      BY <1>3, AuthorizedCases DEF TypeOK
    <3> QED BY <1>3, <1>a, <2>1, <3>1, <3>2, SlotFrame DEF SupplyAuthorized, storeVars
  <2>3. CASE server[s].request.client \notin Allowed
    <3>1. server' = [server EXCEPT ![s] = Authorized(server[s], FALSE)]
      BY <1>3, <2>3, AuthorizedCases DEF TypeOK
    <3> QED BY <1>3, <1>a, <2>1, <3>1, SlotFrame DEF SupplyAuthorized, storeVars
  <2> QED BY <2>2, <2>3
<1>4. CASE HostStore(s)
  <2> DEFINE rev == server[s].revision
             w == <<server[s].request.client, server[s].request.op>>
             holds == IF rev.absent THEN Len(history) = 0
                      ELSE rev.tag = Len(history) /\ Len(history) # 0
             won == [server[s] EXCEPT !.cas = "stored", !.stored = Len(history) + 1]
             lost == [server[s] EXCEPT !.cas = "conflict"]
  <2>0. /\ server[s].request \in Request /\ server[s].request # None
        /\ Known(server[s].request)
        /\ rev = StatedRevision(server[s].request) /\ rev # None
        /\ server[s].request.client \in Allowed
        /\ server[s].response # None /\ server[s].response.status \in {201, 204} =>
             StoredAs(w, server[s].response.tag)
    BY <1>0, <1>4, <1>w DEF HostStore, Wanting, SlotInv
  <2>u. UNCHANGED <<clientVars, wire, replies, basis>>
    BY <1>4 DEF HostStore
  <2>1. CASE holds
    <3>1. server' = [server EXCEPT ![s] = won] /\ history' = Append(history, w)
      BY <1>4, <2>1 DEF HostStore
    <3>2. w \in Write
      BY <2>0 DEF Request, Write
    <3>3. /\ Len(history') = Len(history) + 1
          /\ history'[Len(history) + 1] = w
          /\ \A n \in 1..Len(history) : history'[n] = history[n]
      BY <3>1, <3>2 DEF TypeOK
    <3>4. \A x, n : StoredAs(x, n) => StoredAs(x, n)'
      BY <1>0, <3>3 DEF StoredAs
    <3>5. Len(history) + 1 \in 1..Len(history') /\ history'[Len(history) + 1] = w
      BY <1>0, <3>3
    <3>6. basis[w] = Len(history)
      <4>1. basis[w] = rev.tag
        BY <2>0 DEF Known
      <4>2. rev.tag = server[s].request.ifMatch
            /\ (rev.absent => server[s].request.ifMatch = 0)
        BY <2>0, StatedRevisionType
      <4> QED BY <2>1, <4>1, <4>2
    <3>7. NoLostUpdate'
      <4> SUFFICES ASSUME NEW n \in 1..Len(history')
                   PROVE  basis[history'[n]] = n - 1
        BY <2>u DEF NoLostUpdate
      <4>1. CASE n \in 1..Len(history)
        BY <3>3, <4>1 DEF Inv, NoLostUpdate
      <4>2. CASE n = Len(history) + 1
        BY <1>0, <3>3, <3>6, <4>2
      <4> QED BY <1>0, <3>3, <4>1, <4>2
    <3>8. OnlyAuthorizedStores'
      BY <1>0, <2>0, <3>3 DEF Inv, OnlyAuthorizedStores
    <3>9. OkIsMine'
      <4>2. 1..Len(history) \subseteq 1..Len(history') /\ 1..Len(history) \subseteq Nat
        BY <1>0, <3>3
      <4>3. ASSUME NEW c \in Client, result[c].kind = "ok"
            PROVE  /\ \E n \in 1..Len(history') : history'[n] = <<c, ops[c]>>
                   /\ result[c].tag # 0 => /\ result[c].tag \in 1..Len(history')
                                           /\ history'[result[c].tag] = <<c, ops[c]>>
        BY <3>3, <4>2, <4>3 DEF Inv, OkIsMine, StoredAs
      <4>4. UNCHANGED <<result, ops>>
        BY <2>u DEF clientVars
      <4> QED BY <4>3, <4>4 DEF OkIsMine, StoredAs
    <3>10. RevisionDerives'
      BY <1>0, <2>u, <3>3 DEF Inv, RevisionDerives, TypeOK, clientVars
    <3>11. RequestsKnown'
      BY <1>0, <2>0, <2>u, <3>3 DEF Inv, RequestsKnown, Known, clientVars
    <3>12. AnswersKnown'
      BY <2>u, <3>4 DEF Inv, AnswersKnown, StoredAs
    <3>13. ASSUME NEW t \in Slot
           PROVE  SlotInv(server[t])'
      <4>1. CASE t = s
        <5>1. server'[t] = won
          BY <3>1, <4>1 DEF TypeOK
        <5>2. /\ won.request = server[s].request /\ won.revision = rev
              /\ won.need = server[s].need /\ won.response = server[s].response
              /\ won.stored = Len(history) + 1
          BY <1>0 DEF ServerOp
        <5> HIDE DEF won
        <5> QED BY <2>0, <2>u, <3>4, <3>5, <5>1, <5>2
                DEF SlotInv, Known, StoredAs, clientVars
      <4>2. CASE t # s
        <5>1. server'[t] = server[t] /\ SlotInv(server[t])
          BY <3>1, <4>2 DEF TypeOK, Inv
        <5> QED BY <2>u, <3>4, <5>1 DEF SlotInv, Known, StoredAs, clientVars
      <4> QED BY <4>1, <4>2
    <3> QED BY <3>7, <3>8, <3>9, <3>10, <3>11, <3>12, <3>13 DEF Inv
  <2>2. CASE ~holds
    <3>1. server' = [server EXCEPT ![s] = lost] /\ UNCHANGED history
      BY <1>4, <2>2 DEF HostStore
    <3>2. SlotInv(lost)
      BY <1>0 DEF SlotInv, ServerOp
    <3> HIDE DEF lost
    <3> QED BY <1>a, <2>u, <3>1, <3>2, SlotFrame DEF storeVars
  <2> QED BY <2>1, <2>2
<1>5. ASSUME NEW usable \in BOOLEAN, SupplyWritten(s, usable)
      PROVE  Inv'
  <2>1. SlotInv(Written(server[s], usable))
    <3>1. server[s].cas = "conflict" \/ server[s].cas = "stored"
      BY <1>0, <1>5 DEF SupplyWritten, ServerOp
    <3>2. CASE server[s].cas = "conflict"
      BY <1>0, <3>2 DEF SlotInv, Written, ServerOp
    <3>3. CASE server[s].cas = "stored"
      BY <1>0, <3>3 DEF SlotInv, Written, ServerOp
    <3> QED BY <3>1, <3>2, <3>3
  <2> QED BY <1>5, <1>a, <2>1, SlotFrame DEF SupplyWritten, storeVars
<1>6. CASE FinishServer(s)
  <2>1. UNCHANGED <<clientVars, wire, storeVars>>
        /\ server' = [server EXCEPT ![s] = IdleSlot]
    BY <1>6 DEF FinishServer
  <2>2. AnswersKnown'
    BY <1>0, <1>6 DEF FinishServer, Inv, AnswersKnown, Answer, SlotInv, StoredAs, storeVars
  <2> QED BY <1>t, <2>1, <2>2, SlotFrame
<1>7. CASE Crash(s)
  BY <1>7, <1>a, <1>t, SlotFrame DEF Crash, storeVars
<1> QED BY <1>1, <1>2, <1>3, <1>4, <1>5, <1>6, <1>7 DEF ServerStep

(* The inductive invariant holds throughout, for every number of clients,   *)
(* slots and operations.                                                    *)
THEOREM InvCorrect == Spec => []Inv
<1>1. Init => Inv
  <2> SUFFICES ASSUME Init PROVE Inv
    OBVIOUS
  <2>1. Len(history) = 0
    BY DEF Init
  <2>2. NoLostUpdate /\ OnlyAuthorizedStores /\ AnswersKnown /\ RequestsKnown
    BY <2>1 DEF Init, NoLostUpdate, OnlyAuthorizedStores, AnswersKnown, RequestsKnown,
                Write
  <2>3. OkIsMine /\ RevisionDerives
    BY DEF Init, OkIsMine, RevisionDerives, Pending
  <2>4. \A s \in Slot : SlotInv(server[s])
    BY DEF Init, SlotInv, IdleSlot
  <2> QED BY <2>2, <2>3, <2>4 DEF Inv
<1>2. TypeOK /\ Inv /\ [Next]_vars => Inv'
  <2> SUFFICES ASSUME TypeOK, Inv, [Next]_vars PROVE Inv'
    OBVIOUS
  <2>1. CASE Next
    BY <2>1, ClientInv, ServerInv DEF Next
  <2>2. CASE UNCHANGED vars
    BY <2>2, Frame DEF vars, clientVars, storeVars, Inv, RequestsKnown, RevisionDerives,
                       OkIsMine, AnswersKnown, StoredAs
  <2> QED BY <2>1, <2>2
<1> QED BY <1>1, <1>2, TypeCorrect, PTL DEF Spec

(* No edit silently replaces one its author had not seen, whatever the      *)
(* network and the application do with requests and replies.                *)
THEOREM NoLostUpdateHolds == Spec => []NoLostUpdate
<1>1. Inv => NoLostUpdate
  BY DEF Inv
<1> QED BY <1>1, InvCorrect, PTL

(* An operation that answers Ok was stored under the very tag it names.     *)
THEOREM OkIsMineHolds == Spec => []OkIsMine
<1>1. Inv => OkIsMine
  BY DEF Inv
<1> QED BY <1>1, InvCorrect, PTL

(* Nothing a refused client composed reaches the store.                     *)
THEOREM OnlyAuthorizedStoresHolds == Spec => []OnlyAuthorizedStores
<1>1. Inv => OnlyAuthorizedStores
  BY DEF Inv
<1> QED BY <1>1, InvCorrect, PTL

-------------------------------------------------------------------------------
(* Refinement *)

(* Every step of the operations, wire and host is a step of VersionChain or *)
(* leaves its state alone.                                                  *)
LEMMA StepRefines ==
  ASSUME TypeOK, Inv, [Next]_vars
  PROVE  [Chain!Next]_(Chain!vars)
<1>0. Len(history) \in Nat
  BY DEF TypeOK
<1>b. ASSUME NEW c \in Client, NEW r, NEW v \in 0..Len(history) \cup {None},
             r.op = ops[c] + 1, Begin(c, r, v)
      PROVE  [Chain!Next]_(Chain!vars)
  <2>1. ops[c] + 1 \in OpNumber /\ ops[c] + 1 > ops[c]
    <3>1. ops[c] \in 0..MaxOps /\ WithinQuota(c)
      BY <1>b DEF Begin, TypeOK
    <3> QED BY <3>1, QuotaLeaves
  <2>2. basis[<<c, r.op>>] = None /\ <<c, r.op>> \in Write
    BY <1>b, <2>1 DEF Inv, RequestsKnown, Write
  <2>3. CASE v = None
    <3>1. basis' = basis
      BY <1>b, <2>2, <2>3 DEF Begin, TypeOK
    <3> QED BY <1>b, <3>1 DEF Begin, Chain!vars
  <2>4. CASE v \in 0..Len(history)
    <3>1. Chain!Compose(<<c, r.op>>, v)
      BY <1>b, <2>2, <2>4 DEF Begin, Chain!Compose
    <3> QED BY <2>2, <2>4, <3>1 DEF Chain!Next
  <2> QED BY <2>3, <2>4
<1>1. ASSUME NEW c \in Client, ClientStep(c)
      PROVE  [Chain!Next]_(Chain!vars)
  <2>1. CASE ConditionalWrite(c)
    <3>1. seen[c] \in 0..Len(history)
      BY <1>0 DEF Inv, RevisionDerives, TypeOK
    <3> QED BY <1>b, <2>1, <3>1 DEF ConditionalWrite, PutFor
  <2>2. ASSUME NEW ifMatch \in 0..Len(history), NEW weak \in BOOLEAN,
               NEW wellFormed \in BOOLEAN,
               NEW ifNoneMatch \in {"missing", "star", "other"},
               ForeignWrite(c, ifMatch, weak, ifNoneMatch, wellFormed)
        PROVE  [Chain!Next]_(Chain!vars)
    <3> DEFINE r == [client |-> c, op |-> ops[c] + 1, ifMatch |-> ifMatch,
                     weak |-> weak, ifNoneMatch |-> ifNoneMatch,
                     wellFormed |-> wellFormed]
               v == IF (\/ ifMatch # 0 /\ ~weak /\ ifNoneMatch = "missing"
                        \/ ifMatch = 0 /\ ifNoneMatch = "star") /\ wellFormed
                    THEN ifMatch ELSE None
    <3>1. v \in 0..Len(history) \cup {None}
      OBVIOUS
    <3>2. Begin(c, r, v) /\ r.op = ops[c] + 1
      BY <2>2 DEF ForeignWrite
    <3> HIDE DEF r, v
    <3> QED BY <1>b, <3>1, <3>2
  <2>3. CASE \/ \E v \in 0..Len(history) : Read(c, v)
             \/ Transmit(c)
             \/ \E reply \in replies, header \in {"strong", "weak", "missing"},
                   oversized \in BOOLEAN : Accept(c, reply, header, oversized)
             \/ Finish(c)
    BY <2>3 DEF Read, Transmit, Accept, Finish, storeVars, Chain!vars
  <2> QED BY <1>1, <2>1, <2>2, <2>3 DEF ClientStep
<1>2. ASSUME NEW s \in Slot, ServerStep(s)
      PROVE  [Chain!Next]_(Chain!vars)
  <2>1. CASE HostStore(s)
    <3> DEFINE r == server[s].request
               rev == server[s].revision
               w == <<r.client, r.op>>
               holds == IF rev.absent THEN Len(history) = 0
                        ELSE rev.tag = Len(history) /\ Len(history) # 0
    <3>1. r \in Request /\ Known(r) /\ rev = StatedRevision(r) /\ rev # None
      <4>1. server[s] \in ServerOp /\ SlotInv(server[s]) /\ server[s].need = "write"
        BY <2>1 DEF TypeOK, Inv, HostStore, Wanting
      <4>2. r # None
        BY <4>1 DEF TypeOK, IdleSlot
      <4> QED BY <4>1, <4>2 DEF ServerOp, SlotInv
    <3>2. CASE holds
      <4>1. basis[w] = rev.tag /\ rev.tag = r.ifMatch /\ (rev.absent => r.ifMatch = 0)
        BY <3>1, StatedRevisionType DEF Known
      <4>2. basis[w] = Len(history)
        BY <3>2, <4>1
      <4>3. history' = Append(history, w) /\ UNCHANGED basis
        BY <2>1, <3>2 DEF HostStore
      <4>4. w \in Write
        BY <3>1 DEF Request, Write
      <4>5. Chain!Commit(w)
        BY <4>2, <4>3 DEF Chain!Commit
      <4> HIDE DEF w
      <4> QED BY <4>4, <4>5 DEF Chain!Next
    <3>3. CASE ~holds
      BY <2>1, <3>3 DEF HostStore, Chain!vars
    <3> QED BY <3>2, <3>3
  <2>2. CASE \/ \E r \in wire : Handle(s, r)
             \/ SupplyMismatch(s)
             \/ SupplyAuthorized(s)
             \/ \E usable \in BOOLEAN : SupplyWritten(s, usable)
             \/ FinishServer(s)
             \/ Crash(s)
    BY <2>2 DEF Handle, SupplyMismatch, SupplyAuthorized, SupplyWritten, FinishServer,
                Crash, storeVars, Chain!vars
  <2> QED BY <1>2, <2>1, <2>2 DEF ServerStep
<1>3. CASE UNCHANGED vars
  BY <1>3 DEF vars, storeVars, Chain!vars
<1> QED BY <1>1, <1>2, <1>3 DEF Next

(* The whole protocol, clients, network, server operations and host,        *)
(* implements the versioned register: at most one effect per write, and     *)
(* only on top of the version it was composed against.                      *)
THEOREM Refinement == Spec => ImplementsVersionChain
<1>1. Init => Chain!Init
  BY DEF Init, Chain!Init
<1>2. TypeOK /\ Inv /\ [Next]_vars => [Chain!Next]_(Chain!vars)
  BY StepRefines
<1> QED BY <1>1, <1>2, TypeCorrect, InvCorrect, PTL
     DEF Spec, ImplementsVersionChain, Chain!Spec

===============================================================================
