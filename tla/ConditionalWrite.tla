--------------------------- MODULE ConditionalWrite ---------------------------
(***************************************************************************)
(* One CalDAV resource written by several clients through sans-I/O         *)
(* operations: Client::conditional_write and Operation on one side,        *)
(* Server::handle_put and ServerOperation on the other, and between them   *)
(* an application that carries the bytes, retries, gives up, crashes and   *)
(* keeps the store.                                                        *)
(*                                                                         *)
(* Version n of the resource carries the strong entity tag n; 0 is "no     *)
(* tag".  A request stays on the wire once sent, so it may be delivered    *)
(* late, twice or never.                                                   *)
(***************************************************************************)
EXTENDS Naturals, Sequences

CONSTANTS Client,   \* writers
          Foreign,  \* the writers whose PUT icalkit did not compose
          Allowed,  \* the writers the host's access control admits
          Slot,     \* server operations the host runs concurrently
          MaxOps,   \* bound: operations any client starts
          Quotas,   \* bound: operations each client starts, in one of these ways
          Headers,  \* bound: what the PUTs of other makes say beside a tag
          None      \* Rust's None

ASSUME ConstantAssumption == /\ Foreign \subseteq Client
                             /\ Allowed \subseteq Client
                             /\ MaxOps \in Nat
                             /\ Quotas \subseteq [Client -> 0..MaxOps]

OpNumber == 1..MaxOps
Write == Client \X OpNumber
Tag == Nat

Revision == [absent : BOOLEAN, tag : Tag]

(* The parts of a PUT that PutRequest::parse looks at: If-Match (a tag, and *)
(* whether it is weak), If-None-Match, and whether content type, header     *)
(* octets and body are acceptable.                                          *)
Request == [client : Client, op : OpNumber,
            ifMatch : Tag, weak : BOOLEAN,
            ifNoneMatch : {"missing", "star", "other"},
            wellFormed : BOOLEAN]

Status == {201, 204, 400, 403, 412, 500}
Reply == [client : Client, op : OpNumber, status : Status, tag : Tag]
Response == [status : Status, tag : Tag]
Outcome == [kind : {"none", "ok", "err"}, tag : Tag]

ServerOp == [request : Request \cup {None},
             need : {"none", "authorize", "write"},
             responder : BOOLEAN,
             revision : Revision \cup {None},
             cas : {"untried", "conflict", "stored"},
             stored : Tag,
             response : Response \cup {None}]

ASSUME NoneAssumption == /\ None \notin Nat
                         /\ None \notin Request
                         /\ None \notin Revision
                         /\ None \notin Response

VARIABLES
  revision,   \* the Revision each client holds for the resource
  seen,       \* the version each client's working copy derives from
  ops,        \* operations each client has started
  request,    \* Operation::request
  decoder,    \* Operation::decoder is still there
  result,     \* Operation::result
  wire,       \* requests the application has sent
  server,     \* the host's ServerOperations
  replies,    \* responses on their way back
  history,    \* the store: the write that made each version
  basis       \* the version each write was composed against

clientVars == <<revision, seen, ops, request, decoder, result>>
storeVars == <<history, basis>>
vars == <<clientVars, wire, server, replies, storeVars>>

IdleSlot == [request |-> None, need |-> "none", responder |-> FALSE,
             revision |-> None, cas |-> "untried", stored |-> 0,
             response |-> None]

Pending == [kind |-> "none", tag |-> 0]
Failed == [kind |-> "err", tag |-> 0]

Init ==
  /\ revision = [c \in Client |-> [absent |-> TRUE, tag |-> 0]]
  /\ seen = [c \in Client |-> 0]
  /\ ops = [c \in Client |-> 0]
  /\ request = [c \in Client |-> None]
  /\ decoder = [c \in Client |-> FALSE]
  /\ result = [c \in Client |-> Pending]
  /\ wire = {}
  /\ server = [s \in Slot |-> IdleSlot]
  /\ replies = {}
  /\ history = <<>>
  /\ basis = [w \in Write |-> None]

-------------------------------------------------------------------------------
(* The client *)

HasOperation(c) == request[c] # None \/ result[c].kind # "none"

RevisionOf(v) == [absent |-> v = 0, tag |-> v]

(* What each client has started so far, and one operation more of c, is     *)
(* within one of the quotas.                                                *)
WithinQuota(c) ==
  \E quota \in Quotas : ops[c] < quota[c] /\ \A d \in Client : ops[d] <= quota[d]

(* Between operations a client reads the resource, perhaps from a stale     *)
(* cache, and keeps Revision::stored or Revision::absent beside the copy.   *)
(* A client of another make holds no Revision.  Bound: a client reads what  *)
(* it may yet write.                                                        *)
Read(c, v) ==
  /\ c \notin Foreign /\ ~HasOperation(c) /\ WithinQuota(c)
  /\ v \in 0..Len(history)
  /\ revision' = [revision EXCEPT ![c] = RevisionOf(v)]
  /\ seen' = [seen EXCEPT ![c] = v]
  /\ UNCHANGED <<ops, request, decoder, result, wire, server, replies, storeVars>>

(* Operation::from_decoder: request and decoder present, no result.         *)
Begin(c, r, v) ==
  /\ ~HasOperation(c)
  /\ WithinQuota(c)
  /\ ops' = [ops EXCEPT ![c] = @ + 1]
  /\ request' = [request EXCEPT ![c] = r]
  /\ decoder' = [decoder EXCEPT ![c] = TRUE]
  /\ basis' = [basis EXCEPT ![<<c, r.op>>] = v]
  /\ UNCHANGED <<revision, seen, result, wire, server, replies, history>>

PutFor(c, rev) ==
  [client |-> c, op |-> ops[c] + 1,
   ifMatch |-> IF rev.absent THEN 0 ELSE rev.tag,
   weak |-> FALSE,
   ifNoneMatch |-> IF rev.absent THEN "star" ELSE "missing",
   wellFormed |-> TRUE]

(* Client::conditional_write refuses a stored revision without a tag        *)
(* ("revision-unusable"); every other revision becomes exactly one header.  *)
ConditionalWrite(c) ==
  /\ c \notin Foreign
  /\ revision[c].absent \/ revision[c].tag # 0
  /\ Begin(c, PutFor(c, revision[c]), seen[c])

(* A client of another make may combine the headers any way it likes.  Only *)
(* a lone strong If-Match or a lone If-None-Match: * says what it has seen. *)
ForeignWrite(c, ifMatch, weak, ifNoneMatch, wellFormed) ==
  /\ c \in Foreign
  /\ [weak |-> weak, ifNoneMatch |-> ifNoneMatch, wellFormed |-> wellFormed] \in Headers
  /\ weak => ifMatch # 0
  /\ ifMatch \in 0..Len(history)
  /\ LET states == \/ ifMatch # 0 /\ ~weak /\ ifNoneMatch = "missing"
                   \/ ifMatch = 0 /\ ifNoneMatch = "star"
     IN  Begin(c, [client |-> c, op |-> ops[c] + 1, ifMatch |-> ifMatch,
                   weak |-> weak, ifNoneMatch |-> ifNoneMatch,
                   wellFormed |-> wellFormed],
               IF states /\ wellFormed THEN ifMatch ELSE None)

(* The application sends what next_request shows; it may do so again.       *)
Transmit(c) ==
  /\ request[c] # None
  /\ wire' = wire \cup {request[c]}
  /\ UNCHANGED <<clientVars, server, replies, storeVars>>

(* Mutant: any status counts as a stored write.                             *)
DecodeAnyStatus(reply, header, oversized) ==
  IF oversized \/ header = "weak" THEN Failed
  ELSE [kind |-> "ok", tag |-> IF header = "missing" THEN 0 ELSE reply.tag]

(* conditional_write's decoder, after Operation::accept has bounded the     *)
(* body.  An intermediary may strip the ETag header or weaken it.           *)
Decode(reply, header, oversized) ==
  IF oversized \/ reply.status \notin {200, 201, 204} \/ header = "weak"
  THEN Failed
  ELSE [kind |-> "ok", tag |-> IF header = "missing" THEN 0 ELSE reply.tag]

(* Operation::accept takes request and decoder before it looks at anything. *)
Accept(c, reply, header, oversized) ==
  /\ request[c] # None
  /\ decoder[c]
  /\ reply.client = c /\ reply.op = ops[c]
  /\ request' = [request EXCEPT ![c] = None]
  /\ decoder' = [decoder EXCEPT ![c] = FALSE]
  /\ result' = [result EXCEPT ![c] = Decode(reply, header, oversized)]
  /\ UNCHANGED <<revision, seen, ops, wire, server, replies, storeVars>>

(* Operation::finish consumes the operation whether or not it completed: an *)
(* incomplete one fails, and its request may still be under way.            *)
Finish(c) ==
  /\ HasOperation(c)
  /\ request' = [request EXCEPT ![c] = None]
  /\ decoder' = [decoder EXCEPT ![c] = FALSE]
  /\ result' = [result EXCEPT ![c] = Pending]
  /\ IF result[c].kind = "ok"
     THEN /\ revision' = [revision EXCEPT ![c] =
                            [absent |-> FALSE, tag |-> result[c].tag]]
          /\ seen' = [seen EXCEPT ![c] = result[c].tag]
     ELSE UNCHANGED <<revision, seen>>
  /\ UNCHANGED <<ops, wire, server, replies, storeVars>>

-------------------------------------------------------------------------------
(* The server *)

(* Mutant: If-None-Match is not looked at when If-Match is there.           *)
StatedRevisionBoth(r) ==
  IF r.wellFormed /\ r.ifMatch # 0 /\ ~r.weak THEN [absent |-> FALSE, tag |-> r.ifMatch]
  ELSE IF r.wellFormed /\ r.ifNoneMatch = "star" THEN [absent |-> TRUE, tag |-> 0]
  ELSE None

(* Mutant: the current revision is taken for the one the PUT states.        *)
StatedRevisionCurrent(r) == RevisionOf(Len(history))

(* PutRequest::parse: the revision a PUT states, None where it is refused.  *)
StatedRevision(r) ==
  CASE r.wellFormed /\ r.ifMatch # 0 /\ ~r.weak /\ r.ifNoneMatch = "missing" ->
         [absent |-> FALSE, tag |-> r.ifMatch]
    [] r.wellFormed /\ r.ifMatch = 0 /\ r.ifNoneMatch = "star" ->
         [absent |-> TRUE, tag |-> 0]
    [] OTHER -> None

Answer(r, response) ==
  [client |-> r.client, op |-> r.op, status |-> response.status, tag |-> response.tag]

(* Server::handle_put: refused before anybody is asked anything, or an      *)
(* operation whose first need is authorization.                             *)
Handle(s, r) ==
  /\ server[s].request = None
  /\ r \in wire
  /\ IF StatedRevision(r) = None
     THEN /\ replies' = replies \cup {Answer(r, [status |-> 400, tag |-> 0])}
          /\ UNCHANGED server
     ELSE /\ server' = [server EXCEPT ![s] =
                          [IdleSlot EXCEPT !.request = r, !.need = "authorize",
                                           !.responder = TRUE,
                                           !.revision = StatedRevision(r)]]
          /\ UNCHANGED replies
  /\ UNCHANGED <<clientVars, wire, storeVars>>

Wanting(s, need) == server[s].need = need /\ server[s].responder

(* ServerOperation::supply takes need and responder first, so an answer of  *)
(* the wrong kind leaves an operation that can only fail.                   *)
SupplyMismatch(s) ==
  /\ server[s].need # "none" /\ server[s].responder
  /\ server' = [server EXCEPT ![s].need = "none", ![s].responder = FALSE]
  /\ UNCHANGED <<clientVars, wire, replies, storeVars>>

(* Mutant: the answer to the authorization need is not looked at.           *)
AuthorizedAlways(op, allowed) == [op EXCEPT !.need = "write"]

Authorized(op, allowed) ==
  IF allowed THEN [op EXCEPT !.need = "write"]
  ELSE [op EXCEPT !.need = "none", !.responder = FALSE,
                  !.response = [status |-> 403, tag |-> 0]]

SupplyAuthorized(s) ==
  /\ Wanting(s, "authorize")
  /\ server' = [server EXCEPT ![s] =
                  Authorized(@, server[s].request.client \in Allowed)]
  /\ UNCHANGED <<clientVars, wire, replies, storeVars>>

(* The host's conditional store, external: it compares and writes in one    *)
(* step, and does so before it answers the need.                            *)
HostStore(s) ==
  /\ Wanting(s, "write")
  /\ server[s].cas = "untried"
  /\ LET rev == server[s].revision
         current == Len(history)
         holds == IF rev.absent THEN current = 0 ELSE rev.tag = current /\ current # 0
     IN  IF holds
         THEN /\ history' = Append(history, <<server[s].request.client,
                                              server[s].request.op>>)
              /\ server' = [server EXCEPT ![s].cas = "stored",
                                          ![s].stored = current + 1]
         ELSE /\ server' = [server EXCEPT ![s].cas = "conflict"]
              /\ UNCHANGED history
  /\ UNCHANGED <<clientVars, wire, replies, basis>>

(* Mutant: a conflict is answered like a write that took place.             *)
WrittenDespiteConflict(op, usable) ==
  [op EXCEPT !.need = "none", !.responder = FALSE,
             !.response = [status |-> IF op.revision.absent THEN 201 ELSE 204,
                           tag |-> op.stored]]

(* handle_put's second responder.  "usable": the stored revision names this *)
(* resource and has a tag; otherwise the write is in the store and the      *)
(* operation still fails.                                                   *)
Written(op, usable) ==
  LET done == [op EXCEPT !.need = "none", !.responder = FALSE]
  IN  IF op.cas = "conflict"
      THEN [done EXCEPT !.response = [status |-> 412, tag |-> 0]]
      ELSE IF ~usable THEN done
      ELSE [done EXCEPT !.response =
              [status |-> IF op.revision.absent THEN 201 ELSE 204, tag |-> op.stored]]

SupplyWritten(s, usable) ==
  /\ Wanting(s, "write")
  /\ server[s].cas # "untried"
  /\ server' = [server EXCEPT ![s] = Written(@, usable)]
  /\ UNCHANGED <<clientVars, wire, replies, storeVars>>

(* ServerOperation::finish yields the response or fails; the host turns a   *)
(* failure into a 500.                                                      *)
FinishServer(s) ==
  /\ server[s].request # None
  /\ replies' = replies \cup
       {Answer(server[s].request, IF server[s].response # None THEN server[s].response
                                  ELSE [status |-> 500, tag |-> 0])}
  /\ server' = [server EXCEPT ![s] = IdleSlot]
  /\ UNCHANGED <<clientVars, wire, storeVars>>

(* The host restarts: the operation is memory, the store is not.            *)
Crash(s) ==
  /\ server[s].request # None
  /\ server' = [server EXCEPT ![s] = IdleSlot]
  /\ UNCHANGED <<clientVars, wire, replies, storeVars>>

-------------------------------------------------------------------------------
ClientStep(c) ==
  \/ \E v \in 0..Len(history) : Read(c, v)
  \/ ConditionalWrite(c)
  \/ \E ifMatch \in 0..Len(history), weak, wellFormed \in BOOLEAN,
        ifNoneMatch \in {"missing", "star", "other"} :
       ForeignWrite(c, ifMatch, weak, ifNoneMatch, wellFormed)
  \/ Transmit(c)
  \/ \E reply \in replies, header \in {"strong", "weak", "missing"},
        oversized \in BOOLEAN : Accept(c, reply, header, oversized)
  \/ Finish(c)

ServerStep(s) ==
  \/ \E r \in wire : Handle(s, r)
  \/ SupplyMismatch(s)
  \/ SupplyAuthorized(s)
  \/ HostStore(s)
  \/ \E usable \in BOOLEAN : SupplyWritten(s, usable)
  \/ FinishServer(s)
  \/ Crash(s)

Next == \/ \E c \in Client : ClientStep(c)
        \/ \E s \in Slot : ServerStep(s)

Spec == Init /\ [][Next]_vars

-------------------------------------------------------------------------------
(* Properties *)

(* The shape of the two operation structs, the wire and the store.          *)
TypeOK ==
  /\ revision \in [Client -> Revision]
  /\ seen \in [Client -> Nat]
  /\ ops \in [Client -> 0..MaxOps]
  /\ request \in [Client -> Request \cup {None}]
  /\ decoder \in [Client -> BOOLEAN]
  /\ result \in [Client -> Outcome]
  /\ wire \in SUBSET Request
  /\ server \in [Slot -> ServerOp]
  /\ replies \in SUBSET Reply
  /\ history \in Seq(Write)
  /\ basis \in [Write -> Nat \cup {None}]
  /\ \A s \in Slot : server[s].request = None => server[s] = IdleSlot

(* Every version was written by someone whose working copy derived from the *)
(* version it replaced: whatever is retried, duplicated, reordered or lost  *)
(* between conditional_write and handle_put, no edit silently replaces one  *)
(* its author had not seen, and a PUT whose headers state no single strong  *)
(* precondition is never stored at all.                                     *)
NoLostUpdate ==
  \A n \in 1..Len(history) : basis[history[n]] = n - 1

(* The write w is in the store as version n. *)
StoredAs(w, n) == n \in 1..Len(history) /\ history[n] = w

(* An operation that answers Ok was stored, as the very version its         *)
(* Revision names: Operation::finish never hands out a tag under which      *)
(* another writer's octets are kept.                                        *)
OkIsMine ==
  \A c \in Client :
    result[c].kind = "ok" =>
      /\ \E n \in 1..Len(history) : StoredAs(<<c, ops[c]>>, n)
      /\ result[c].tag # 0 => StoredAs(<<c, ops[c]>>, result[c].tag)

(* Nothing a client the host refused composed is ever stored: handle_put    *)
(* discloses the write need only to an affirmative authorization answer.    *)
OnlyAuthorizedStores ==
  \A n \in 1..Len(history) : history[n][1] \in Allowed

(* What makes those inductive.  A client's revision says what its copy      *)
(* derives from; a request is known to its client and states the version    *)
(* it was composed against, wherever it is; a slot holds what its request   *)
(* stated; a success, once answered, points at its own version.             *)
RevisionDerives ==
  \A c \in Client : /\ seen[c] <= Len(history)
                    /\ IF revision[c].absent THEN seen[c] = 0
                       ELSE revision[c].tag \in {0, seen[c]}

Known(r) ==
  /\ r.op <= ops[r.client]
  /\ StatedRevision(r) # None => basis[<<r.client, r.op>>] = StatedRevision(r).tag

RequestsKnown ==
  /\ \A r \in wire : Known(r)
  /\ \A c \in Client : request[c] # None => request[c].client = c /\ Known(request[c])
  /\ \A n \in 1..Len(history) : history[n][2] <= ops[history[n][1]]
  /\ \A c \in Client, k \in OpNumber : k > ops[c] => basis[<<c, k>>] = None

SlotInv(op) ==
  op.request # None =>
    LET w == <<op.request.client, op.request.op>>
    IN  /\ Known(op.request)
        /\ op.revision # None
        /\ op.revision = StatedRevision(op.request)
        /\ op.need = "write" => op.request.client \in Allowed
        /\ op.cas = "stored" => StoredAs(w, op.stored)
        /\ op.response # None /\ op.response.status \in {201, 204} =>
             StoredAs(w, op.response.tag)

AnswersKnown ==
  \A reply \in replies :
    reply.status \in {201, 204} => StoredAs(<<reply.client, reply.op>>, reply.tag)

(* The inductive invariant: every operation, request, slot and reply agrees *)
(* with the store about which write it belongs to and what that write saw.  *)
Inv == /\ NoLostUpdate
       /\ OkIsMine
       /\ OnlyAuthorizedStores
       /\ RevisionDerives
       /\ RequestsKnown
       /\ \A s \in Slot : SlotInv(server[s])
       /\ AnswersKnown

(* The operations, the wire and the host together implement the versioned   *)
(* register of VersionChain: each write composed once, against one version, *)
(* and taking effect only on top of it.                                     *)
Chain == INSTANCE VersionChain WITH Unset <- None
ImplementsVersionChain == Chain!Spec

===============================================================================
