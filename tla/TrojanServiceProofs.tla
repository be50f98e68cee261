------------------------ MODULE TrojanServiceProofs ------------------------
(***************************************************************************)
(* Proofs about TrojanService for every set of connections and every       *)
(* capacity.                                                               *)
(*                                                                         *)
(* The inductive invariant says what a handler holds at each of its        *)
(* places: its sockets and its entry in s.connections (PlaceInv), its      *)
(* admission and website slots (HoldsInv), what it has charged             *)
(* (PayloadInv) and what it has told the kernel (PublishedInv).  A step    *)
(* of a handler keeps everything that other connections hold (Kept), so    *)
(* each action is looked at for its own connection only.  The counters of  *)
(* slots are compared with sets that are finite because a step changes     *)
(* them by one connection.                                                 *)
(***************************************************************************)
EXTENDS TrojanService, FiniteSetTheorems, TLAPS

\* Most leaves are first-order reasoning; those with arithmetic or larger
\* expressions over records and functions cite SMT.
USE Zenon

Places == {"outside", "done"} \cup Running
Unserved == {"handshake", "header", "refuse"}
Served == {"publish", "relay", "half", "closing"}   \* setUpstream has succeeded

Handlers == [at : Places, kind : {"none", "tcp", "udp", "website"},
             pending : BOOLEAN, slot : BOOLEAN]
Copies == [Directions -> {"none", "read", "admit", "write", "eof", "failed"}]
Counts == [Directions -> Nat]

TypeOK ==
    /\ serve \in {"accept", "admitted", "returned"}
    /\ accepted \in SUBSET Conns
    /\ handler \in [Conns -> Handlers]
    /\ client \in SUBSET Conns /\ upstream \in SUBSET Conns
    /\ registered \in [Conns -> {"no", "client", "both"}]
    /\ pending \in Int /\ website \in Int
    /\ copy \in [Conns -> Copies]
    /\ DOMAIN table \subseteq Conns /\ table \in [DOMAIN table -> SUBSET {1}]
    /\ online \in SUBSET Conns
    /\ charged \in [Conns -> Counts] /\ forwarded \in [Conns -> Counts]
    /\ closer \in {"idle", "closed", "waiting", "returned"}

PlaceInv(c) ==
    /\ c \in accepted => At(c, "outside")
    /\ c \in client => c \in accepted \/ handler[c].at \in Running
    /\ c \in upstream => handler[c].at \in Served \cup {"dialed"}
    /\ handler[c].at \in Unserved \cup {"dial", "dialed"} => registered[c] = "client"
    /\ handler[c].at \in Served => registered[c] = "both"
    /\ closer \in {"waiting", "returned"} /\ c \in upstream => At(c, "dialed")
    /\ closer = "returned" => handler[c].at \notin Running

HoldsInv(c) ==
    /\ handler[c].at \in Unserved => handler[c].pending
    /\ handler[c].at \notin Unserved \cup {"cleanup"} => ~handler[c].pending
    /\ handler[c].at \in Unserved \cup {"outside"} =>
          ~handler[c].slot /\ handler[c].kind = "none"

\* A payload between Admit and Write is charged and not forwarded.
PayloadInv(c) ==
    handler[c].kind # "website" => \A d \in Directions :
        /\ forwarded[c][d] <= charged[c][d]
        /\ copy[c][d] = "write" => forwarded[c][d] < charged[c][d]

PublishedInv(c) ==
    /\ c \in DOMAIN table \/ c \in online =>
          /\ handler[c].at \in Served \cup {"withdraw"} /\ handler[c].kind # "website"
          /\ c \in DOMAIN table
    /\ At(c, "publish") => handler[c].kind # "website"
    /\ At(c, "publish") /\ c \in DOMAIN table => table[c] = {}
    /\ handler[c].at \in {"relay", "half", "closing"} /\ handler[c].kind # "website"
          => c \in online /\ table[c] = {1}
    /\ At(c, "withdraw") => c \in DOMAIN table
    /\ At(c, "withdraw") /\ c \notin online => table[c] = {}

ConnInv(c) == PlaceInv(c) /\ HoldsInv(c) /\ PayloadInv(c) /\ PublishedInv(c)

\* The accept loop has at most one connection in its hands.
AcceptInv == (serve = "admitted" <=> accepted # {}) /\ \A c, d \in accepted : c = d

Pend == {c \in Conns : handler[c].pending}
Web == {c \in Conns : handler[c].slot}

CountInv ==
    /\ IsFiniteSet(Pend) /\ IsFiniteSet(Web)
    /\ pending = Cardinality(accepted) + Cardinality(Pend)
    /\ website = Cardinality(Web)
    /\ pending <= MaxPending /\ website <= MaxWebsite

IndInv == TypeOK /\ AcceptInv /\ CountInv /\ \A c \in Conns : ConnInv(c)
----------------------------------------------------------------------------

\* What a step of c does to its handler, as far as the invariant looks at it.
Becomes(c, at, kind, holds, slot) ==
    /\ handler' \in [Conns -> Handlers]
    /\ handler'[c].at = at /\ handler'[c].kind = kind
    /\ handler'[c].pending = holds /\ handler'[c].slot = slot
    /\ \A e \in Conns : e # c => handler'[e] = handler[e]

\* Only the place changes.
Moves(c, p) == Becomes(c, p, handler[c].kind, handler[c].pending, handler[c].slot)

\* The connection e keeps what it has.
Kept(e) ==
    /\ handler'[e] = handler[e] /\ registered'[e] = registered[e]
    /\ copy'[e] = copy[e] /\ charged'[e] = charged[e] /\ forwarded'[e] = forwarded[e]
    /\ e \in accepted' <=> e \in accepted
    /\ e \in client' <=> e \in client
    /\ e \in upstream' <=> e \in upstream
    /\ e \in online' <=> e \in online
    /\ e \in DOMAIN table' <=> e \in DOMAIN table
    /\ e \in DOMAIN table => table'[e] = table[e]

\* A step of c alone.
StepOf(c) ==
    /\ TypeOK' /\ ConnInv(c)' /\ closer' = closer
    /\ \A e \in Conns : e # c => Kept(e)

\* Go changes the place of a handler and nothing else.
LEMMA GoMoves ==
    ASSUME TypeOK, NEW c \in Conns, NEW p \in Places, Go(c, p)
    PROVE  Moves(c, p)
<1>1. handler \in [Conns -> Handlers]
  BY DEF TypeOK
<1> QED
  BY <1>1 DEF Go, Handlers, Becomes, Moves

\* Register starts a handler that owns the admission slot.
LEMMA RegisterBecomes ==
    ASSUME TypeOK, NEW c \in Conns,
           handler' = [handler EXCEPT ![c].at = "handshake", ![c].pending = TRUE]
    PROVE  Becomes(c, "handshake", handler[c].kind, TRUE, handler[c].slot)
<1>1. handler \in [Conns -> Handlers]
  BY DEF TypeOK
<1> QED
  BY <1>1 DEF Handlers, Becomes, Places, Running

\* LeavePending gives the admission slot up and takes one of the website.
LEMMA LeaveBecomes ==
    ASSUME TypeOK, NEW c \in Conns, NEW kind \in {"tcp", "udp", "website"},
           LeavePending(c, kind)
    PROVE  Becomes(c, "dial", kind, FALSE, kind = "website")
<1>1. handler \in [Conns -> Handlers]
  BY DEF TypeOK
<1>2. PICK slot \in BOOLEAN : slot = (kind = "website")
  OBVIOUS
<1>3. handler' = [handler EXCEPT ![c].at = "dial", ![c].kind = kind, ![c].pending = FALSE,
                                 ![c].slot = slot]
  BY <1>2 DEF LeavePending
<1>4. \A e \in Conns : e # c => handler'[e] = handler[e]
  BY <1>1, <1>3
<1>5. PICK h : h = handler[c] /\ h \in Handlers
  BY <1>1
<1>6. handler'[c] = [h EXCEPT !.at = "dial", !.kind = kind, !.pending = FALSE, !.slot = slot]
  BY <1>1, <1>3, <1>5
<1>7. handler' \in [Conns -> Handlers]
  <2>1. [h EXCEPT !.at = "dial", !.kind = kind, !.pending = FALSE, !.slot = slot] \in Handlers
    BY ZenonT(30), <1>5 DEF Handlers, Places, Running
  <2> QED
    BY <1>1, <1>3, <1>4, <1>6, <2>1
<1>8. /\ handler'[c].at = "dial" /\ handler'[c].kind = kind
      /\ handler'[c].pending = FALSE /\ handler'[c].slot = slot
  BY <1>5, <1>6 DEF Handlers
<1> QED
  BY <1>2, <1>4, <1>7, <1>8 DEF Becomes

\* The deferred function of handle leaves a handler that holds no slot.
LEMMA CleanupBecomes ==
    ASSUME TypeOK, NEW c \in Conns, Cleanup(c)
    PROVE  Becomes(c, "done", handler[c].kind, FALSE, FALSE)
<1>1. handler \in [Conns -> Handlers]
  BY DEF TypeOK
<1> QED
  BY ZenonT(30), <1>1 DEF Cleanup, Handlers, Becomes, Places, Running

\* Move changes the place of one copying goroutine.
LEMMA MoveCopies ==
    ASSUME TypeOK, NEW c \in Conns, NEW d \in Directions,
           NEW p \in {"none", "read", "admit", "write", "eof", "failed"}, Move(c, d, p)
    PROVE  /\ copy' \in [Conns -> Copies]
           /\ copy'[c][d] = p
           /\ \A f \in Directions : f # d => copy'[c][f] = copy[c][f]
           /\ \A e \in Conns : e # c => copy'[e] = copy[e]
  BY DEF TypeOK, Move, Copies

\* Admit charges one more payload in one direction.
LEMMA ChargesOne ==
    ASSUME TypeOK, NEW c \in Conns, NEW d \in Directions,
           charged' = [charged EXCEPT ![c][d] = @ + 1]
    PROVE  /\ charged' \in [Conns -> Counts]
           /\ charged'[c][d] = charged[c][d] + 1
           /\ \A f \in Directions : f # d => charged'[c][f] = charged[c][f]
           /\ \A e \in Conns : e # c => charged'[e] = charged[e]
  BY SMT DEF TypeOK, Counts

\* Write forwards one more payload in one direction.
LEMMA ForwardsOne ==
    ASSUME TypeOK, NEW c \in Conns, NEW d \in Directions,
           forwarded' = [forwarded EXCEPT ![c][d] = @ + 1]
    PROVE  /\ forwarded' \in [Conns -> Counts]
           /\ forwarded'[c][d] = forwarded[c][d] + 1
           /\ \A f \in Directions : f # d => forwarded'[c][f] = forwarded[c][f]
           /\ \A e \in Conns : e # c => forwarded'[e] = forwarded[e]
  BY SMT DEF TypeOK, Counts

\* A connection that keeps what it has keeps its invariant.
LEMMA KeptInv ==
    ASSUME NEW e \in Conns, ConnInv(e), Kept(e), closer' = closer
    PROVE  ConnInv(e)'
<1>1. PlaceInv(e)'
  BY DEF ConnInv, Kept, PlaceInv, At
<1>2. HoldsInv(e)'
  BY DEF ConnInv, Kept, HoldsInv
<1>3. PayloadInv(e)'
  BY DEF ConnInv, Kept, PayloadInv
<1>4. PublishedInv(e)'
  BY DEF ConnInv, Kept, PublishedInv, At
<1> QED
  BY <1>1, <1>2, <1>3, <1>4 DEF ConnInv

\* The accept loop admits a connection, or closes it at once.
LEMMA AcceptStep ==
    ASSUME TypeOK, NEW c \in Conns, ConnInv(c), AcceptInv, Accept(c)
    PROVE  StepOf(c)
<1>1. \/ /\ Moves(c, "done")
         /\ pending' = pending /\ serve' = serve /\ accepted' = accepted /\ client' = client
      \/ /\ handler' = handler /\ pending' = pending + 1 /\ serve' = "admitted"
         /\ accepted' = {c} /\ client' = client \cup {c}
  BY GoMoves DEF Accept, Places
<1>2. /\ At(c, "outside") /\ accepted = {} /\ ~Closed
      /\ UNCHANGED <<upstream, registered, website, relay, events, closer>>
  BY DEF Accept, AcceptInv
<1>3. TypeOK'
  BY SMT, <1>1, <1>2 DEF TypeOK, Becomes, Moves, sockets, relay, events, Closed
<1>4. \A e \in Conns : e # c => Kept(e)
  BY SMT, <1>1, <1>2 DEF TypeOK, Becomes, Moves, Kept, sockets, relay, events,
     Closed
<1>5. PlaceInv(c)'
  BY <1>1, <1>2 DEF TypeOK, Becomes, Moves, ConnInv, PlaceInv, At, Unserved,
     Served, Running, sockets, relay, events, Closed
<1>6. HoldsInv(c)'
  BY <1>1, <1>2 DEF TypeOK, Becomes, Moves, ConnInv, HoldsInv, At, Unserved,
     Served, Running, sockets, relay, events, Closed
<1>7. PayloadInv(c)'
  BY <1>1, <1>2 DEF TypeOK, Becomes, Moves, ConnInv, PayloadInv, sockets,
     relay, events, Closed
<1>8. PublishedInv(c)'
  BY <1>1, <1>2 DEF TypeOK, Becomes, Moves, ConnInv, PublishedInv, At,
     Served, sockets, relay, events, Closed
<1>9. closer' = closer
  BY DEF Accept
<1> QED
  BY <1>3, <1>4, <1>5, <1>6, <1>7, <1>8, <1>9 DEF StepOf, ConnInv

\* A handler is started under the mutex, or the connection is too late.
LEMMA RegisterStep ==
    ASSUME TypeOK, NEW c \in Conns, ConnInv(c), AcceptInv, Register(c)
    PROVE  StepOf(c)
<1>1. Closed => Moves(c, "done")
  BY GoMoves DEF Register, RefusesLate, Places
<1>2. ~Closed => Becomes(c, "handshake", handler[c].kind, TRUE, handler[c].slot)
  BY RegisterBecomes DEF Register, RefusesLate
<1>3. TypeOK'
  BY SMT, <1>1, <1>2 DEF TypeOK, Becomes, Moves, sockets, relay, events,
     Register, RefusesLate, Closed, AcceptInv
<1>4. \A e \in Conns : e # c => Kept(e)
  BY <1>1, <1>2 DEF TypeOK, Becomes, Moves, Kept, sockets, relay, events,
     Register, RefusesLate, Closed, AcceptInv
<1>5. PlaceInv(c)'
  BY SMT, <1>1, <1>2 DEF TypeOK, Becomes, Moves, ConnInv, PlaceInv, At,
     Unserved, Served, Running, sockets, relay, events, Register, RefusesLate,
     Closed, AcceptInv
<1>6. HoldsInv(c)'
  BY <1>1, <1>2 DEF TypeOK, Becomes, Moves, ConnInv, HoldsInv, At, Unserved,
     Served, Running, PlaceInv, sockets, relay, events, Register, RefusesLate,
     Closed, AcceptInv
<1>7. PayloadInv(c)'
  BY <1>1, <1>2 DEF TypeOK, Becomes, Moves, ConnInv, PayloadInv, sockets,
     relay, events, Register, RefusesLate, Closed, AcceptInv
<1>8. PublishedInv(c)'
  BY <1>1, <1>2 DEF TypeOK, Becomes, Moves, ConnInv, PublishedInv, At,
     Served, PlaceInv, sockets, relay, events, Register, RefusesLate, Closed,
     AcceptInv
<1>9. closer' = closer
  BY DEF Register
<1> QED
  BY <1>3, <1>4, <1>5, <1>6, <1>7, <1>8, <1>9 DEF StepOf, ConnInv

\* The TLS handshake succeeds or the handler ends.
LEMMA HandshakeStep ==
    ASSUME TypeOK, NEW c \in Conns, ConnInv(c), Handshake(c)
    PROVE  StepOf(c)
<1>1. (c \in client /\ Moves(c, "header")) \/ Moves(c, "cleanup")
  BY GoMoves DEF Handshake, Places, Running
<1>2. TypeOK'
  BY <1>1 DEF TypeOK, Becomes, Moves, sockets, relay, events, Handshake
<1>3. \A e \in Conns : e # c => Kept(e)
  BY <1>1 DEF TypeOK, Becomes, Moves, Kept, sockets, relay, events, Handshake
<1>4. PlaceInv(c)'
  BY <1>1 DEF TypeOK, Becomes, Moves, ConnInv, PlaceInv, At, Unserved,
     Served, Running, sockets, relay, events, Handshake
<1>5. HoldsInv(c)'
  BY <1>1 DEF TypeOK, Becomes, Moves, ConnInv, HoldsInv, At, Unserved,
     Served, Running, sockets, relay, events, Handshake
<1>6. PayloadInv(c)'
  BY <1>1 DEF TypeOK, Becomes, Moves, ConnInv, PayloadInv, sockets, relay,
     events, Handshake
<1>7. PublishedInv(c)'
  BY <1>1 DEF TypeOK, Becomes, Moves, ConnInv, PublishedInv, At, Served,
     sockets, relay, events, Handshake
<1>8. closer' = closer
  BY DEF Handshake
<1> QED
  BY <1>2, <1>3, <1>4, <1>5, <1>6, <1>7, <1>8 DEF StepOf, ConnInv

\* A handler ends without serving.
LEMMA DropStep ==
    ASSUME TypeOK, NEW c \in Conns, ConnInv(c), Drop(c)
    PROVE  StepOf(c)
<1>1. Moves(c, "cleanup")
  BY GoMoves DEF Drop, Places, Running
<1>2. TypeOK'
  BY <1>1 DEF TypeOK, Becomes, Moves, sockets, relay, events, Drop
<1>3. \A e \in Conns : e # c => Kept(e)
  BY <1>1 DEF TypeOK, Becomes, Moves, Kept, sockets, relay, events, Drop
<1>4. PlaceInv(c)'
  BY <1>1 DEF TypeOK, Becomes, Moves, ConnInv, PlaceInv, At, Unserved,
     Served, Running, sockets, relay, events, Drop
<1>5. HoldsInv(c)'
  BY <1>1 DEF TypeOK, Becomes, Moves, ConnInv, HoldsInv, At, Unserved,
     Served, Running, sockets, relay, events, Drop
<1>6. PayloadInv(c)'
  BY <1>1 DEF TypeOK, Becomes, Moves, ConnInv, PayloadInv, sockets, relay,
     events, Drop
<1>7. PublishedInv(c)'
  BY <1>1 DEF TypeOK, Becomes, Moves, ConnInv, PublishedInv, At, Served,
     sockets, relay, events, Drop
<1>8. closer' = closer
  BY DEF Drop
<1> QED
  BY <1>2, <1>3, <1>4, <1>5, <1>6, <1>7, <1>8 DEF StepOf, ConnInv

\* A valid request leaves the admission slots.
LEMMA RequestStep ==
    ASSUME TypeOK, NEW c \in Conns, ConnInv(c),
           NEW kind \in {"tcp", "udp"}, ReadRequest(c, kind)
    PROVE  StepOf(c)
<1>1. Becomes(c, "dial", kind, FALSE, FALSE)
  BY LeaveBecomes DEF ReadRequest
<1>2. TypeOK'
  BY SMT, <1>1 DEF TypeOK, Becomes, sockets, relay, events, ReadRequest,
     LeavePending
<1>3. \A e \in Conns : e # c => Kept(e)
  BY <1>1 DEF TypeOK, Becomes, Kept, sockets, relay, events, ReadRequest,
     LeavePending
<1>4. PlaceInv(c)'
  BY <1>1 DEF TypeOK, Becomes, ConnInv, PlaceInv, At, Unserved, Served,
     Running, sockets, relay, events, ReadRequest, LeavePending
<1>5. HoldsInv(c)'
  BY <1>1 DEF TypeOK, Becomes, ConnInv, HoldsInv, At, Unserved, Served,
     Running, sockets, relay, events, ReadRequest, LeavePending
<1>6. PayloadInv(c)'
  BY <1>1 DEF TypeOK, Becomes, ConnInv, PayloadInv, HoldsInv, At, Unserved,
     sockets, relay, events, ReadRequest, LeavePending
<1>7. PublishedInv(c)'
  BY <1>1 DEF TypeOK, Becomes, ConnInv, PublishedInv, At, Served, sockets,
     relay, events, ReadRequest, LeavePending
<1>8. closer' = closer
  BY DEF ReadRequest
<1> QED
  BY <1>2, <1>3, <1>4, <1>5, <1>6, <1>7, <1>8 DEF StepOf, ConnInv

\* Anything else takes a slot of the website or is refused.
LEMMA OtherStep ==
    ASSUME TypeOK, NEW c \in Conns, ConnInv(c), ReadOther(c)
    PROVE  StepOf(c)
<1>1. \/ Becomes(c, "dial", "website", FALSE, TRUE)
      \/ Moves(c, "refuse")
  BY LeaveBecomes, GoMoves DEF ReadOther, Places, Running
<1>2. TypeOK'
  BY SMT, <1>1 DEF TypeOK, Becomes, Moves, sockets, relay, events, ReadOther,
     LeavePending
<1>3. \A e \in Conns : e # c => Kept(e)
  BY <1>1 DEF TypeOK, Becomes, Moves, Kept, sockets, relay, events,
     ReadOther, LeavePending
<1>4. PlaceInv(c)'
  BY <1>1 DEF TypeOK, Becomes, Moves, ConnInv, PlaceInv, At, Unserved,
     Served, Running, sockets, relay, events, ReadOther, LeavePending
<1>5. HoldsInv(c)'
  BY <1>1 DEF TypeOK, Becomes, Moves, ConnInv, HoldsInv, At, Unserved,
     Served, Running, sockets, relay, events, ReadOther, LeavePending
<1>6. PayloadInv(c)'
  BY <1>1 DEF TypeOK, Becomes, Moves, ConnInv, PayloadInv, sockets, relay,
     events, ReadOther, LeavePending
<1>7. PublishedInv(c)'
  BY <1>1 DEF TypeOK, Becomes, Moves, ConnInv, PublishedInv, At, Served,
     sockets, relay, events, ReadOther, LeavePending
<1>8. closer' = closer
  BY DEF ReadOther
<1> QED
  BY <1>2, <1>3, <1>4, <1>5, <1>6, <1>7, <1>8 DEF StepOf, ConnInv

\* The dial succeeds or fails.
LEMMA DialStep ==
    ASSUME TypeOK, NEW c \in Conns, ConnInv(c), Dial(c)
    PROVE  StepOf(c)
<1>1. Go(c, "dialed") => Moves(c, "dialed")
  BY GoMoves DEF Places, Running
<1>2. Go(c, "cleanup") => Moves(c, "cleanup")
  BY GoMoves DEF Places, Running
<1>3. TypeOK'
  BY <1>1, <1>2 DEF TypeOK, Becomes, Moves, sockets, relay, events, Dial
<1>4. \A e \in Conns : e # c => Kept(e)
  BY <1>1, <1>2 DEF TypeOK, Becomes, Moves, Kept, sockets, relay, events, Dial
<1>5. PlaceInv(c)'
  BY <1>1, <1>2 DEF TypeOK, Becomes, Moves, ConnInv, PlaceInv, At, Unserved,
     Served, Running, sockets, relay, events, Dial
<1>6. HoldsInv(c)'
  BY <1>1, <1>2 DEF TypeOK, Becomes, Moves, ConnInv, HoldsInv, At, Unserved,
     Served, Running, sockets, relay, events, Dial
<1>7. PayloadInv(c)'
  BY <1>1, <1>2 DEF TypeOK, Becomes, Moves, ConnInv, PayloadInv, sockets,
     relay, events, Dial
<1>8. PublishedInv(c)'
  BY <1>1, <1>2 DEF TypeOK, Becomes, Moves, ConnInv, PublishedInv, At,
     Served, sockets, relay, events, Dial
<1>9. closer' = closer
  BY DEF Dial
<1> QED
  BY <1>3, <1>4, <1>5, <1>6, <1>7, <1>8, <1>9 DEF StepOf, ConnInv

\* setUpstream registers the upstream or the handler closes it.
LEMMA UpstreamStep ==
    ASSUME TypeOK, NEW c \in Conns, ConnInv(c), SetUpstream(c)
    PROVE  StepOf(c)
<1>1. MayRegister(c) => IF handler[c].kind = "website" THEN
      Moves(c, "relay")
      ELSE Moves(c, "publish")
  BY GoMoves DEF SetUpstream, Places, Running
<1>2. ~MayRegister(c) => Moves(c, "cleanup")
  BY GoMoves DEF SetUpstream, Places, Running
<1>3. /\ copy' \in [Conns -> Copies]
      /\ \A e \in Conns : e # c => copy'[e] = copy[e]
      /\ MayRegister(c) => \A d \in Directions : copy'[c][d] = "read"
      /\ ~MayRegister(c) => copy' = copy
  BY SMT DEF SetUpstream, TypeOK, Copies
<1>4. TypeOK'
  BY SMT, <1>1, <1>2, <1>3 DEF TypeOK, Becomes, Moves, sockets, relay, events,
     SetUpstream, MayRegister, Closed
<1>5. \A e \in Conns : e # c => Kept(e)
  BY SMT, <1>1, <1>2, <1>3 DEF TypeOK, Becomes, Moves, Kept, sockets, relay,
     events, SetUpstream, MayRegister, Closed
<1>6. PlaceInv(c)'
  BY SMT, <1>1, <1>2, <1>3 DEF TypeOK, Becomes, Moves, ConnInv, PlaceInv, At,
     Unserved, Served, Running, sockets, relay, events, SetUpstream,
     MayRegister, Closed
<1>7. HoldsInv(c)'
  BY <1>1, <1>2, <1>3 DEF TypeOK, Becomes, Moves, ConnInv, HoldsInv, At,
     Unserved, Served, Running, sockets, relay, events, SetUpstream,
     MayRegister, Closed
<1>8. PayloadInv(c)'
  BY <1>1, <1>2, <1>3 DEF TypeOK, Becomes, Moves, ConnInv, PayloadInv,
     sockets, relay, events, SetUpstream, MayRegister, Closed
<1>9. PublishedInv(c)'
  BY <1>1, <1>2, <1>3 DEF TypeOK, Becomes, Moves, ConnInv, PublishedInv, At,
     Served, sockets, relay, events, SetUpstream, MayRegister, Closed
<1>10. closer' = closer
  BY DEF SetUpstream
<1> QED
  BY <1>4, <1>5, <1>6, <1>7, <1>8, <1>9, <1>10 DEF StepOf, ConnInv

\* startRequest publishes one event after the other.
LEMMA PublishStep ==
    ASSUME TypeOK, NEW c \in Conns, ConnInv(c), Publish(c)
    PROVE  StepOf(c)
<1>1. Go(c, "relay") => Moves(c, "relay")
  BY GoMoves DEF Places, Running
<1>2. TypeOK'
  BY SMT, <1>1 DEF TypeOK, Becomes, Moves, sockets, relay, events, Publish,
     ConnectSession, StartRequest, LogOnlineState
<1>3. \A e \in Conns : e # c => Kept(e)
  BY SMT, <1>1 DEF TypeOK, Becomes, Moves, Kept, sockets, relay, events,
     Publish, ConnectSession, StartRequest, LogOnlineState
<1>4. PlaceInv(c)'
  BY <1>1 DEF TypeOK, Becomes, Moves, ConnInv, PlaceInv, At, Unserved,
     Served, Running, sockets, relay, events, Publish, ConnectSession,
     StartRequest, LogOnlineState
<1>5. HoldsInv(c)'
  BY <1>1 DEF TypeOK, Becomes, Moves, ConnInv, HoldsInv, At, Unserved,
     Served, Running, sockets, relay, events, Publish, ConnectSession,
     StartRequest, LogOnlineState
<1>6. PayloadInv(c)'
  BY <1>1 DEF TypeOK, Becomes, Moves, ConnInv, PayloadInv, sockets, relay,
     events, Publish, ConnectSession, StartRequest, LogOnlineState
<1>7. PublishedInv(c)'
  BY SMT, <1>1 DEF TypeOK, Becomes, Moves, ConnInv, PublishedInv, At, Served,
     sockets, relay, events, Publish, ConnectSession, StartRequest,
     LogOnlineState
<1>8. closer' = closer
  BY DEF Publish
<1> QED
  BY <1>2, <1>3, <1>4, <1>5, <1>6, <1>7, <1>8 DEF StepOf, ConnInv

\* The function startRequest returned takes the events back.
LEMMA WithdrawStep ==
    ASSUME TypeOK, NEW c \in Conns, ConnInv(c), Withdraw(c)
    PROVE  StepOf(c)
<1>1. Go(c, "cleanup") => Moves(c, "cleanup")
  BY GoMoves DEF Places, Running
<1>2. TypeOK'
  BY SMT, <1>1 DEF TypeOK, Becomes, Moves, sockets, relay, events, Withdraw,
     StopEvents, DisconnectSession, StopRequest, LogOnlineState, Restrict
<1>3. \A e \in Conns : e # c => Kept(e)
  BY SMT, <1>1 DEF TypeOK, Becomes, Moves, Kept, sockets, relay, events,
     Withdraw, StopEvents, DisconnectSession, StopRequest, LogOnlineState,
     Restrict
<1>4. PlaceInv(c)'
  BY <1>1 DEF TypeOK, Becomes, Moves, ConnInv, PlaceInv, At, Unserved,
     Served, Running, sockets, relay, events, Withdraw, StopEvents,
     DisconnectSession, StopRequest, LogOnlineState, Restrict
<1>5. HoldsInv(c)'
  BY <1>1 DEF TypeOK, Becomes, Moves, ConnInv, HoldsInv, At, Unserved,
     Served, Running, sockets, relay, events, Withdraw, StopEvents,
     DisconnectSession, StopRequest, LogOnlineState, Restrict
<1>6. PayloadInv(c)'
  BY <1>1 DEF TypeOK, Becomes, Moves, ConnInv, PayloadInv, sockets, relay,
     events, Withdraw, StopEvents, DisconnectSession, StopRequest,
     LogOnlineState, Restrict
<1>7. PublishedInv(c)'
  BY <1>1 DEF TypeOK, Becomes, Moves, ConnInv, PublishedInv, At, Served,
     sockets, relay, events, Withdraw, StopEvents, DisconnectSession,
     StopRequest, LogOnlineState, Restrict
<1>8. closer' = closer
  BY DEF Withdraw
<1> QED
  BY <1>2, <1>3, <1>4, <1>5, <1>6, <1>7, <1>8 DEF StepOf, ConnInv

\* A copying goroutine has read a payload.
LEMMA ReadStep ==
    ASSUME TypeOK, NEW c \in Conns, ConnInv(c), NEW d \in Directions, Read(c, d)
    PROVE  StepOf(c)
<1>1. AfterRead(c) \in {"write", "admit"} /\ (handler[c].kind # "website" => AfterRead(c) = "admit")
  BY DEF AfterRead
<1>2. /\ copy' \in [Conns -> Copies] /\ copy'[c][d] = AfterRead(c)
      /\ \A f \in Directions : f # d => copy'[c][f] = copy[c][f]
      /\ \A e \in Conns : e # c => copy'[e] = copy[e]
  BY SMT, <1>1, MoveCopies DEF Read
<1>3. TypeOK'
  BY <1>1, <1>2 DEF TypeOK, sockets, relay, events, Read
<1>4. \A e \in Conns : e # c => Kept(e)
  BY <1>1, <1>2 DEF TypeOK, Kept, sockets, relay, events, Read
<1>5. PlaceInv(c)'
  BY <1>1, <1>2 DEF TypeOK, ConnInv, PlaceInv, At, Unserved, Served, Running,
     sockets, relay, events, Read
<1>6. HoldsInv(c)'
  BY <1>1, <1>2 DEF TypeOK, ConnInv, HoldsInv, At, Unserved, Served, Running,
     sockets, relay, events, Read
<1>7. PayloadInv(c)'
  BY <1>1, <1>2 DEF TypeOK, ConnInv, PayloadInv, sockets, relay, events, Read
<1>8. PublishedInv(c)'
  BY <1>1, <1>2 DEF TypeOK, ConnInv, PublishedInv, At, Served, sockets,
     relay, events, Read
<1>9. closer' = closer
  BY DEF Read
<1> QED
  BY <1>3, <1>4, <1>5, <1>6, <1>7, <1>8, <1>9 DEF StepOf, ConnInv

\* The stream a goroutine copies from has ended.
LEMMA ReadEndsStep ==
    ASSUME TypeOK, NEW c \in Conns, ConnInv(c), NEW d \in Directions,
           NEW r \in {"eof", "failed"}, ReadEnds(c, d, r)
    PROVE  StepOf(c)
<1>1. /\ copy' \in [Conns -> Copies] /\ copy'[c][d] = r
      /\ \A f \in Directions : f # d => copy'[c][f] = copy[c][f]
      /\ \A e \in Conns : e # c => copy'[e] = copy[e]
  BY SMT, MoveCopies DEF ReadEnds
<1>2. TypeOK'
  BY <1>1 DEF TypeOK, sockets, relay, events, ReadEnds
<1>3. \A e \in Conns : e # c => Kept(e)
  BY <1>1 DEF TypeOK, Kept, sockets, relay, events, ReadEnds
<1>4. PlaceInv(c)'
  BY <1>1 DEF TypeOK, ConnInv, PlaceInv, At, Unserved, Served, Running,
     sockets, relay, events, ReadEnds
<1>5. HoldsInv(c)'
  BY <1>1 DEF TypeOK, ConnInv, HoldsInv, At, Unserved, Served, Running,
     sockets, relay, events, ReadEnds
<1>6. PayloadInv(c)'
  BY <1>1 DEF TypeOK, ConnInv, PayloadInv, sockets, relay, events, ReadEnds
<1>7. PublishedInv(c)'
  BY <1>1 DEF TypeOK, ConnInv, PublishedInv, At, Served, sockets, relay,
     events, ReadEnds
<1>8. closer' = closer
  BY DEF ReadEnds
<1> QED
  BY <1>2, <1>3, <1>4, <1>5, <1>6, <1>7, <1>8 DEF StepOf, ConnInv

\* The kernel admits a payload or refuses it.
LEMMA AdmitStep ==
    ASSUME TypeOK, NEW c \in Conns, ConnInv(c), NEW d \in Directions, Admit(c, d)
    PROVE  StepOf(c)
<1>1. /\ copy' \in [Conns -> Copies] /\ copy'[c][d] \in {"write", "failed"}
      /\ \A f \in Directions : f # d => copy'[c][f] = copy[c][f]
      /\ \A e \in Conns : e # c => copy'[e] = copy[e]
  BY MoveCopies DEF Admit
<1>2. \/ charged' = charged /\ copy'[c][d] = "failed"
      \/ /\ charged' \in [Conns -> Counts]
         /\ charged'[c][d] = charged[c][d] + 1
         /\ \A f \in Directions : f # d => charged'[c][f] = charged[c][f]
         /\ \A e \in Conns : e # c => charged'[e] = charged[e]
  BY SMT, MoveCopies, ChargesOne DEF Admit
<1>3. UNCHANGED <<serve, accepted, handler, sockets, registered, pending, website,
                     forwarded, events, closer>>
  BY DEF Admit
<1>4. TypeOK'
  BY <1>1, <1>2, <1>3 DEF TypeOK, sockets, relay, events, Counts
<1>5. \A e \in Conns : e # c => Kept(e)
  BY <1>1, <1>2, <1>3 DEF TypeOK, Kept, sockets, relay, events, Counts
<1>6. PlaceInv(c)'
  BY <1>1, <1>2, <1>3 DEF TypeOK, ConnInv, PlaceInv, At, Unserved, Served,
     Running, sockets, relay, events, Counts
<1>7. HoldsInv(c)'
  BY <1>1, <1>2, <1>3 DEF TypeOK, ConnInv, HoldsInv, At, Unserved, Served,
     Running, sockets, relay, events, Counts
<1>8. PayloadInv(c)'
  <2> SUFFICES ASSUME handler[c].kind # "website", NEW f \in Directions
               PROVE  /\ forwarded'[c][f] <= charged'[c][f]
                      /\ copy'[c][f] = "write" => forwarded'[c][f] < charged'[c][f]
    BY <1>1, <1>2, <1>3 DEF PayloadInv
  <2>1. /\ forwarded[c][f] \in Nat /\ charged[c][f] \in Nat
        /\ forwarded[c][f] <= charged[c][f]
        /\ copy[c][f] = "write" => forwarded[c][f] < charged[c][f]
    BY SMT DEF ConnInv, PayloadInv, TypeOK, Counts
  <2>2. CASE f = d
    BY SMT, <2>1, <2>2, <1>1, <1>2, <1>3
  <2>3. CASE f # d
    BY <2>1, <2>3, <1>1, <1>2, <1>3
  <2> QED
    BY <2>2, <2>3
<1>9. PublishedInv(c)'
  BY <1>1, <1>2, <1>3 DEF TypeOK, ConnInv, PublishedInv, At, Served, sockets,
     relay, events, Counts
<1>10. closer' = closer
  BY DEF Admit
<1> QED
  BY <1>4, <1>5, <1>6, <1>7, <1>8, <1>9, <1>10 DEF StepOf, ConnInv

\* A goroutine has written a payload.
LEMMA WriteStep ==
    ASSUME TypeOK, NEW c \in Conns, ConnInv(c), NEW d \in Directions, Write(c, d)
    PROVE  StepOf(c)
<1>1. /\ copy' \in [Conns -> Copies] /\ copy'[c][d] \in {"read"}
      /\ \A f \in Directions : f # d => copy'[c][f] = copy[c][f]
      /\ \A e \in Conns : e # c => copy'[e] = copy[e]
  BY MoveCopies DEF Write
<1>2. /\ forwarded' \in [Conns -> Counts]
      /\ forwarded'[c][d] = forwarded[c][d] + 1
      /\ \A f \in Directions : f # d => forwarded'[c][f] = forwarded[c][f]
      /\ \A e \in Conns : e # c => forwarded'[e] = forwarded[e]
  BY ForwardsOne DEF Write
<1>3. /\ copy[c][d] = "write"
      /\ UNCHANGED <<serve, accepted, handler, sockets, registered, pending, website,
                     charged, events, closer>>
  BY DEF Write, Copying
<1>4. TypeOK'
  BY <1>1, <1>2, <1>3 DEF TypeOK, sockets, relay, events, Counts
<1>5. \A e \in Conns : e # c => Kept(e)
  BY <1>1, <1>2, <1>3 DEF TypeOK, Kept, sockets, relay, events, Counts
<1>6. PlaceInv(c)'
  BY <1>1, <1>2, <1>3 DEF TypeOK, ConnInv, PlaceInv, At, Unserved, Served,
     Running, sockets, relay, events, Counts
<1>7. HoldsInv(c)'
  BY <1>1, <1>2, <1>3 DEF TypeOK, ConnInv, HoldsInv, At, Unserved, Served,
     Running, sockets, relay, events, Counts
<1>8. PayloadInv(c)'
  <2> SUFFICES ASSUME handler[c].kind # "website", NEW f \in Directions
               PROVE  /\ forwarded'[c][f] <= charged'[c][f]
                      /\ copy'[c][f] = "write" => forwarded'[c][f] < charged'[c][f]
    BY <1>1, <1>2, <1>3 DEF PayloadInv
  <2>1. /\ forwarded[c][f] \in Nat /\ charged[c][f] \in Nat
        /\ forwarded[c][f] <= charged[c][f]
        /\ copy[c][f] = "write" => forwarded[c][f] < charged[c][f]
    BY DEF ConnInv, PayloadInv, TypeOK, Counts
  <2>2. CASE f = d
    BY SMT, <2>1, <2>2, <1>1, <1>2, <1>3
  <2>3. CASE f # d
    BY <2>1, <2>3, <1>1, <1>2, <1>3
  <2> QED
    BY <2>2, <2>3
<1>9. PublishedInv(c)'
  BY <1>1, <1>2, <1>3 DEF TypeOK, ConnInv, PublishedInv, At, Served, sockets,
     relay, events, Counts
<1>10. closer' = closer
  BY DEF Write
<1> QED
  BY <1>4, <1>5, <1>6, <1>7, <1>8, <1>9, <1>10 DEF StepOf, ConnInv

\* A payload could not be written.
LEMMA WriteFailsStep ==
    ASSUME TypeOK, NEW c \in Conns, ConnInv(c), NEW d \in Directions, WriteFails(c, d)
    PROVE  StepOf(c)
<1>1. /\ copy' \in [Conns -> Copies] /\ copy'[c][d] \in {"read", "failed"}
      /\ \A f \in Directions : f # d => copy'[c][f] = copy[c][f]
      /\ \A e \in Conns : e # c => copy'[e] = copy[e]
  BY MoveCopies DEF WriteFails
<1>2. TypeOK'
  BY <1>1 DEF TypeOK, sockets, relay, events, WriteFails
<1>3. \A e \in Conns : e # c => Kept(e)
  BY <1>1 DEF TypeOK, Kept, sockets, relay, events, WriteFails
<1>4. PlaceInv(c)'
  BY <1>1 DEF TypeOK, ConnInv, PlaceInv, At, Unserved, Served, Running,
     sockets, relay, events, WriteFails
<1>5. HoldsInv(c)'
  BY <1>1 DEF TypeOK, ConnInv, HoldsInv, At, Unserved, Served, Running,
     sockets, relay, events, WriteFails
<1>6. PayloadInv(c)'
  BY <1>1 DEF TypeOK, ConnInv, PayloadInv, sockets, relay, events, WriteFails
<1>7. PublishedInv(c)'
  BY <1>1 DEF TypeOK, ConnInv, PublishedInv, At, Served, sockets, relay,
     events, WriteFails
<1>8. closer' = closer
  BY DEF WriteFails
<1> QED
  BY <1>2, <1>3, <1>4, <1>5, <1>6, <1>7, <1>8 DEF StepOf, ConnInv

\* The handler has the first result of the relay.
LEMMA FirstEndsStep ==
    ASSUME TypeOK, NEW c \in Conns, ConnInv(c), FirstEnds(c)
    PROVE  StepOf(c)
<1>1. Go(c, "half") => Moves(c, "half")
  BY GoMoves DEF Places, Running
<1>2. Go(c, "closing") => Moves(c, "closing")
  BY GoMoves DEF Places, Running
<1>3. TypeOK'
  BY <1>1, <1>2 DEF TypeOK, Becomes, Moves, sockets, relay, events,
     FirstEnds, HalfClosed, CloseBoth
<1>4. \A e \in Conns : e # c => Kept(e)
  BY <1>1, <1>2 DEF TypeOK, Becomes, Moves, Kept, sockets, relay, events,
     FirstEnds, HalfClosed, CloseBoth
<1>5. PlaceInv(c)'
  BY <1>1, <1>2 DEF TypeOK, Becomes, Moves, ConnInv, PlaceInv, At, Unserved,
     Served, Running, sockets, relay, events, FirstEnds, HalfClosed, CloseBoth
<1>6. HoldsInv(c)'
  BY <1>1, <1>2 DEF TypeOK, Becomes, Moves, ConnInv, HoldsInv, At, Unserved,
     Served, Running, sockets, relay, events, FirstEnds, HalfClosed, CloseBoth
<1>7. PayloadInv(c)'
  BY <1>1, <1>2 DEF TypeOK, Becomes, Moves, ConnInv, PayloadInv, sockets,
     relay, events, FirstEnds, HalfClosed, CloseBoth
<1>8. PublishedInv(c)'
  BY <1>1, <1>2 DEF TypeOK, Becomes, Moves, ConnInv, PublishedInv, At,
     Served, sockets, relay, events, FirstEnds, HalfClosed, CloseBoth
<1>9. closer' = closer
  BY DEF FirstEnds
<1> QED
  BY <1>3, <1>4, <1>5, <1>6, <1>7, <1>8, <1>9 DEF StepOf, ConnInv

\* watchIdle or a cancellation closes both sockets.
LEMMA IdleStep ==
    ASSUME TypeOK, NEW c \in Conns, ConnInv(c), IdleCloses(c)
    PROVE  StepOf(c)
<1>1. TypeOK'
  BY DEF TypeOK, sockets, relay, events, IdleCloses, CloseBoth
<1>2. \A e \in Conns : e # c => Kept(e)
  BY DEF TypeOK, Kept, sockets, relay, events, IdleCloses, CloseBoth
<1>3. PlaceInv(c)'
  BY DEF TypeOK, ConnInv, PlaceInv, At, Unserved, Served, Running, sockets,
     relay, events, IdleCloses, CloseBoth
<1>4. HoldsInv(c)'
  BY DEF TypeOK, ConnInv, HoldsInv, At, Unserved, Served, Running, sockets,
     relay, events, IdleCloses, CloseBoth
<1>5. PayloadInv(c)'
  BY DEF TypeOK, ConnInv, PayloadInv, sockets, relay, events, IdleCloses,
     CloseBoth
<1>6. PublishedInv(c)'
  BY DEF TypeOK, ConnInv, PublishedInv, At, Served, sockets, relay, events,
     IdleCloses, CloseBoth
<1>7. closer' = closer
  BY DEF IdleCloses
<1> QED
  BY <1>1, <1>2, <1>3, <1>4, <1>5, <1>6, <1>7 DEF StepOf, ConnInv

\* The handler has both results.
LEMMA RelayEndsStep ==
    ASSUME TypeOK, NEW c \in Conns, ConnInv(c), RelayEnds(c)
    PROVE  StepOf(c)
<1>1. IF handler[c].kind = "website" THEN
      Moves(c, "cleanup")
      ELSE Moves(c, "withdraw")
  BY GoMoves DEF RelayEnds, Places, Running
<1>2. TypeOK'
  BY <1>1 DEF TypeOK, Becomes, Moves, sockets, relay, events, RelayEnds
<1>3. \A e \in Conns : e # c => Kept(e)
  BY <1>1 DEF TypeOK, Becomes, Moves, Kept, sockets, relay, events, RelayEnds
<1>4. PlaceInv(c)'
  BY <1>1 DEF TypeOK, Becomes, Moves, ConnInv, PlaceInv, At, Unserved,
     Served, Running, sockets, relay, events, RelayEnds
<1>5. HoldsInv(c)'
  BY <1>1 DEF TypeOK, Becomes, Moves, ConnInv, HoldsInv, At, Unserved,
     Served, Running, sockets, relay, events, RelayEnds
<1>6. PayloadInv(c)'
  BY <1>1 DEF TypeOK, Becomes, Moves, ConnInv, PayloadInv, sockets, relay,
     events, RelayEnds
<1>7. PublishedInv(c)'
  BY <1>1 DEF TypeOK, Becomes, Moves, ConnInv, PublishedInv, At, Served,
     sockets, relay, events, RelayEnds
<1>8. closer' = closer
  BY DEF RelayEnds
<1> QED
  BY <1>2, <1>3, <1>4, <1>5, <1>6, <1>7, <1>8 DEF StepOf, ConnInv

\* The deferred function of handle.
LEMMA CleanupStep ==
    ASSUME TypeOK, NEW c \in Conns, ConnInv(c), Cleanup(c)
    PROVE  StepOf(c)
<1>1. Becomes(c, "done", handler[c].kind, FALSE, FALSE)
  BY CleanupBecomes
<1>2. TypeOK'
  BY SMT, <1>1 DEF TypeOK, Becomes, sockets, relay, events, Cleanup
<1>3. \A e \in Conns : e # c => Kept(e)
  BY <1>1 DEF TypeOK, Becomes, Kept, sockets, relay, events, Cleanup
<1>4. PlaceInv(c)'
  BY <1>1 DEF TypeOK, Becomes, ConnInv, PlaceInv, At, Unserved, Served,
     Running, sockets, relay, events, Cleanup
<1>5. HoldsInv(c)'
  BY <1>1 DEF TypeOK, Becomes, ConnInv, HoldsInv, At, Unserved, Served,
     Running, sockets, relay, events, Cleanup
<1>6. PayloadInv(c)'
  BY <1>1 DEF TypeOK, Becomes, ConnInv, PayloadInv, sockets, relay, events,
     Cleanup
<1>7. PublishedInv(c)'
  BY <1>1 DEF TypeOK, Becomes, ConnInv, PublishedInv, At, Served, sockets,
     relay, events, Cleanup
<1>8. closer' = closer
  BY DEF Cleanup
<1> QED
  BY <1>2, <1>3, <1>4, <1>5, <1>6, <1>7, <1>8 DEF StepOf, ConnInv

----------------------------------------------------------------------------
\* A step of one connection leaves the invariant of all.
LEMMA StepOfAll ==
    ASSUME IndInv, NEW c \in Conns, StepOf(c)
    PROVE  TypeOK' /\ \A e \in Conns : ConnInv(e)'
<1> SUFFICES ASSUME NEW e \in Conns PROVE ConnInv(e)'
  BY DEF StepOf
<1>1. CASE e = c
  BY <1>1 DEF StepOf
<1>2. CASE e # c
  BY <1>2, KeptInv DEF StepOf, IndInv
<1> QED
  BY <1>1, <1>2

\* Close turns the reads and writes of what is registered into failures.
LEMMA CloseSteps ==
    ASSUME IndInv, Close \/ CloseConnections \/ CloseReturns
    PROVE  TypeOK' /\ \A e \in Conns : ConnInv(e)'
<1>1. TypeOK'
  BY DEF IndInv, TypeOK, Close, CloseConnections, CloseReturns, sockets,
     relay, events
<1>2. ASSUME NEW e \in Conns PROVE ConnInv(e)'
  <2>1. PlaceInv(e)'
    BY SMT DEF IndInv, ConnInv, PlaceInv, Close, CloseConnections, CloseReturns,
       Collected, At, Served, Unserved, Running, sockets
  <2>2. HoldsInv(e)'
    BY DEF IndInv, ConnInv, HoldsInv, Close, CloseConnections, CloseReturns
  <2>3. PayloadInv(e)'
    BY DEF IndInv, ConnInv, PayloadInv, Close, CloseConnections,
       CloseReturns, relay
  <2>4. PublishedInv(e)'
    BY DEF IndInv, ConnInv, PublishedInv, At, Close, CloseConnections,
       CloseReturns, events
  <2> QED
    BY <2>1, <2>2, <2>3, <2>4 DEF ConnInv
<1> QED
  BY <1>1, <1>2

\* Nothing changes for the connections when the accept loop ends.
LEMMA ServeReturnsStep ==
    ASSUME IndInv, ServeReturns \/ UNCHANGED vars
    PROVE  TypeOK' /\ \A e \in Conns : ConnInv(e)'
<1>1. TypeOK'
  BY DEF IndInv, TypeOK, ServeReturns, vars, sockets, relay, events
<1>2. ASSUME NEW e \in Conns PROVE Kept(e) /\ closer' = closer
  BY DEF Kept, ServeReturns, vars, sockets, relay, events
<1> QED
  BY <1>1, <1>2, KeptInv DEF IndInv

\* Every step keeps the types and what the connections hold.
LEMMA ConnStep ==
    ASSUME IndInv, [Next]_vars
    PROVE  TypeOK' /\ \A e \in Conns : ConnInv(e)'
<1>1. ASSUME NEW c \in Conns, Establish(c) PROVE StepOf(c)
  BY SMTT(30), <1>1, AcceptStep, RegisterStep, HandshakeStep, DropStep,
     OtherStep, RequestStep, DialStep, UpstreamStep, PublishStep DEF Establish,
     IndInv
<1>2. ASSUME NEW c \in Conns, Finish(c) PROVE StepOf(c)
  BY <1>2, FirstEndsStep, IdleStep, RelayEndsStep, WithdrawStep, CleanupStep
     DEF Finish, IndInv
<1>3. ASSUME NEW c \in Conns, NEW d \in Directions, Copy(c, d) PROVE StepOf(c)
  BY <1>3, ReadStep, ReadEndsStep, AdmitStep, WriteStep, WriteFailsStep
     DEF Copy, IndInv
<1>4. CASE Next
  BY <1>1, <1>2, <1>3, <1>4, StepOfAll, CloseSteps, ServeReturnsStep DEF Next
<1> QED
  BY <1>4, ServeReturnsStep

\* Only the accept loop changes what it has in its hands.
LEMMA AcceptInvStep ==
    ASSUME IndInv, [Next]_vars
    PROVE  AcceptInv'
<1>1. ASSUME NEW c \in Conns, Accept(c) \/ Register(c) PROVE AcceptInv'
  BY <1>1 DEF IndInv, AcceptInv, Accept, Register
<1>2. ASSUME NEW c \in Conns, Establish(c), ~Accept(c), ~Register(c)
      PROVE  serve' = serve /\ accepted' = accepted
  BY <1>2 DEF Establish, Handshake, Drop, ReadOther, ReadRequest, Dial,
     SetUpstream, Publish
<1>3. ASSUME NEW c \in Conns, Finish(c) PROVE serve' = serve /\ accepted' = accepted
  BY <1>3 DEF Finish, FirstEnds, IdleCloses, RelayEnds, Withdraw, Cleanup
<1>4. ASSUME NEW c \in Conns, NEW d \in Directions, Copy(c, d)
      PROVE  serve' = serve /\ accepted' = accepted
  BY <1>4 DEF Copy, Read, ReadEnds, Admit, Write, WriteFails
<1>5. ServeReturns => AcceptInv'
  BY DEF IndInv, AcceptInv, ServeReturns
<1>6. Close \/ CloseConnections \/ CloseReturns \/ UNCHANGED vars
      => serve' = serve /\ accepted' = accepted
  BY DEF Close, CloseConnections, CloseReturns, vars
<1>7. serve' = serve /\ accepted' = accepted => AcceptInv'
  BY DEF IndInv, AcceptInv
<1> QED
  BY <1>1, <1>2, <1>3, <1>4, <1>5, <1>6, <1>7 DEF Next
----------------------------------------------------------------------------
\* A step that touches no slot.
SlotsKept ==
    /\ accepted' = accepted /\ pending' = pending /\ website' = website
    /\ \A e \in Conns : /\ handler'[e].pending = handler[e].pending
                        /\ handler'[e].slot = handler[e].slot

\* Go takes and returns no slot.
LEMMA GoKeepsSlots ==
    ASSUME TypeOK, NEW c \in Conns, NEW p \in Places, Go(c, p), NEW e \in Conns
    PROVE  /\ handler'[e].pending = handler[e].pending
           /\ handler'[e].slot = handler[e].slot
<1>1. Moves(c, p)
  BY GoMoves
<1>2. CASE e = c
  BY <1>1, <1>2 DEF Moves, Becomes
<1>3. CASE e # c
  BY <1>1, <1>3 DEF Moves, Becomes
<1> QED
  BY <1>2, <1>3

\* The counts hold while no slot is touched.
LEMMA SlotsKeptCount ==
    ASSUME IndInv, SlotsKept
    PROVE  CountInv'
<1>1. Pend' = Pend /\ Web' = Web
  BY DEF Pend, Web, SlotsKept
<1> QED
  BY <1>1 DEF IndInv, CountInv, SlotsKept

\* Accept takes a slot only if one is free.
LEMMA AcceptCount ==
    ASSUME IndInv, NEW c \in Conns, Accept(c)
    PROVE  CountInv'
<1>1. CASE pending < MaxPending
  <2>1. accepted = {} /\ accepted' = {c} /\ pending' = pending + 1 /\ website' = website
    BY <1>1 DEF Accept, IndInv, AcceptInv
  <2>2. Pend' = Pend /\ Web' = Web
    BY <1>1 DEF Accept, Pend, Web
  <2>3. Cardinality(accepted) = 0 /\ Cardinality(accepted') = 1
    BY <2>1, FS_EmptySet, FS_Singleton
  <2>4. pending' <= MaxPending
    BY SMT, <1>1, <2>1, TrojanAssumption DEF IndInv, TypeOK
  <2>5. Cardinality(Pend) \in Nat
    BY FS_CardinalityType DEF IndInv, CountInv
  <2> QED
    BY SMT, <2>1, <2>2, <2>3, <2>4, <2>5 DEF IndInv, CountInv
<1>2. CASE ~(pending < MaxPending)
  <2>1. "done" \in Places
    BY DEF Places
  <2> QED
    BY <1>2, <2>1, GoKeepsSlots, SlotsKeptCount DEF Accept, SlotsKept, IndInv
<1> QED
  BY <1>1, <1>2

\* Register hands the slot to the handler, or returns it when it is too late.
LEMMA RegisterCount ==
    ASSUME IndInv, NEW c \in Conns, Register(c)
    PROVE  CountInv'
<1>1. accepted = {c} /\ accepted' = {} /\ website' = website
  BY DEF IndInv, AcceptInv, Register
<1>2. Cardinality(accepted) = 1 /\ Cardinality(accepted') = 0
  BY <1>1, FS_EmptySet, FS_Singleton
<1>3. ~handler[c].pending /\ ~handler[c].slot
  BY <1>1 DEF IndInv, ConnInv, PlaceInv, HoldsInv, At, Unserved
<1>4. /\ IsFiniteSet(Pend) /\ Cardinality(Pend) \in Nat
      /\ pending = 1 + Cardinality(Pend) /\ pending \in Int
  BY <1>2, FS_CardinalityType DEF IndInv, CountInv, TypeOK
<1>5. CASE Closed
  <2>1. "done" \in Places
    BY DEF Places
  <2>2. \A e \in Conns : /\ handler'[e].pending = handler[e].pending
                         /\ handler'[e].slot = handler[e].slot
    BY <1>5, <2>1, GoKeepsSlots DEF Register, RefusesLate, IndInv
  <2>3. Pend' = Pend /\ Web' = Web
    BY <2>2 DEF Pend, Web
  <2>4. pending' = pending - 1
    BY <1>5 DEF Register, RefusesLate
  <2> QED
    BY SMT, <1>1, <1>2, <1>4, <2>3, <2>4, TrojanAssumption DEF IndInv, CountInv
<1>6. CASE ~Closed
  <2>1. Becomes(c, "handshake", handler[c].kind, TRUE, handler[c].slot)
    BY <1>6, RegisterBecomes DEF Register, RefusesLate, IndInv
  <2>2. Pend' = Pend \cup {c} /\ Web' = Web
    BY <1>3, <2>1 DEF Pend, Web, Becomes
  <2>3. c \notin Pend
    BY <1>3 DEF Pend
  <2>4. IsFiniteSet(Pend') /\ Cardinality(Pend') = Cardinality(Pend) + 1
    BY <1>4, <2>2, <2>3, FS_AddElement
  <2>5. pending' = pending
    BY <1>6 DEF Register, RefusesLate
  <2> QED
    BY SMT, <1>1, <1>2, <1>4, <2>2, <2>4, <2>5 DEF IndInv, CountInv
<1> QED
  BY <1>5, <1>6

\* The accept loop holds no slot or one.
LEMMA AcceptedCount ==
    ASSUME IndInv
    PROVE  Cardinality(accepted) \in Nat
<1>1. accepted = {} \/ \E d \in accepted : accepted = {d}
  BY DEF IndInv, AcceptInv
<1> QED
  BY SMTT(30), <1>1, FS_EmptySet, FS_Singleton

\* One connection leaves the set of slot owners and the counter follows.
LEMMA LeaveCount ==
    ASSUME IndInv, NEW c \in Conns, NEW kind \in {"tcp", "udp", "website"},
           At(c, "header"), LeavePending(c, kind), accepted' = accepted
    PROVE  /\ IsFiniteSet(Pend') /\ pending' \in Int
           /\ pending' = Cardinality(accepted') + Cardinality(Pend')
           /\ pending' <= MaxPending
           /\ kind # "website" => Web' = Web
           /\ kind = "website" => Web' = Web \cup {c} /\ c \notin Web
<1>1. handler[c].pending /\ ~handler[c].slot
  BY DEF IndInv, ConnInv, HoldsInv, At, Unserved
<1>2. Becomes(c, "dial", kind, FALSE, kind = "website")
  BY LeaveBecomes DEF IndInv
<1>3. Pend' = Pend \ {c} /\ c \in Pend
  BY <1>1, <1>2 DEF Pend, Becomes
<1>4. IsFiniteSet(Pend) /\ Cardinality(Pend) \in Nat
  BY FS_CardinalityType DEF IndInv, CountInv
<1>5. IsFiniteSet(Pend') /\ Cardinality(Pend') = Cardinality(Pend) - 1
  BY <1>3, <1>4, FS_RemoveElement
<1>6. Cardinality(accepted) \in Nat
  BY AcceptedCount
<1>7. kind # "website" => Web' = Web
  BY <1>1, <1>2 DEF Web, Becomes
<1>8. kind = "website" => Web' = Web \cup {c} /\ c \notin Web
  BY <1>1, <1>2 DEF Web, Becomes
<1>9. pending' = pending - 1
  BY DEF LeavePending
<1>10. /\ pending \in Int /\ pending <= MaxPending
       /\ pending = Cardinality(accepted) + Cardinality(Pend)
  BY DEF IndInv, CountInv, TypeOK
<1>11. /\ pending' = Cardinality(accepted') + Cardinality(Pend')
       /\ pending' <= MaxPending /\ pending' \in Int
  BY SMTT(30), <1>4, <1>5, <1>6, <1>9, <1>10, TrojanAssumption
<1> QED
  BY <1>5, <1>7, <1>8, <1>11

\* A request returns its admission slot.
LEMMA RequestCount ==
    ASSUME IndInv, NEW c \in Conns, NEW kind \in {"tcp", "udp"}, ReadRequest(c, kind)
    PROVE  CountInv'
<1>1. /\ At(c, "header") /\ LeavePending(c, kind)
      /\ accepted' = accepted /\ website' = website
  BY DEF ReadRequest
<1>2. kind \in {"tcp", "udp", "website"} /\ kind # "website"
  OBVIOUS
<1> QED
  BY <1>1, <1>2, LeaveCount DEF IndInv, CountInv

\* A visit of the website exchanges its admission slot for one of the website.
LEMMA OtherCount ==
    ASSUME IndInv, NEW c \in Conns, ReadOther(c)
    PROVE  CountInv'
<1>1. At(c, "header") /\ accepted' = accepted
  BY DEF ReadOther
<1>2. CASE website < MaxWebsite
  <2>1. website' = website + 1 /\ LeavePending(c, "website")
    BY <1>2 DEF ReadOther
  <2>2. /\ IsFiniteSet(Pend')
        /\ pending' = Cardinality(accepted') + Cardinality(Pend')
        /\ pending' <= MaxPending
        /\ Web' = Web \cup {c} /\ c \notin Web
    BY <1>1, <2>1, LeaveCount
  <2>3. IsFiniteSet(Web) /\ Cardinality(Web) \in Nat /\ website = Cardinality(Web)
    BY FS_CardinalityType DEF IndInv, CountInv
  <2>4. IsFiniteSet(Web') /\ Cardinality(Web') = Cardinality(Web) + 1
    BY <2>2, <2>3, FS_AddElement
  <2>5. website' <= MaxWebsite
    BY SMT, <1>2, <2>1, <2>3, TrojanAssumption
  <2> QED
    BY <2>1, <2>2, <2>3, <2>4, <2>5 DEF CountInv
<1>3. CASE ~(website < MaxWebsite)
  <2>1. "refuse" \in Places
    BY DEF Places, Running
  <2> QED
    BY <1>3, <2>1, GoKeepsSlots, SlotsKeptCount DEF ReadOther, SlotsKept, IndInv
<1> QED
  BY <1>2, <1>3

\* The deferred function returns what the handler still holds.
LEMMA CleanupCount ==
    ASSUME IndInv, NEW c \in Conns, Cleanup(c)
    PROVE  CountInv'
<1>1. Becomes(c, "done", handler[c].kind, FALSE, FALSE)
  BY CleanupBecomes DEF IndInv
<1>2. Pend' = Pend \ {c} /\ Web' = Web \ {c}
  BY <1>1 DEF Pend, Web, Becomes
<1>3. /\ IsFiniteSet(Pend) /\ Cardinality(Pend) \in Nat
      /\ IsFiniteSet(Web) /\ Cardinality(Web) \in Nat
  BY FS_CardinalityType DEF IndInv, CountInv
<1>4. /\ IsFiniteSet(Pend')
      /\ Cardinality(Pend') = IF c \in Pend THEN Cardinality(Pend) - 1 ELSE Cardinality(Pend)
  BY <1>2, <1>3, FS_RemoveElement
<1>5. /\ IsFiniteSet(Web')
      /\ Cardinality(Web') = IF c \in Web THEN Cardinality(Web) - 1 ELSE Cardinality(Web)
  BY <1>2, <1>3, FS_RemoveElement
<1>6. /\ pending' = IF c \in Pend THEN pending - 1 ELSE pending
      /\ website' = IF c \in Web THEN website - 1 ELSE website
      /\ accepted' = accepted
  BY DEF Cleanup, Pend, Web
<1>7. Cardinality(accepted) \in Nat
  BY AcceptedCount
<1>8. /\ pending = Cardinality(accepted) + Cardinality(Pend) /\ website = Cardinality(Web)
      /\ pending <= MaxPending /\ website <= MaxWebsite
  BY DEF IndInv, CountInv
<1> QED
  BY SMT, <1>3, <1>4, <1>5, <1>6, <1>7, <1>8, TrojanAssumption DEF CountInv

\* Every step keeps the counts.
LEMMA CountStep ==
    ASSUME IndInv, [Next]_vars
    PROVE  CountInv'
<1>1. TypeOK /\ Running \subseteq Places
  BY DEF IndInv, Places
<1>2. ASSUME NEW c \in Conns, Establish(c) PROVE CountInv'
  <2>1. CASE Handshake(c) \/ Drop(c) \/ Dial(c) \/ SetUpstream(c) \/ Publish(c)
    <3>1. \/ handler' = handler
          \/ \E p \in Running : Go(c, p)
      BY <2>1 DEF Handshake, Drop, Dial, SetUpstream, Publish, Running
    <3>2. accepted' = accepted /\ pending' = pending /\ website' = website
      BY <2>1 DEF Handshake, Drop, Dial, SetUpstream, Publish
    <3> QED
      BY <1>1, <3>1, <3>2, GoKeepsSlots, SlotsKeptCount DEF SlotsKept
  <2> QED
    BY <1>2, <2>1, AcceptCount, RegisterCount, RequestCount, OtherCount DEF
       Establish
<1>3. ASSUME NEW c \in Conns, Finish(c) PROVE CountInv'
  <2>1. CASE FirstEnds(c) \/ IdleCloses(c) \/ RelayEnds(c) \/ Withdraw(c)
    <3>1. \/ handler' = handler
          \/ \E p \in Running : Go(c, p)
      BY <2>1 DEF FirstEnds, HalfClosed, IdleCloses, RelayEnds, Withdraw,
         StopEvents, Running
    <3>2. accepted' = accepted /\ pending' = pending /\ website' = website
      BY <2>1 DEF FirstEnds, IdleCloses, RelayEnds, Withdraw
    <3> QED
      BY <1>1, <3>1, <3>2, GoKeepsSlots, SlotsKeptCount DEF SlotsKept
  <2> QED
    BY SMT, <1>3, <2>1, CleanupCount DEF Finish
<1>4. ASSUME NEW c \in Conns, NEW d \in Directions, Copy(c, d) PROVE CountInv'
  BY <1>4, SlotsKeptCount DEF SlotsKept, Copy, Read, ReadEnds, Admit, Write,
     WriteFails
<1>5. ServeReturns \/ Close \/ CloseConnections \/ CloseReturns \/ UNCHANGED vars => CountInv'
  BY SlotsKeptCount DEF SlotsKept, ServeReturns, Close, CloseConnections,
     CloseReturns, vars
<1> QED
  BY <1>2, <1>3, <1>4, <1>5 DEF Next
----------------------------------------------------------------------------
\* The invariant holds when serving starts, whatever was refused before.
LEMMA InitInv ==
    ASSUME NEW refused \in SUBSET Conns, NEW payloads \in Nat, InitAfter(refused, payloads)
    PROVE  IndInv
<1>1. \A c \in Conns : handler[c] \in Handlers /\ handler[c].at \in {"outside", "done"}
                       /\ ~handler[c].pending /\ ~handler[c].slot /\ handler[c].kind = "none"
  BY DEF InitAfter, Fresh, Handlers, Places
<1>2. TypeOK
  <2>1. handler \in [Conns -> Handlers]
    BY <1>1 DEF InitAfter
  <2>2. copy \in [Conns -> Copies] /\ charged \in [Conns -> Counts] /\ forwarded \in [Conns -> Counts]
    BY DEF InitAfter, Copies, Counts
  <2>3. DOMAIN table \subseteq Conns /\ table \in [DOMAIN table -> SUBSET {1}]
    BY DEF InitAfter, NoSessions
  <2> QED
    BY SMTT(30), <2>1, <2>2, <2>3 DEF InitAfter, TypeOK
<1>3. AcceptInv
  BY DEF InitAfter, AcceptInv
<1>4. CountInv
  <2>1. Pend = {} /\ Web = {}
    BY <1>1 DEF Pend, Web
  <2> QED
    BY SMT, <2>1, FS_EmptySet, TrojanAssumption DEF CountInv, InitAfter
<1>5. ASSUME NEW c \in Conns PROVE ConnInv(c)
  <2>1. PlaceInv(c) /\ HoldsInv(c)
    BY <1>1 DEF PlaceInv, HoldsInv, InitAfter, Unserved, Served, Running
  <2>2. PayloadInv(c)
    BY SMT DEF PayloadInv, InitAfter
  <2>3. PublishedInv(c)
    BY <1>1 DEF PublishedInv, InitAfter, NoSessions, At, Served
  <2> QED
    BY <2>1, <2>2, <2>3 DEF ConnInv
<1> QED
  BY <1>2, <1>3, <1>4, <1>5 DEF IndInv

\* The inductive invariant of the listener: what every handler holds at each of
\* its places, and how many slots are out.
THEOREM Invariance == Spec => []IndInv
<1>1. Init => IndInv
  BY InitInv DEF Init
<1>2. IndInv /\ [Next]_vars => IndInv'
  BY ConnStep, AcceptInvStep, CountStep DEF IndInv
<1> QED
  BY <1>1, <1>2, PTL DEF Spec

\* The channels pending and fallback.slots count exactly the handlers that own a
\* slot, on every path through handle, and no handler that serves owns one.
THEOREM SlotsTheorem == Spec => []SlotsExact
<1>1. IndInv => SlotsExact
  BY DEF IndInv, CountInv, ConnInv, HoldsInv, SlotsExact, Pend, Web, Unserved
<1> QED
  BY <1>1, Invariance, PTL

\* The admission limit limits what it is meant to: never more than MaxPending
\* connections are in a handshake, a header or a refusal at the same time.
THEOREM AdmissionTheorem ==
    Spec => [](Cardinality({c \in Conns : handler[c].at \in Unserved}) <= MaxPending)
<1>1. IndInv => Cardinality({c \in Conns : handler[c].at \in Unserved}) <= MaxPending
  <2> SUFFICES ASSUME IndInv
               PROVE  Cardinality({c \in Conns : handler[c].at \in Unserved}) <= MaxPending
    OBVIOUS
  <2> DEFINE U == {c \in Conns : handler[c].at \in Unserved}
  <2>1. U \subseteq Pend
    BY DEF IndInv, ConnInv, HoldsInv, Pend
  <2>2. /\ IsFiniteSet(Pend) /\ Cardinality(Pend) \in Nat
        /\ pending = Cardinality(accepted) + Cardinality(Pend) /\ pending <= MaxPending
    BY FS_CardinalityType DEF IndInv, CountInv
  <2>3. Cardinality(U) \in Nat /\ Cardinality(U) <= Cardinality(Pend)
    BY <2>1, <2>2, FS_Subset, FS_CardinalityType
  <2>4. Cardinality(accepted) \in Nat
    BY AcceptedCount
  <2> QED
    BY SMT, <2>2, <2>3, <2>4, TrojanAssumption
<1> QED
  BY <1>1, Invariance, PTL

\* Once Close has returned, no socket of the listener is open, nothing is
\* published and no handler runs, so the final flush misses no charge.
THEOREM QuietTheorem == Spec => []ClosedIsQuiet
<1>1. IndInv => ClosedIsQuiet
  <2> SUFFICES ASSUME IndInv PROVE ClosedIsQuiet
    OBVIOUS
  <2>1. closer \in {"waiting", "returned"} => \A c \in upstream : At(c, "dialed")
    BY DEF IndInv, TypeOK, ConnInv, PlaceInv
  <2>2. ASSUME closer = "returned"
        PROVE  /\ upstream = {} /\ online = {} /\ DOMAIN table = {}
               /\ client \subseteq accepted
               /\ \A c \in Conns : handler[c].at \notin Running
    BY ZenonT(30), <2>2, <2>1 DEF IndInv, TypeOK, ConnInv, PlaceInv,
       PublishedInv, At, Running, Served
  <2>3. DOMAIN table = {} => table = NoSessions
    BY DEF IndInv, TypeOK, NoSessions
  <2> QED
    BY <2>1, <2>2, <2>3 DEF ClosedIsQuiet
<1> QED
  BY <1>1, Invariance, PTL

\* No payload of a proxy request is forwarded before the kernel admitted it.
THEOREM ChargedTheorem == Spec => []ChargedFirst
<1>1. IndInv => ChargedFirst
  BY DEF IndInv, ConnInv, PayloadInv, ChargedFirst
<1> QED
  BY <1>1, Invariance, PTL
----------------------------------------------------------------------------
\* Publish takes the steps Connected, Online and Start of the registry.
LEMMA PublishImplements ==
    ASSUME IndInv, NEW c \in Conns, Publish(c)
    PROVE  Registry!Next
<1>1. At(c, "publish") => (c \in DOMAIN table => table[c] = {}) /\ (c \in online => c \in DOMAIN table)
  BY DEF IndInv, ConnInv, PublishedInv
<1>2. Registry!Connected(c) \/ Registry!Online(c) \/ Registry!Start(c, 1)
  BY <1>1 DEF Publish, ConnectSession, LogOnlineState, StartRequest,
              Registry!Connected, Registry!Online, Registry!Start
<1> QED
  BY <1>2 DEF Registry!Next

\* Withdraw takes the steps Stop, Offline and Disconnected.
LEMMA WithdrawImplements ==
    ASSUME IndInv, NEW c \in Conns, Withdraw(c)
    PROVE  Registry!Next
<1>1. At(c, "withdraw") => /\ c \in DOMAIN table /\ table[c] \in SUBSET {1}
                           /\ c \notin online => table[c] = {}
  BY DEF IndInv, ConnInv, PublishedInv, TypeOK
<1>2. At(c, "withdraw") /\ StopEvents(c)
  BY DEF Withdraw
<1>3. Registry!Stop(c, 1) \/ Registry!Offline(c) \/ Registry!Disconnected(c)
  BY <1>1, <1>2 DEF StopEvents, DisconnectSession, LogOnlineState, StopRequest,
     Restrict, Registry!Stop, Registry!Offline, Registry!Disconnected,
     Registry!Restrict
<1> QED
  BY <1>3 DEF Registry!Next

\* Every other step leaves the registry alone.
LEMMA StepImplements ==
    ASSUME IndInv, [Next]_vars
    PROVE  [Registry!Next]_(Registry!registry)
<1>1. ASSUME NEW c \in Conns, Establish(c), ~Publish(c) PROVE UNCHANGED events
  BY <1>1 DEF Establish, Accept, Register, Handshake, Drop, ReadOther,
     ReadRequest, Dial, SetUpstream
<1>2. ASSUME NEW c \in Conns, Finish(c), ~Withdraw(c) PROVE UNCHANGED events
  BY <1>2 DEF Finish, FirstEnds, IdleCloses, RelayEnds, Cleanup
<1>3. ASSUME NEW c \in Conns, NEW d \in Directions, Copy(c, d) PROVE UNCHANGED events
  BY <1>3 DEF Copy, Read, ReadEnds, Admit, Write, WriteFails
<1>4. ServeReturns \/ Close \/ CloseConnections \/ CloseReturns \/ UNCHANGED vars
      => UNCHANGED events
  BY DEF ServeReturns, Close, CloseConnections, CloseReturns, vars
<1>5. UNCHANGED events => UNCHANGED Registry!registry
  BY DEF events, Registry!registry
<1> QED
  BY SMT, <1>1, <1>2, <1>3, <1>4, <1>5, PublishImplements,
     WithdrawImplements DEF
     Next

\* The listener implements the registry the panel relies on: a session is
\* connected first, counted once, and disconnected last with no request left.
THEOREM RegistryTheorem == Spec => ImplementsRegistry
<1>1. Init => Registry!Init
  BY DEF Init, InitAfter, NoSessions, Registry!Init
<1> QED
  BY <1>1, StepImplements, Invariance, PTL DEF Spec, ImplementsRegistry,
     Registry!Spec
=============================================================================
