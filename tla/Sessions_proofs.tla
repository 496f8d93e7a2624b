--------------------------- MODULE Sessions_proofs --------------------------
(***************************************************************************)
(* Theorems of Sessions for any sessions, wallets, requests in flight and  *)
(* failures: its types, and that a wallet drives one session at a time.    *)
(*                                                                         *)
(* The first rests on what a request carries to each of its awaits; the    *)
(* second is inductive by itself, because only the two statements that     *)
(* write a wallet can break it and the unique index guards both.           *)
(***************************************************************************)
EXTENDS Sessions, TLAPS

Modes     == {"mock", "live"}
Samplings == {None, "on", "off"}

Req == [kind: {"none", "create", "attach", "patch", "mode"},
        at: {"idle", "eligible", "read", "write", "insert", "set", "sweep", "mode", "list", "close"},
        s: Session \cup {NoSession}, w: Wallet \cup {None},
        val: {None, "on", "off", "mock", "live"}, list: SUBSET Session]

\* What a request carries to the await it is in.
Carries(q) ==
  /\ q.kind = "create" => q.val = "on"
  /\ q.at = "read" => q.val \in Samplings
  /\ q.at = "write" => q.val \in {"on", "off"}
  /\ q.at = "mode" => q.val \in Modes

ReqOK == req \in [Request -> Req] /\ \A r \in Request : Carries(req[r])

RowsOK ==
  /\ status \in [Session -> SessionStatus]
  /\ wallet \in [Session -> Wallet \cup {None}]

DocOK(f) == f \in [mode: Modes, sampling: Samplings]

LinkOK == link \in [Docs -> {"down", "loaded", "watching"}] /\ pending \in [Docs -> BOOLEAN]

StoreOK ==
  /\ store \in [Session -> [status: SessionStatus \ {"closed"}, wallet: Wallet \cup {None}]]
  /\ seen \subseteq Session

CountOK == sent \in 0..MaxRequests /\ faults \in 0..MaxFaults

SessionsInv == DocOK(doc) /\ RowsOK /\ ReqOK /\ DocOK(copy) /\ LinkOK /\ StoreOK /\ CountOK

-----------------------------------------------------------------------------
LEMMA InvTypes == SessionsInv => TypeOK
  BY DEF SessionsInv, TypeOK, DocOK, RowsOK, ReqOK, Req, LinkOK, StoreOK, CountOK, Modes, Samplings

LEMMA InitInv == Init => SessionsInv
  BY SessionsAssumption
  DEF Init, SessionsInv, DocOK, RowsOK, ReqOK, Req, Carries, LinkOK, StoreOK, CountOK, Modes,
      Samplings, NoReq, Absent, SessionStatus, None, NoSession, Docs

LEMMA NoReqTyped == NoReq \in Req /\ Carries(NoReq)
  BY DEF NoReq, Req, Carries, None, NoSession

\* A request goes on as q.
LEMMA ReqTyped ==
  ASSUME ReqOK, NEW r \in Request, NEW q \in Req, Carries(q), req' = [req EXCEPT ![r] = q]
  PROVE  ReqOK'
BY DEF ReqOK

LEMMA RespondTyped ==
  ASSUME ReqOK, NEW r \in Request, Respond(r)
  PROVE  ReqOK'
BY NoReqTyped, ReqTyped DEF Respond

\* ... or keeps what it carries and goes on to an await that says nothing of it.
LEMMA GoTyped ==
  ASSUME ReqOK, NEW r \in Request,
         NEW at \in {"eligible", "read", "insert", "set", "sweep", "list", "close"}, Go(r, at),
         at = "read" => req[r].kind = "create"
  PROVE  ReqOK'
<1> DEFINE q == [req[r] EXCEPT !.at = at]
<1>1. q \in Req /\ Carries(q)
  BY DEF ReqOK, Req, Carries, Samplings
<1>2. req' = [req EXCEPT ![r] = q]
  BY DEF Go, ReqOK
<1> QED  BY <1>1, <1>2, ReqTyped

LEMMA SentTyped == ASSUME CountOK, Sent, UNCHANGED faults PROVE CountOK'
  BY SessionsAssumption DEF CountOK, Sent

LEMMA FaultTyped == ASSUME CountOK, Fault \/ UNCHANGED faults, UNCHANGED sent PROVE CountOK'
  BY SessionsAssumption DEF CountOK, Fault

LEMMA HardCloseTyped == ASSUME RowsOK, NEW S, HardClose(S), UNCHANGED wallet PROVE RowsOK'
  BY DEF RowsOK, HardClose, SessionStatus

LEMMA WriteTyped ==
  ASSUME DocOK(doc), LinkOK, UNCHANGED link,
         \/ \E v \in Modes : Write("mode", v)
         \/ \E v \in Samplings : Write("sampling", v)
  PROVE  DocOK(doc') /\ LinkOK'
<1>1. DocOK(doc')
  BY DEF DocOK, Write
<1>2. LinkOK'
  BY DEF LinkOK, Write
<1> QED  BY <1>1, <1>2

-----------------------------------------------------------------------------
(* Types.                                                                  *)

LEMMA ArriveTyped ==
  ASSUME SessionsInv, NEW r \in Request, Arrive(r)
  PROVE  SessionsInv'
<1> USE DEF SessionsInv
<1>1. ReqOK'
  <2>1. \E q \in Req : Carries(q) /\ req' = [req EXCEPT ![r] = q]
    <3>1. ASSUME NEW s \in Session, NEW w \in Wallet \cup {None},
                 req' = [req EXCEPT ![r] = [NoReq EXCEPT !.kind = "create", !.s = s, !.w = w,
                           !.at = IF w = None THEN "read" ELSE "eligible", !.val = "on"]]
          PROVE  \E q \in Req : Carries(q) /\ req' = [req EXCEPT ![r] = q]
      <4> DEFINE q == [NoReq EXCEPT !.kind = "create", !.s = s, !.w = w,
                     !.at = IF w = None THEN "read" ELSE "eligible", !.val = "on"]
      <4>1. q \in Req /\ Carries(q)
        BY DEF NoReq, Req, Carries, Samplings
      <4> QED  BY <3>1, <4>1
    <3>2. ASSUME NEW s \in Session, NEW w \in Wallet,
                 req' = [req EXCEPT ![r] = [NoReq EXCEPT !.kind = "attach", !.s = s, !.w = w,
                           !.at = "eligible"]]
          PROVE  \E q \in Req : Carries(q) /\ req' = [req EXCEPT ![r] = q]
      <4> DEFINE q == [NoReq EXCEPT !.kind = "attach", !.s = s, !.w = w, !.at = "eligible"]
      <4>1. q \in Req /\ Carries(q)
        BY DEF NoReq, Req, Carries, None
      <4> QED  BY <3>2, <4>1
    <3>3. ASSUME NEW v \in {"on", "off", None},
                 req' = [req EXCEPT ![r] = [NoReq EXCEPT !.kind = "patch", !.at = "read", !.val = v]]
          PROVE  \E q \in Req : Carries(q) /\ req' = [req EXCEPT ![r] = q]
      <4> DEFINE q == [NoReq EXCEPT !.kind = "patch", !.at = "read", !.val = v]
      <4>1. q \in Req /\ Carries(q)
        BY DEF NoReq, Req, Carries, Samplings
      <4> QED  BY <3>3, <4>1
    <3>4. ASSUME NEW m \in {"mock", "live"},
                 req' = [req EXCEPT ![r] = [NoReq EXCEPT !.kind = "mode", !.at = "mode", !.val = m]]
          PROVE  \E q \in Req : Carries(q) /\ req' = [req EXCEPT ![r] = q]
      <4> DEFINE q == [NoReq EXCEPT !.kind = "mode", !.at = "mode", !.val = m]
      <4>1. q \in Req /\ Carries(q)
        BY DEF NoReq, Req, Carries, Modes
      <4> QED  BY <3>4, <4>1
    <3> QED  BY <3>1, <3>2, <3>3, <3>4 DEF Arrive
  <2> QED  BY <2>1, ReqTyped
<1>2. CountOK'
  BY SentTyped DEF Arrive
<1> QED
  BY <1>1, <1>2 DEF Arrive, engineVars, DocOK, RowsOK, LinkOK, StoreOK

LEMMA ReadConfigTyped ==
  ASSUME SessionsInv, NEW r \in Request, ReadConfig(r)
  PROVE  SessionsInv'
<1> USE DEF SessionsInv
<1> DEFINE v == IF req[r].val # None THEN req[r].val
                ELSE IF doc.sampling = None THEN "off" ELSE doc.sampling
           S == IF req[r].val = "off" THEN Session ELSE {}
           q == [req[r] EXCEPT !.at = "write", !.val = v, !.list = S]
<1>1. doc.sampling \in Samplings
  BY DEF DocOK
<1>2. req[r] \in Req /\ Carries(req[r]) /\ req[r].at = "read"
  BY DEF ReadConfig, ReqOK
<1>3. v \in {"on", "off"} /\ (req[r].kind = "create" => v = "on")
  BY <1>1, <1>2 DEF Carries, Samplings, None
<1>4. S \in SUBSET Session
  OBVIOUS
<1>5. req' = [req EXCEPT ![r] = q]
  BY <1>2 DEF ReadConfig, ReqOK
<1> HIDE DEF v, S
<1>6. q \in Req /\ Carries(q)
  BY <1>2, <1>3, <1>4 DEF Req, Carries
<1> HIDE DEF q
<1>7. ReqOK'
  BY <1>5, <1>6, ReqTyped
<1> QED
  BY <1>7 DEF ReadConfig, engineVars, DocOK, RowsOK, LinkOK, StoreOK, CountOK

LEMMA ListLiveTyped ==
  ASSUME SessionsInv, NEW r \in Request, ListLive(r)
  PROVE  SessionsInv'
<1> USE DEF SessionsInv
<1> DEFINE S == {s \in Session : status[s] \notin {"none", "closed"} /\ OnLiveWallet(s)}
           q == [req[r] EXCEPT !.at = "close", !.list = S]
<1>1. q \in Req /\ Carries(q)
  BY DEF ReqOK, Req, Carries
<1>2. req' = [req EXCEPT ![r] = q]
  BY DEF ListLive, ReqOK, Req
<1>3. ReqOK'
  BY <1>1, <1>2, ReqTyped
<1> QED
  BY <1>3 DEF ListLive, engineVars, DocOK, RowsOK, LinkOK, StoreOK, CountOK

LEMMA CloseListedTyped ==
  ASSUME SessionsInv, NEW r \in Request, CloseListed(r)
  PROVE  SessionsInv'
<1> USE DEF SessionsInv
<1>1. CASE Respond(r) /\ UNCHANGED status
  BY <1>1, RespondTyped DEF CloseListed, engineVars, DocOK, RowsOK, LinkOK, StoreOK, CountOK
<1>2. ASSUME NEW s \in req[r].list, HardClose({s}), req' = [req EXCEPT ![r].list = @ \ {s}]
      PROVE  SessionsInv'
  <2> DEFINE q == [req[r] EXCEPT !.list = @ \ {s}]
  <2>1. q \in Req /\ Carries(q)
    BY DEF ReqOK, Req, Carries
  <2>2. req' = [req EXCEPT ![r] = q]
    BY <1>2 DEF ReqOK, Req
  <2>3. ReqOK'
    BY <2>1, <2>2, ReqTyped
  <2>4. RowsOK'
    BY <1>2, HardCloseTyped DEF CloseListed
  <2> QED
    BY <2>3, <2>4 DEF CloseListed, engineVars, DocOK, LinkOK, StoreOK, CountOK
<1> QED  BY <1>1, <1>2 DEF CloseListed

LEMMA HandlerTyped ==
  ASSUME SessionsInv, NEW r \in Request, Handler(r)
  PROVE  SessionsInv'
<1> USE DEF SessionsInv
<1>1. CASE Eligible(r)
  <2>1. ReqOK'
    BY <1>1, RespondTyped, GoTyped DEF Eligible
  <2> QED  BY <1>1, <2>1 DEF Eligible, engineVars, DocOK, RowsOK, LinkOK, StoreOK, CountOK
<1>2. CASE ReadConfig(r)
  BY <1>2, ReadConfigTyped
<1>3. CASE WriteConfig(r)
  <2>1. req[r].val \in Samplings
    BY <1>3 DEF WriteConfig, ReqOK, Carries, Samplings
  <2>2. DocOK(doc') /\ LinkOK'
    BY <1>3, <2>1, WriteTyped DEF WriteConfig
  <2>3. ReqOK'
    BY <1>3, RespondTyped, GoTyped DEF WriteConfig
  <2> QED  BY <1>3, <2>2, <2>3 DEF WriteConfig, DocOK, RowsOK, StoreOK, CountOK
<1>4. CASE Insert(r)
  <2>1. ReqOK'
    BY <1>4, RespondTyped DEF Insert
  <2>2. req[r].w \in Wallet \cup {None}
    BY DEF ReqOK, Req
  <2>3. RowsOK'
    BY <1>4, <2>2 DEF Insert, RowsOK, SessionStatus
  <2> QED  BY <1>4, <2>1, <2>3 DEF Insert, engineVars, DocOK, LinkOK, StoreOK, CountOK
<1>5. CASE SetWallet(r)
  <2>1. ReqOK'
    BY <1>5, RespondTyped DEF SetWallet
  <2>2. req[r].w \in Wallet \cup {None}
    BY DEF ReqOK, Req
  <2>3. RowsOK'
    BY <1>5, <2>2 DEF SetWallet, RowsOK
  <2> QED  BY <1>5, <2>1, <2>3 DEF SetWallet, engineVars, DocOK, LinkOK, StoreOK, CountOK
<1>6. CASE SweepMarket(r)
  <2>1. ReqOK' /\ RowsOK'
    BY <1>6, RespondTyped, HardCloseTyped DEF SweepMarket
  <2> QED  BY <1>6, <2>1 DEF SweepMarket, engineVars, DocOK, LinkOK, StoreOK, CountOK
<1>7. CASE SetMode(r)
  <2>1. req[r].val \in Modes
    BY <1>7 DEF SetMode, ReqOK, Carries
  <2>2. DocOK(doc') /\ LinkOK'
    BY <1>7, <2>1, WriteTyped DEF SetMode
  <2>3. ReqOK'
    BY <1>7, RespondTyped, GoTyped DEF SetMode
  <2> QED  BY <1>7, <2>2, <2>3 DEF SetMode, DocOK, RowsOK, StoreOK, CountOK
<1>8. CASE ListLive(r) \/ CloseListed(r)
  BY <1>8, ListLiveTyped, CloseListedTyped
<1> QED  BY <1>1, <1>2, <1>3, <1>4, <1>5, <1>6, <1>7, <1>8 DEF Handler

\* The requests that are one statement, and a request that is lost.
LEMMA StatementTyped ==
  ASSUME SessionsInv,
         \/ \E s \in Session : SoftClose(s) \/ HardCloseOne(s) \/ Detach(s) \/ Finish(s)
         \/ \E r \in Request : RequestDies(r)
  PROVE  SessionsInv'
<1> USE DEF SessionsInv
<1>1. ASSUME NEW s \in Session, SoftClose(s)
      PROVE  SessionsInv'
  <2>1. CountOK' /\ RowsOK'
    BY <1>1, SentTyped DEF SoftClose, RowsOK, SessionStatus
  <2> QED  BY <1>1, <2>1 DEF SoftClose, engineVars, DocOK, ReqOK, LinkOK, StoreOK
<1>2. ASSUME NEW s \in Session, HardCloseOne(s)
      PROVE  SessionsInv'
  <2>1. CountOK' /\ RowsOK'
    BY <1>2, SentTyped, HardCloseTyped DEF HardCloseOne
  <2> QED  BY <1>2, <2>1 DEF HardCloseOne, engineVars, DocOK, ReqOK, LinkOK, StoreOK
<1>3. ASSUME NEW s \in Session, Detach(s)
      PROVE  SessionsInv'
  <2>1. CountOK' /\ RowsOK'
    BY <1>3, SentTyped DEF Detach, RowsOK
  <2> QED  BY <1>3, <2>1 DEF Detach, engineVars, DocOK, ReqOK, LinkOK, StoreOK
<1>4. ASSUME NEW s \in Session, Finish(s)
      PROVE  SessionsInv'
  <2>1. RowsOK'
    BY <1>4 DEF Finish, RowsOK, SessionStatus
  <2> QED  BY <1>4, <2>1 DEF Finish, engineVars, DocOK, ReqOK, LinkOK, StoreOK, CountOK
<1>5. ASSUME NEW r \in Request, RequestDies(r)
      PROVE  SessionsInv'
  <2>1. CountOK' /\ ReqOK'
    BY <1>5, FaultTyped, RespondTyped DEF RequestDies
  <2> QED  BY <1>5, <2>1 DEF RequestDies, engineVars, DocOK, RowsOK, LinkOK, StoreOK
<1> QED  BY <1>1, <1>2, <1>3, <1>4, <1>5

LEMMA CopyTyped ==
  ASSUME DocOK(doc), DocOK(copy), NEW d \in Docs, copy' = [copy EXCEPT ![d] = doc[d]]
  PROVE  DocOK(copy')
<1>1. CASE d = "mode"
  BY <1>1 DEF DocOK
<1>2. CASE d = "sampling"
  BY <1>2 DEF DocOK
<1> QED  BY <1>1, <1>2 DEF Docs

LEMMA WatcherTyped ==
  ASSUME SessionsInv, NEW d \in Docs, Watcher(d) \/ Disconnect(d)
  PROVE  SessionsInv'
<1> USE DEF SessionsInv
<1>1. CASE Load(d)
  <2>1. DocOK(copy') /\ LinkOK'
    BY <1>1, CopyTyped DEF Load, LinkOK
  <2> QED  BY <1>1, <2>1 DEF Load, apiVars, DocOK, RowsOK, ReqOK, StoreOK, CountOK
<1>2. CASE Watch(d)
  BY <1>2 DEF Watch, apiVars, DocOK, RowsOK, ReqOK, LinkOK, StoreOK, CountOK
<1>3. CASE Event(d)
  <2>1. DocOK(copy') /\ LinkOK'
    BY <1>3, CopyTyped DEF Event, LinkOK
  <2> QED  BY <1>3, <2>1 DEF Event, apiVars, DocOK, RowsOK, ReqOK, StoreOK, CountOK
<1>4. CASE Disconnect(d)
  <2>1. CountOK' /\ LinkOK'
    BY <1>4, FaultTyped DEF Disconnect, apiVars, LinkOK
  <2> QED  BY <1>4, <2>1 DEF Disconnect, apiVars, DocOK, RowsOK, ReqOK, StoreOK
<1> QED  BY <1>1, <1>2, <1>3, <1>4 DEF Watcher

LEMMA LoopTyped ==
  ASSUME SessionsInv, Poll \/ Guard \/ Crash
  PROVE  SessionsInv'
<1> USE DEF SessionsInv
<1>1. CASE Poll
  <2>1. StoreOK'
    BY <1>1 DEF Poll, StoreOK, RowsOK, Absent, SessionStatus
  <2> QED  BY <1>1, <2>1 DEF Poll, apiVars, DocOK, RowsOK, ReqOK, LinkOK, CountOK
<1>2. CASE Guard
  <2>1. RowsOK'
    BY <1>2, HardCloseTyped DEF Guard, RowsOK
  <2>2. CountOK'
    BY <1>2, FaultTyped DEF Guard
  <2>3. StoreOK'
    BY <1>2 DEF Guard, StoreOK, Violating
  <2> QED  BY <1>2, <2>1, <2>2, <2>3 DEF Guard, DocOK, ReqOK, LinkOK
<1>3. CASE Crash
  <2>1. DocOK(copy') /\ LinkOK'
    BY <1>3 DEF Crash, DocOK, LinkOK, Modes, Samplings
  <2>2. StoreOK'
    BY <1>3 DEF Crash, StoreOK, Absent, SessionStatus
  <2>3. CountOK'
    BY <1>3, FaultTyped DEF Crash, apiVars
  <2> QED  BY <1>3, <2>1, <2>2, <2>3 DEF Crash, apiVars, DocOK, RowsOK, ReqOK
<1> QED  BY <1>1, <1>2, <1>3

LEMMA NextTyped == SessionsInv /\ [Next]_vars => SessionsInv'
<1>1. SessionsInv /\ Next => SessionsInv'
  BY ArriveTyped, HandlerTyped, StatementTyped, WatcherTyped, LoopTyped DEF Next
<1>2. SessionsInv /\ UNCHANGED vars => SessionsInv'
  BY DEF vars, apiVars, engineVars, SessionsInv, DocOK, RowsOK, ReqOK, LinkOK, StoreOK, CountOK
<1> QED  BY <1>1, <1>2

LEMMA Typed == Spec => []SessionsInv
  BY InitInv, NextTyped, PTL DEF Spec

\* The types of the control plane's rows, documents, requests and copies, for
\* any sessions, wallets and requests in flight.
THEOREM TypeCorrect == Spec => []TypeOK
  BY Typed, InvTypes, PTL

-----------------------------------------------------------------------------
(* A wallet drives one session.                                            *)

LEMMA OpenInit == Init => WalletExclusive
  BY DEF Init, WalletExclusive

\* No session opens, and those that are open keep their wallets.
LEMMA NothingOpens ==
  ASSUME WalletExclusive,
         \A s \in Session : status'[s] \notin {"none", "closed"} => status[s] \notin {"none", "closed"},
         \A s \in Session : wallet'[s] \in {wallet[s], None}
  PROVE  WalletExclusive'
BY DEF WalletExclusive, InUse

LEMMA HardCloseOpens ==
  ASSUME RowsOK, NEW S, HardClose(S), NEW s \in Session, status'[s] \notin {"none", "closed"}
  PROVE  status[s] \notin {"none", "closed"}
BY DEF RowsOK, HardClose

LEMMA InsertExclusive ==
  ASSUME SessionsInv, WalletExclusive, NEW r \in Request, Insert(r)
  PROVE  WalletExclusive'
<1> DEFINE s == req[r].s
           w == req[r].w
<1>1. CASE w # None /\ InUse(w, s)
  BY <1>1, NothingOpens DEF Insert
<1>2. CASE ~(w # None /\ InUse(w, s))
  <2>1. /\ status' = [status EXCEPT ![s] = "active"]
        /\ wallet' = [wallet EXCEPT ![s] = w]
    BY <1>2 DEF Insert
  <2>2. status \in [Session -> SessionStatus] /\ wallet \in [Session -> Wallet \cup {None}]
    BY DEF SessionsInv, RowsOK
  <2> HIDE DEF s, w
  <2> QED  BY <1>2, <2>1, <2>2 DEF WalletExclusive, InUse
<1> QED  BY <1>1, <1>2

LEMMA SetWalletExclusive ==
  ASSUME SessionsInv, WalletExclusive, NEW r \in Request, SetWallet(r)
  PROVE  WalletExclusive'
<1> DEFINE s == req[r].s
           w == req[r].w
<1>1. CASE status[s] # "closed" /\ InUse(w, s)
  BY <1>1, NothingOpens DEF SetWallet
<1>2. CASE ~(status[s] # "closed" /\ InUse(w, s))
  <2>1. status' = status /\ wallet' = [wallet EXCEPT ![s] = w]
    BY <1>2 DEF SetWallet
  <2>2. status \in [Session -> SessionStatus] /\ wallet \in [Session -> Wallet \cup {None}]
    BY DEF SessionsInv, RowsOK
  <2> HIDE DEF s, w
  <2> QED  BY <1>2, <2>1, <2>2 DEF WalletExclusive, InUse
<1> QED  BY <1>1, <1>2

LEMMA RestExclusive ==
  ASSUME SessionsInv, WalletExclusive, Next,
         \A r \in Request : ~Insert(r) /\ ~SetWallet(r)
  PROVE  WalletExclusive'
<1> USE DEF SessionsInv
<1>1. CASE UNCHANGED <<status, wallet>>
  BY <1>1, NothingOpens
<1>2. CASE (\E S : HardClose(S)) /\ UNCHANGED wallet
  BY <1>2, HardCloseOpens, NothingOpens
<1>3. CASE \E s \in Session : SoftClose(s) \/ Detach(s) \/ Finish(s)
  BY <1>3, NothingOpens DEF SoftClose, Detach, Finish, RowsOK
<1>4. ASSUME NEW r \in Request, Arrive(r) \/ Handler(r) \/ RequestDies(r)
      PROVE  UNCHANGED <<status, wallet>> \/ ((\E S : HardClose(S)) /\ UNCHANGED wallet)
  BY <1>4 DEF Arrive, Handler, RequestDies, Eligible, ReadConfig, WriteConfig, SweepMarket, SetMode,
              ListLive, CloseListed
<1>5. ASSUME NEW s \in Session, HardCloseOne(s)
      PROVE  (\E S : HardClose(S)) /\ UNCHANGED wallet
  BY <1>5 DEF HardCloseOne
<1>6. ASSUME Poll \/ Guard \/ Crash \/ \E d \in Docs : Watcher(d) \/ Disconnect(d)
      PROVE  UNCHANGED <<status, wallet>> \/ ((\E S : HardClose(S)) /\ UNCHANGED wallet)
  BY <1>6 DEF Poll, Guard, Crash, Watcher, Load, Watch, Event, Disconnect, apiVars
<1> QED  BY <1>1, <1>2, <1>3, <1>4, <1>5, <1>6 DEF Next

\* "A wallet may be attached to at most one non-closed session at a time"
\* (docs of wallets/eligibility.ts), for any number of sessions and wallets and
\* of requests between their check and their write.
THEOREM WalletsExclusive == Spec => []WalletExclusive
<1>1. SessionsInv /\ WalletExclusive /\ [Next]_vars => WalletExclusive'
  <2> SUFFICES ASSUME SessionsInv, WalletExclusive, [Next]_vars
               PROVE  WalletExclusive'
    OBVIOUS
  <2>1. CASE UNCHANGED vars
    BY <2>1, NothingOpens DEF vars, apiVars
  <2>2. CASE Next
    BY <2>2, InsertExclusive, SetWalletExclusive, RestExclusive
  <2> QED  BY <2>1, <2>2
<1> QED  BY <1>1, OpenInit, Typed, PTL DEF Spec
=============================================================================
