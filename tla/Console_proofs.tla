--------------------------- MODULE Console_proofs ---------------------------
(***************************************************************************)
(* Proofs about Console, for any pages, sessions, wallets, clients and     *)
(* number of failures: a session never names a wallet that is gone, and    *)
(* the pages, the API and what stands beside them keep their types.        *)
(*                                                                         *)
(* A wallet is only deleted when no row refers to it, and a row is only    *)
(* given a wallet there is. That alone is not enough: an attach may have   *)
(* been on its way since before, and must not fill in a row that does not  *)
(* count as one (Founded).                                                 *)
(***************************************************************************)
EXTENDS MCConsole, Panels_proofs

Fields(o, a, s, w, v, g, k) ==
  [op |-> o, at |-> a, s |-> s, w |-> w, v |-> v, got |-> g, code |-> k]

Shaped(x) == \E o, a, s, w, v, g, k : x = Fields(o, a, s, w, v, g, k)

\* A call that may set a session's wallet, or has created the session, is about
\* one that exists.
Founded(x) ==
  /\ x.code \in {"pending", "ok", "refused", "down"}
  /\ x.at = "done" => x.code # "pending"
  /\ (x.op \in {"attach", "detach"} \/ (x.op = "create" /\ x.code = "ok")) /\ x.s \in Session =>
       sess[x.s].status # "none"

\* Which requests come to the queries that write a session.
OnItsWay(x) ==
  /\ x.at = "sent" => x.op \in Ops
  /\ x.at \in {"existing", "eligible", "balance", "wallet"} => x.op \in {"create", "attach", "detach"}
  /\ x.at = "close" => x.op \in {"soft", "hard"}
  /\ x.op = "create" =>
       x.at \in {"sent", "eligible", "balance", "config", "write", "insert", "done"}

RowsInv ==
  /\ sess = [s \in Session |-> sess[s]]
  /\ \A s \in Session :
       /\ sess[s] = [status |-> sess[s].status, wallet |-> sess[s].wallet]
       /\ sess[s].status = "none" => sess[s].wallet = None

CallsInv ==
  /\ call = [c \in Client |-> call[c]]
  /\ \A c \in Client : Shaped(call[c]) /\ OnItsWay(call[c]) /\ Founded(call[c])

KeptInv == RowsInv /\ CallsInv /\ WalletKept

\* What a step may do to the rows: none goes back to not being one.
RowsKept ==
  /\ RowsInv' /\ WalletKept'
  /\ \A s \in Session : sess[s].status # "none" => sess'[s].status # "none"

-----------------------------------------------------------------------------
LEMMA RowsStay ==
  ASSUME KeptInv, UNCHANGED <<sess, wallets>>
  PROVE  RowsKept
BY DEF KeptInv, RowsInv, RowsKept, WalletKept

LEMMA CallsStay ==
  ASSUME KeptInv, RowsKept, UNCHANGED call
  PROVE  KeptInv'
BY DEF KeptInv, CallsInv, RowsKept, Founded, OnItsWay, Shaped

\* One client's call changes.
LEMMA CallChanges ==
  ASSUME KeptInv, RowsKept, NEW c \in Client, NEW x, Shaped(x), OnItsWay(x), Founded(x)',
         call' = [call EXCEPT ![c] = x]
  PROVE  KeptInv'
<1>1. call'[c] = x /\ \A d \in Client \ {c} : call'[d] = call[d]
  BY DEF KeptInv, CallsInv
<1>2. call' = [d \in Client |-> call'[d]]
  BY DEF KeptInv, CallsInv
<1>3. \A d \in Client : Shaped(call'[d]) /\ OnItsWay(call'[d]) /\ Founded(call[d])'
  BY <1>1 DEF KeptInv, CallsInv, RowsKept, Founded
<1> QED
  BY <1>2, <1>3 DEF KeptInv, CallsInv, RowsKept, Shaped, OnItsWay, Founded

LEMMA SetAt ==
  ASSUME NEW x, Shaped(x), NEW y
  PROVE  [x EXCEPT !.at = y] = Fields(x.op, y, x.s, x.w, x.v, x.got, x.code)
<1>1. PICK o, a, s, w, v, g, k : x = Fields(o, a, s, w, v, g, k)
  BY DEF Shaped
<1> QED
  BY <1>1 DEF Fields

LEMMA SetCode ==
  ASSUME NEW x, Shaped(x), NEW y
  PROVE  [x EXCEPT !.code = y] = Fields(x.op, x.at, x.s, x.w, x.v, x.got, y)
<1>1. PICK o, a, s, w, v, g, k : x = Fields(o, a, s, w, v, g, k)
  BY DEF Shaped
<1> QED
  BY <1>1 DEF Fields

LEMMA SetValue ==
  ASSUME NEW x, Shaped(x), NEW y
  PROVE  [x EXCEPT !.v = y] = Fields(x.op, x.at, x.s, x.w, y, x.got, x.code)
<1>1. PICK o, a, s, w, v, g, k : x = Fields(o, a, s, w, v, g, k)
  BY DEF Shaped
<1> QED
  BY <1>1 DEF Fields

LEMMA SetGot ==
  ASSUME NEW x, Shaped(x), NEW y
  PROVE  [x EXCEPT !.got = y] = Fields(x.op, x.at, x.s, x.w, x.v, y, x.code)
<1>1. PICK o, a, s, w, v, g, k : x = Fields(o, a, s, w, v, g, k)
  BY DEF Shaped
<1> QED
  BY <1>1 DEF Fields

LEMMA SetOp ==
  ASSUME NEW x, Shaped(x), NEW y
  PROVE  [x EXCEPT !.op = y] = Fields(y, x.at, x.s, x.w, x.v, x.got, x.code)
<1>1. PICK o, a, s, w, v, g, k : x = Fields(o, a, s, w, v, g, k)
  BY DEF Shaped
<1> QED
  BY <1>1 DEF Fields

LEMMA SetSession ==
  ASSUME NEW x, Shaped(x), NEW y
  PROVE  [x EXCEPT !.s = y] = Fields(x.op, x.at, y, x.w, x.v, x.got, x.code)
<1>1. PICK o, a, s, w, v, g, k : x = Fields(o, a, s, w, v, g, k)
  BY DEF Shaped
<1> QED
  BY <1>1 DEF Fields

LEMMA SetWalletId ==
  ASSUME NEW x, Shaped(x), NEW y
  PROVE  [x EXCEPT !.w = y] = Fields(x.op, x.at, x.s, y, x.v, x.got, x.code)
<1>1. PICK o, a, s, w, v, g, k : x = Fields(o, a, s, w, v, g, k)
  BY DEF Shaped
<1> QED
  BY <1>1 DEF Fields

LEMMA FieldsOf ==
  ASSUME NEW o, NEW a, NEW s, NEW w, NEW v, NEW g, NEW k
  PROVE  LET x == Fields(o, a, s, w, v, g, k)
         IN  /\ Shaped(x) /\ x.op = o /\ x.at = a /\ x.s = s /\ x.w = w /\ x.v = v
             /\ x.got = g /\ x.code = k
BY DEF Shaped, Fields

LEMMA Ended ==
  ASSUME NEW x, Shaped(x), NEW k
  PROVE  [x EXCEPT !.at = "done", !.code = k] = Fields(x.op, "done", x.s, x.w, x.v, x.got, k)
<1> DEFINE y == [x EXCEPT !.at = "done"]
<1>1. y = Fields(x.op, "done", x.s, x.w, x.v, x.got, x.code)
  BY SetAt
<1>2. /\ Shaped(y) /\ y.op = x.op /\ y.at = "done" /\ y.s = x.s /\ y.w = x.w /\ y.v = x.v
      /\ y.got = x.got
  BY <1>1, FieldsOf
<1>3. [x EXCEPT !.at = "done", !.code = k] = [y EXCEPT !.code = k]
  OBVIOUS
<1> HIDE DEF y
<1> QED
  BY <1>2, <1>3, SetCode

\* A handler comes to its next query.
LEMMA Moves ==
  ASSUME KeptInv, RowsKept, NEW c \in Client, NEW x, Shaped(x), OnItsWay(x), x.at # "done",
         x.op = call[c].op, x.s = call[c].s, x.code = call[c].code, call' = [call EXCEPT ![c] = x]
  PROVE  KeptInv'
<1>1. Founded(call[c])
  BY DEF KeptInv, CallsInv
<1>2. Founded(x)'
  BY <1>1 DEF Founded, RowsKept
<1> QED
  BY <1>2, CallChanges

LEMMA Goes ==
  ASSUME KeptInv, RowsKept, NEW c \in Client, NEW at, Go(c, at),
         at \notin {"done", "sent", "close"} \/ (at = "close" /\ call[c].op \in {"soft", "hard"}),
         at \in {"existing", "eligible", "balance", "wallet"} =>
           call[c].op \in {"create", "attach", "detach"},
         call[c].op = "create" => at \in {"eligible", "balance", "config", "write", "insert"}
  PROVE  KeptInv'
<1> DEFINE x == [call[c] EXCEPT !.at = at]
<1>1. Shaped(call[c])
  BY DEF KeptInv, CallsInv
<1>2. x = Fields(call[c].op, at, call[c].s, call[c].w, call[c].v, call[c].got, call[c].code)
  BY <1>1, SetAt
<1>3. /\ Shaped(x) /\ x.op = call[c].op /\ x.s = call[c].s /\ x.code = call[c].code
      /\ x.at = at
  BY <1>2, FieldsOf
<1>4. call' = [call EXCEPT ![c] = x]
  BY DEF Go
<1> HIDE DEF x
<1>5. OnItsWay(x)
  BY <1>3 DEF OnItsWay
<1> QED
  BY <1>3, <1>4, <1>5, Moves

LEMMA Answers ==
  ASSUME KeptInv, RowsKept, NEW c \in Client, NEW code \in {"ok", "refused", "down"}, Answer(c, code),
         call[c].op = "create" /\ code = "ok" /\ call[c].s \in Session =>
           sess'[call[c].s].status # "none"
  PROVE  KeptInv'
<1> DEFINE x == [call[c] EXCEPT !.at = "done", !.code = code]
<1>1. Shaped(call[c]) /\ Founded(call[c])
  BY DEF KeptInv, CallsInv
<1>2. x = Fields(call[c].op, "done", call[c].s, call[c].w, call[c].v, call[c].got, code)
  BY <1>1, Ended
<1>3. Shaped(x) /\ x.op = call[c].op /\ x.s = call[c].s /\ x.code = code /\ x.at = "done"
  BY <1>2, FieldsOf
<1>4. call' = [call EXCEPT ![c] = x]
  BY <1>1 DEF Answer, KeptInv, CallsInv
<1> HIDE DEF x
<1>5. SUFFICES ASSUME NEW y, y = x PROVE KeptInv'
  OBVIOUS
<1>6. Founded(y)' /\ OnItsWay(y)
  BY <1>1, <1>3, <1>5 DEF Founded, OnItsWay, RowsKept
<1> QED
  BY <1>3, <1>4, <1>5, <1>6, CallChanges

LEMMA Crashes ==
  ASSUME KeptInv, Crash
  PROVE  KeptInv'
<1>1. RowsKept
  BY RowsStay DEF Crash, dbVars
<1>2. ASSUME NEW c \in Client 
      PROVE  Shaped(call'[c]) /\ OnItsWay(call'[c]) /\ Founded(call[c])'
  <2> DEFINE x == [call[c] EXCEPT !.at = "done", !.code = "down"]
  <2>1. Shaped(call[c]) /\ OnItsWay(call[c]) /\ Founded(call[c])
    BY DEF KeptInv, CallsInv
  <2>0. x = Fields(call[c].op, "done", call[c].s, call[c].w, call[c].v, call[c].got, "down")
    BY <2>1, Ended
  <2>2. /\ Shaped(x) /\ x.op = call[c].op /\ x.s = call[c].s /\ x.code = "down"
        /\ x.at = "done"
    BY <2>0, FieldsOf
  <2>3. call'[c] = call[c] \/ call'[c] = x
    BY DEF Crash
  <2> HIDE DEF x
  <2>4. CASE call'[c] = call[c]
    BY <1>1, <2>1, <2>4 DEF Founded, RowsKept
  <2>5. CASE call'[c] = x
    BY <1>1, <2>1, <2>2, <2>5 DEF Founded, OnItsWay, RowsKept
  <2> QED
    BY <2>3, <2>4, <2>5
<1>3. call' = [c \in Client |-> call'[c]]
  BY DEF Crash
<1> QED
  BY <1>1, <1>2, <1>3 DEF KeptInv, CallsInv, RowsKept, Shaped, OnItsWay

\* A row with a wallet that is there.
LEMMA Puts ==
  ASSUME KeptInv, NEW c \in Client, NEW row,
         call[c].s \in Session =>
           \E st : st # "none" /\ row = [status |-> st, wallet |-> call[c].w],
         Put(c, row)
  PROVE  KeptInv'
<1>1. CASE call[c].w \notin wallets \cup {None}
  BY <1>1, Crashes DEF Put
<1>2. CASE call[c].w \in wallets \cup {None} /\ UNCHANGED <<sess, wallets>> /\ Answer(c, "refused")
  <2>1. RowsKept
    BY <1>2, RowsStay
  <2> QED
    BY <1>2, <2>1, Answers
<1>3. CASE /\ call[c].w \in wallets \cup {None} /\ UNCHANGED wallets /\ Answer(c, "ok")
           /\ sess' = [sess EXCEPT ![call[c].s] = row]
  <2>1. CASE call[c].s \notin Session
    <3>1. sess' = sess
      BY <1>3, <2>1 DEF KeptInv, RowsInv
    <3> QED
      BY <1>3, <2>1, <3>1, RowsStay, Answers
  <2>2. CASE call[c].s \in Session
    <3>1. PICK st : st # "none" /\ row = [status |-> st, wallet |-> call[c].w]
      BY <2>2
    <3>2. RowsKept
      BY <1>3, <2>2, <3>1 DEF KeptInv, RowsInv, RowsKept, WalletKept
    <3>3. sess'[call[c].s].status # "none"
      BY <1>3, <2>2, <3>1 DEF KeptInv, RowsInv
    <3> QED
      BY <1>3, <3>2, <3>3, Answers
  <2> QED
    BY <2>1, <2>2
<1> QED
  BY <1>1, <1>2, <1>3 DEF Put, PutUnchecked, dbVars

-----------------------------------------------------------------------------
(* The handlers.                                                           *)

\* The handlers' queries that change no row of a session.
LEMMA QueriesKept ==
  ASSUME KeptInv, NEW c \in Client,
         \/ Enter(c) \/ Existing(c) \/ Eligible(c) \/ Balance(c) \/ WriteConfig(c) \/ SetMode(c)
         \/ CheckUsage(c) \/ ClearHold(c) \/ DataSpan(c) \/ InsertRun(c)
  PROVE  KeptInv'
<1> DEFINE x == call[c]
<1>1. OnItsWay(x)
  BY DEF KeptInv, CallsInv
<1>2. RowsKept
  <2>1. UNCHANGED <<sess, wallets>>
    BY DEF Enter, Existing, Eligible, Balance, WriteConfig, SetMode, CheckUsage, ClearHold,
           DataSpan, InsertRun, dbVars
  <2> QED
    BY <2>1, RowsStay
<1>3. ASSUME NEW code \in {"ok", "refused", "down"}, Answer(c, code), code = "ok" => x.op # "create"
      PROVE  KeptInv'
  BY <1>2, <1>3, Answers
<1>4. CASE Enter(c)
  <2>1. x.op \in Ops
    BY <1>1, <1>4 DEF OnItsWay, Enter
  <2>2. CASE Go(c, FirstQuery(c))
    <3> DEFINE at == FirstQuery(c)
    <3>1. /\ at \notin {"done", "sent"}
          /\ at = "close" => x.op \in {"soft", "hard"}
          /\ at \in {"existing", "eligible", "balance", "wallet"} =>
               x.op \in {"create", "attach", "detach"}
          /\ x.op = "create" => at \in {"eligible", "balance", "config", "write", "insert"}
      BY <2>1 DEF FirstQuery, Ops
    <3> HIDE DEF at
    <3>2. SUFFICES ASSUME NEW a, a = at PROVE KeptInv'
      OBVIOUS
    <3> QED
      BY <2>2, <3>1, <3>2, <1>2, Goes DEF at
  <2> QED
    BY <1>3, <1>4, <2>2 DEF Enter
<1>5. CASE Existing(c)
  BY <1>1, <1>2, <1>5, Goes DEF OnItsWay, Existing
<1>6. CASE Eligible(c)
  BY <1>1, <1>2, <1>3, <1>6, Goes DEF OnItsWay, Eligible
<1>7. CASE Balance(c)
  BY <1>1, <1>2, <1>3, <1>7, Goes DEF OnItsWay, Balance
<1>8. CASE WriteConfig(c)
  BY <1>1, <1>2, <1>3, <1>8, Goes DEF OnItsWay, WriteConfig
<1>9. CASE SetMode(c)
  BY <1>1, <1>2, <1>3, <1>9, Goes DEF OnItsWay, SetMode
<1>10. CASE CheckUsage(c)
  BY <1>1, <1>2, <1>3, <1>10, Goes DEF OnItsWay, CheckUsage
<1>11. CASE ClearHold(c)
  BY <1>1, <1>3, <1>11 DEF OnItsWay, ClearHold
<1>12. CASE DataSpan(c)
  BY <1>1, <1>2, <1>3, <1>12, Goes DEF OnItsWay, DataSpan
<1>13. CASE InsertRun(c)
  BY <1>1, <1>3, <1>13 DEF OnItsWay, InsertRun
<1> QED
  BY <1>4, <1>5, <1>6, <1>7, <1>8, <1>9, <1>10, <1>11, <1>12, <1>13

\* Those that only note what they have read.
LEMMA NotesKept ==
  ASSUME KeptInv, NEW c \in Client, ReadConfig(c) \/ ListLive(c)
  PROVE  KeptInv'
<1> DEFINE x == call[c]
<1>1. Shaped(x) /\ OnItsWay(x)
  BY DEF KeptInv, CallsInv
<1>2. RowsKept
  BY RowsStay DEF ReadConfig, ListLive, dbVars
<1>3. CASE ReadConfig(c)
  <2> DEFINE z == [x EXCEPT !.at = "write"]
             v == IF x.v = "keep" THEN IF sampling THEN "kept on" ELSE "kept off" ELSE x.v
             y == [z EXCEPT !.v = v]
  <2>1. z = Fields(x.op, "write", x.s, x.w, x.v, x.got, x.code)
    BY <1>1, SetAt
  <2>2. /\ Shaped(z) /\ z.op = x.op /\ z.at = "write" /\ z.s = x.s /\ z.w = x.w /\ z.v = x.v
        /\ z.got = x.got /\ z.code = x.code
    BY <2>1, FieldsOf
  <2>3. call' = [call EXCEPT ![c] = y]
    BY <1>3, <2>2 DEF ReadConfig, KeptInv, CallsInv
  <2> HIDE DEF z, v
  <2>4. y = Fields(x.op, "write", x.s, x.w, v, x.got, x.code)
    BY <2>2, SetValue
  <2> HIDE DEF y
  <2>5. Shaped(y) /\ y.op = x.op /\ y.at = "write" /\ y.s = x.s /\ y.code = x.code
    BY <2>4, FieldsOf
  <2>6. OnItsWay(y)
    BY <1>1, <1>3, <2>5 DEF OnItsWay, ReadConfig
  <2> QED
    BY <1>2, <2>3, <2>5, <2>6, Moves
<1>4. CASE ListLive(c)
  <2>1. PICK live : call' = [call EXCEPT ![c].at = "each", ![c].got = live]
    BY <1>4 DEF ListLive
  <2> DEFINE z == [x EXCEPT !.at = "each"]
             y == [z EXCEPT !.got = live]
  <2>2. z = Fields(x.op, "each", x.s, x.w, x.v, x.got, x.code)
    BY <1>1, SetAt
  <2>3. /\ Shaped(z) /\ z.op = x.op /\ z.at = "each" /\ z.s = x.s /\ z.w = x.w /\ z.v = x.v
        /\ z.got = x.got /\ z.code = x.code
    BY <2>2, FieldsOf
  <2>4. call' = [call EXCEPT ![c] = y]
    BY <2>1, <2>3 DEF KeptInv, CallsInv
  <2> HIDE DEF z
  <2>5. y = Fields(x.op, "each", x.s, x.w, x.v, live, x.code)
    BY <2>3, SetGot
  <2> HIDE DEF y
  <2>6. Shaped(y) /\ y.op = x.op /\ y.at = "each" /\ y.s = x.s /\ y.code = x.code
    BY <2>5, FieldsOf
  <2>7. OnItsWay(y)
    BY <1>1, <1>4, <2>6 DEF OnItsWay, ListLive
  <2> QED
    BY <1>2, <2>4, <2>6, <2>7, Moves
<1> QED
  BY <1>3, <1>4

\* Sessions change their status, of rows there are.
LEMMA ClosingKeepsRows ==
  ASSUME KeptInv, UNCHANGED wallets, NEW S, NEW st, st # "none",
         \A s \in S : s \in Session /\ sess[s].status # "none",
         sess' = [s \in Session |-> IF s \in S THEN [sess[s] EXCEPT !.status = st] ELSE sess[s]]
  PROVE  RowsKept
<1>1. ASSUME NEW s \in Session
      PROVE  /\ sess'[s] = [status |-> sess'[s].status, wallet |-> sess[s].wallet]
             /\ sess'[s].status = "none" <=> sess[s].status = "none"
  <2>1. sess[s] = [status |-> sess[s].status, wallet |-> sess[s].wallet]
    BY DEF KeptInv, RowsInv
  <2>2. CASE s \in S
    <3>1. sess'[s] = [sess[s] EXCEPT !.status = st]
      BY <2>2
    <3>2. PICK o, w : sess[s] = [status |-> o, wallet |-> w]
      BY <2>1
    <3>3. sess'[s] = [status |-> st, wallet |-> w]
      BY <3>1, <3>2
    <3> QED
      BY <2>2, <3>2, <3>3
  <2>3. CASE s \notin S
    BY <2>1, <2>3
  <2> QED
    BY <2>2, <2>3
<1>2. sess' = [s \in Session |-> sess'[s]]
  OBVIOUS
<1>3. ASSUME NEW s \in Session PROVE sess'[s].wallet = sess[s].wallet
  BY <1>1
<1> QED
  BY <1>1, <1>2, <1>3 DEF KeptInv, RowsInv, RowsKept, WalletKept

LEMMA ClosingKeepsRow ==
  ASSUME KeptInv, UNCHANGED wallets, NEW s \in Session, sess[s].status # "none",
         NEW st, st # "none", sess' = [sess EXCEPT ![s].status = st]
  PROVE  RowsKept
<1> DEFINE S == {s}
<1>1. sess' = [t \in Session |-> IF t \in S THEN [sess[t] EXCEPT !.status = st] ELSE sess[t]]
  BY DEF KeptInv, RowsInv
<1>2. \A t \in S : t \in Session /\ sess[t].status # "none"
  OBVIOUS
<1> HIDE DEF S
<1> QED
  BY <1>1, <1>2, ClosingKeepsRows

\* The writes of a session's row.
LEMMA RowWritesKept ==
  ASSUME KeptInv, NEW c \in Client, Insert(c) \/ SetWallet(c)
  PROVE  KeptInv'
<1> DEFINE x == call[c]
<1>1. OnItsWay(x) /\ Founded(x)
  BY DEF KeptInv, CallsInv
<1>2. CASE Insert(c)
  BY <1>2, Puts DEF Insert
<1>3. CASE SetWallet(c)
  <2> DEFINE r == [sess[x.s] EXCEPT !.wallet = x.w]
  <2>1. ASSUME x.s \in Session
        PROVE  \E st : st # "none" /\ r = [status |-> st, wallet |-> x.w]
    <3>1. sess[x.s].status # "none"
      BY <1>1, <1>3, <2>1 DEF SetWallet, OnItsWay, Founded
    <3>2. PICK st, w : sess[x.s] = [status |-> st, wallet |-> w]
      BY <2>1 DEF KeptInv, RowsInv
    <3>3. r = [status |-> st, wallet |-> x.w]
      BY <3>2
    <3> QED
      BY <3>1, <3>2, <3>3
  <2>2. Put(c, r)
    BY <1>3 DEF SetWallet
  <2> HIDE DEF r
  <2> QED
    BY <2>1, <2>2, Puts
<1> QED
  BY <1>2, <1>3

\* Those that close sessions.
LEMMA ClosesKept ==
  ASSUME KeptInv, NEW c \in Client, Sweep(c) \/ CloseSession(c) \/ CloseEach(c)
  PROVE  KeptInv'
<1> DEFINE x == call[c]
<1>1. Shaped(x) /\ OnItsWay(x)
  BY DEF KeptInv, CallsInv
<1>2. ASSUME NEW S, \A s \in S : s \in Session /\ sess[s].status # "none",
             Closed(c, S), UNCHANGED wallets
      PROVE  RowsKept
  BY <1>2, ClosingKeepsRows DEF Closed
<1>3. CASE Sweep(c)
  <2>1. RowsKept
    BY <1>2, <1>3 DEF Sweep
  <2> QED
    BY <1>1, <1>3, <2>1, Answers DEF Sweep, OnItsWay
<1>4. CASE CloseSession(c)
  <2>1. x.op \in {"soft", "hard"}
    BY <1>1, <1>4 DEF CloseSession, OnItsWay
  <2>2. CASE UNCHANGED sess /\ Answer(c, "refused")
    BY <1>4, <2>2, RowsStay, Answers DEF CloseSession
  <2>3. CASE /\ sess[x.s].status \in {"active", "soft"} /\ Answer(c, "ok")
             /\ sess' = [sess EXCEPT ![x.s].status = x.op]
    <3>1. RowsKept
      <4>1. CASE x.s \in Session
        <5>1. UNCHANGED wallets /\ sess[x.s].status # "none" /\ x.op # "none"
          BY <1>4, <2>1, <2>3 DEF CloseSession
        <5> QED
          BY <2>3, <4>1, <5>1, ClosingKeepsRow
      <4>2. CASE x.s \notin Session
        <5>1. sess' = sess
          BY <2>3, <4>2 DEF KeptInv, RowsInv
        <5> QED
          BY <1>4, <5>1, RowsStay DEF CloseSession
      <4> QED
        BY <4>1, <4>2
    <3> QED
      BY <2>1, <2>3, <3>1, Answers
  <2> QED
    BY <1>4, <2>2, <2>3 DEF CloseSession
<1>5. CASE CloseEach(c)
  <2>1. CASE UNCHANGED sess /\ Answer(c, "ok")
    BY <1>1, <1>5, <2>1, RowsStay, Answers DEF CloseEach, OnItsWay
  <2>2. ASSUME NEW s \in x.got, call' = [call EXCEPT ![c].got = @ \ {s}],
               Closed(c, {s} \cap {t \in Session : sess[t].status \in {"active", "soft"}})
        PROVE  KeptInv'
    <3>1. RowsKept
      BY <1>2, <1>5, <2>2 DEF CloseEach
    <3> DEFINE y == [x EXCEPT !.got = x.got \ {s}]
    <3>2. y = Fields(x.op, x.at, x.s, x.w, x.v, x.got \ {s}, x.code)
      BY <1>1, SetGot
    <3>3. call' = [call EXCEPT ![c] = y]
      BY <2>2
    <3> HIDE DEF y
    <3>4. Shaped(y) /\ y.op = x.op /\ y.at = x.at /\ y.s = x.s /\ y.code = x.code
      BY <3>2, FieldsOf
    <3>5. x.at = "each"
      BY <1>5 DEF CloseEach
    <3>6. OnItsWay(y)
      BY <1>1, <3>4 DEF OnItsWay
    <3> QED
      BY <3>1, <3>3, <3>4, <3>5, <3>6, Moves
  <2> QED
    BY <1>5, <2>1, <2>2 DEF CloseEach
<1> QED
  BY <1>3, <1>4, <1>5

\* Wallets that go, which no row refers to, and come.
LEMMA WalletsKept ==
  ASSUME KeptInv, NEW c \in Client, Delete(c) \/ InsertWallet(c)
  PROVE  KeptInv'
<1> DEFINE x == call[c]
<1>1. OnItsWay(x)
  BY DEF KeptInv, CallsInv
<1>2. CASE Delete(c)
  <2>1. CASE Crash
    BY <2>1, Crashes
  <2>2. CASE /\ ~Referenced(x.w) /\ wallets' = wallets \ {x.w} /\ UNCHANGED sess
             /\ Answer(c, IF x.w \in wallets THEN "ok" ELSE "refused")
    <3>1. \A s \in Session : sess[s].wallet = x.w => sess[s].wallet = None
      BY <2>2 DEF Referenced, KeptInv, RowsInv
    <3>2. RowsKept
      BY <2>2, <3>1 DEF KeptInv, RowsInv, RowsKept, WalletKept
    <3> QED
      BY <1>1, <1>2, <2>2, <3>2, Answers DEF Delete, OnItsWay
  <2> QED
    BY <1>2, <2>1, <2>2 DEF Delete
<1>3. CASE InsertWallet(c)
  <2>1. RowsKept
    BY <1>3 DEF InsertWallet, KeptInv, RowsInv, RowsKept, WalletKept
  <2> QED
    BY <1>1, <1>3, <2>1, Answers DEF InsertWallet, OnItsWay
<1> QED
  BY <1>2, <1>3

\* What else happens in the API, and with the rows meanwhile.
LEMMA ApiKept ==
  ASSUME KeptInv, ApiStep
  PROVE  KeptInv'
<1>1. ASSUME NEW r, NEW k, Serve(r, k) \/ ReadFails(r, k) \/ LoseRead(r, k)
      PROVE  KeptInv'
  <2>1. Crash \/ UNCHANGED <<sess, wallets, call>>
    BY <1>1 DEF Serve, ServeOne, ListWallets, FindUsage, ReadFails, LoseRead, dbVars
  <2> QED
    BY <2>1, Crashes, RowsStay, CallsStay
<1>2. ASSUME NEW c \in Client, Handle(c) PROVE KeptInv'
  BY <1>2, QueriesKept, NotesKept, RowWritesKept, ClosesKept, WalletsKept DEF Handle
<1>3. ASSUME NEW c \in Client, CallFails(c) PROVE KeptInv'
  <2>1. Crash \/ (Answer(c, "refused") /\ UNCHANGED <<sess, wallets>>)
    BY <1>3 DEF CallFails, dbVars
  <2> QED
    BY <2>1, Crashes, RowsStay, Answers
<1>4. ASSUME NEW c \in Client, LoseCall(c) PROVE KeptInv'
  BY <1>4, RowsStay, Answers DEF LoseCall, dbVars
<1>5. ASSUME Engine PROVE KeptInv'
  <2>1. UNCHANGED <<wallets, call>>
    BY <1>5 DEF Engine
  <2>2. CASE UNCHANGED sess
    BY <2>1, <2>2, RowsStay, CallsStay
  <2>3. ASSUME NEW s \in Session, sess[s].status \in {"soft", "hard"},
               sess' = [sess EXCEPT ![s].status = "closed"]
        PROVE  KeptInv'
    <3>1. RowsKept
      BY <2>1, <2>3, ClosingKeepsRow
    <3> QED
      BY <2>1, <3>1, CallsStay
  <2> QED
    BY <1>5, <2>2, <2>3 DEF Engine
<1>6. ASSUME Replay \/ Expire PROVE KeptInv'
  BY <1>6, RowsStay, CallsStay DEF Replay, Expire, dbVars
<1> QED
  BY <1>1, <1>2, <1>3, <1>4, <1>5, <1>6 DEF ApiStep

-----------------------------------------------------------------------------
(* The pages and the other clients.                                        *)

LEMMA NoCallFounded == Shaped(NoCall) /\ OnItsWay(NoCall) /\ Founded(NoCall)'
BY DEF Shaped, Fields, OnItsWay, Founded, NoCall

LEMMA Sent ==
  ASSUME NEW op, NEW s, NEW w, NEW v
  PROVE  /\ [NoCall EXCEPT !.op = op, !.at = "sent", !.s = s, !.w = w]
              = Fields(op, "sent", s, w, None, {}, "pending")
         /\ [NoCall EXCEPT !.op = op, !.at = "sent", !.s = s, !.w = w, !.v = v]
              = Fields(op, "sent", s, w, v, {}, "pending")
<1> DEFINE n1 == [NoCall EXCEPT !.op = op]
           n2 == [n1 EXCEPT !.at = "sent"]
           n3 == [n2 EXCEPT !.s = s]
           n4 == [n3 EXCEPT !.w = w]
<1>1. /\ Shaped(NoCall) /\ NoCall.v = None /\ NoCall.got = {} /\ NoCall.code = "pending"
  <2>1. NoCall = Fields("none", "idle", None, None, None, {}, "pending")
    BY DEF NoCall, Fields
  <2> QED
    BY <2>1, FieldsOf
<1>2. /\ [NoCall EXCEPT !.op = op, !.at = "sent", !.s = s, !.w = w] = n4
      /\ [NoCall EXCEPT !.op = op, !.at = "sent", !.s = s, !.w = w, !.v = v] = [n4 EXCEPT !.v = v]
  OBVIOUS
<1>3. n1 = Fields(op, NoCall.at, NoCall.s, NoCall.w, NoCall.v, NoCall.got, NoCall.code)
  BY <1>1, SetOp
<1> HIDE DEF n1
<1>4. Shaped(n1) /\ n1.op = op /\ n1.v = None /\ n1.got = {} /\ n1.code = "pending"
  BY <1>1, <1>3, FieldsOf
<1>5. n2 = Fields(n1.op, "sent", n1.s, n1.w, n1.v, n1.got, n1.code)
  BY <1>4, SetAt
<1> HIDE DEF n2
<1>6. /\ Shaped(n2) /\ n2.op = op /\ n2.at = "sent" /\ n2.v = None /\ n2.got = {}
      /\ n2.code = "pending"
  BY <1>4, <1>5, FieldsOf
<1>7. n3 = Fields(n2.op, n2.at, s, n2.w, n2.v, n2.got, n2.code)
  BY <1>6, SetSession
<1> HIDE DEF n3
<1>8. /\ Shaped(n3) /\ n3.op = op /\ n3.at = "sent" /\ n3.s = s /\ n3.v = None /\ n3.got = {}
      /\ n3.code = "pending"
  BY <1>6, <1>7, FieldsOf
<1>9. n4 = Fields(n3.op, n3.at, n3.s, w, n3.v, n3.got, n3.code)
  BY <1>8, SetWalletId
<1> HIDE DEF n4
<1>10. /\ Shaped(n4) /\ n4.op = op /\ n4.at = "sent" /\ n4.s = s /\ n4.w = w /\ n4.got = {}
       /\ n4.code = "pending"
  BY <1>8, <1>9, FieldsOf
<1>11. n4 = Fields(op, "sent", s, w, None, {}, "pending")
  BY <1>8, <1>9
<1>12. [n4 EXCEPT !.v = v] = Fields(n4.op, n4.at, n4.s, n4.w, v, n4.got, n4.code)
  BY <1>10, SetValue
<1> QED
  BY <1>2, <1>10, <1>11, <1>12

LEMMA Starts ==
  ASSUME KeptInv, UNCHANGED <<sess, wallets>>, NEW c \in Client, NEW op \in Ops, NEW s, NEW w, NEW v,
         op \in {"attach", "detach"} /\ s \in Session => sess[s].status # "none",
         call' = [call EXCEPT ![c] =
                    [NoCall EXCEPT !.op = op, !.at = "sent", !.s = s, !.w = w, !.v = v]]
  PROVE  KeptInv'
<1> DEFINE x == Fields(op, "sent", s, w, v, {}, "pending")
<1>1. /\ Shaped(x) /\ x.op = op /\ x.at = "sent" /\ x.s = s /\ x.code = "pending"
  BY FieldsOf
<1>2. call' = [call EXCEPT ![c] = x]
  <2>1. [NoCall EXCEPT !.op = op, !.at = "sent", !.s = s, !.w = w, !.v = v] = x
    BY Sent
  <2> QED
    BY <2>1
<1> HIDE DEF x
<1>3. OnItsWay(x)
  BY <1>1 DEF OnItsWay
<1>4. RowsKept
  BY RowsStay
<1>5. SUFFICES ASSUME NEW y, y = x PROVE KeptInv'
  OBVIOUS
<1>6. Founded(y)'
  BY <1>1, <1>5 DEF Founded
<1> QED
  BY <1>1, <1>2, <1>3, <1>4, <1>5, <1>6, CallChanges

LEMMA Ends ==
  ASSUME KeptInv, UNCHANGED <<sess, wallets>>, NEW c \in Client, call' = [call EXCEPT ![c] = NoCall]
  PROVE  KeptInv'
BY RowsStay, NoCallFounded, CallChanges

LEMMA OperatorKept ==
  ASSUME KeptInv, Operator
  PROVE  KeptInv'
<1> USE ConsoleAssumption
<1>1. UNCHANGED <<sess, wallets>>
  BY DEF Operator, SamplingClick, Confirm, Cancel, OpenForm, Submit, SubmitBacktest, ModeClick,
         ChooseWallet, CloseClick, WalletClick, ChangeRange, apiVars, dbVars
<1>2. ASSUME NEW op \in Ops \ {"attach", "detach"}, NEW s, NEW w, NEW v, Send(Me, op, s, w, v)
      PROVE  KeptInv'
  BY <1>1, <1>2, Starts DEF Send
<1>3. ASSUME UNCHANGED call PROVE KeptInv'
  BY <1>1, <1>3, RowsStay, CallsStay
<1>4. ASSUME NEW v, Patch(v) PROVE KeptInv'
  BY <1>2, <1>4 DEF Patch, Ops
<1>5. ASSUME NEW op \in {"soft", "hard"}, NEW s, CloseClick(op, s) PROVE KeptInv'
  BY <1>2, <1>5 DEF CloseClick, Ops
<1>6. ASSUME NEW op \in {"add", "remove", "clear"}, NEW w, WalletClick(op, w) PROVE KeptInv'
  BY <1>2, <1>6 DEF WalletClick, Ops
<1>7. ASSUME SamplingClick \/ Confirm PROVE KeptInv'
  BY <1>3, <1>4, <1>7 DEF SamplingClick, Confirm
<1>8. ASSUME Submit \/ SubmitBacktest \/ ModeClick PROVE KeptInv'
  BY <1>2, <1>8 DEF Submit, SubmitBacktest, ModeClick, Ops
<1>9. ASSUME Cancel \/ OpenForm \/ (\E w : ChooseWallet(w)) \/ (\E x : ChangeRange(x))
      PROVE  KeptInv'
  BY <1>3, <1>9 DEF Cancel, OpenForm, ChooseWallet, ChangeRange, apiVars
<1> QED
  BY <1>5, <1>6, <1>7, <1>8, <1>9 DEF Operator

LEMMA AnsweredKept ==
  ASSUME KeptInv, Answered
  PROVE  KeptInv'
<1> USE ConsoleAssumption
<1>1. UNCHANGED <<sess, wallets>>
  BY DEF Answered, dbVars
<1>2. ASSUME Over PROVE KeptInv'
  BY <1>1, <1>2, Ends DEF Over
<1>3. ASSUME CreateAnswered, ~Over PROVE KeptInv'
  <2>1. /\ call[Me].op = "create" /\ call[Me].code \notin {"refused", "down"}
        /\ call' = [call EXCEPT ![Me] =
             [NoCall EXCEPT !.op = "attach", !.at = "sent", !.s = call[Me].s, !.w = call[Me].w]]
    BY <1>3 DEF CreateAnswered
  <2>2. call[Me].s \in Session => sess[call[Me].s].status # "none"
    BY <2>1 DEF KeptInv, CallsInv, Founded, Answered
  <2>3. [NoCall EXCEPT !.op = "attach", !.at = "sent", !.s = call[Me].s, !.w = call[Me].w]
          = [NoCall EXCEPT !.op = "attach", !.at = "sent", !.s = call[Me].s, !.w = call[Me].w, !.v = None]
    BY Sent
  <2>4. call' = [call EXCEPT ![Me] =
          [NoCall EXCEPT !.op = "attach", !.at = "sent", !.s = call[Me].s, !.w = call[Me].w, !.v = None]]
    BY <2>1, <2>3
  <2>5. SUFFICES ASSUME NEW s, NEW w, s = call[Me].s, w = call[Me].w PROVE KeptInv'
    OBVIOUS
  <2> QED
    BY <1>1, <2>2, <2>4, <2>5, Starts DEF Ops
<1> QED
  BY <1>2, <1>3 DEF Answered, BacktestAnswered, PatchAnswered, Thrown, CloseAnswered,
                    CreateAnswered, WalletAnswered, ModeAnswered

LEMMA ElsewhereKept ==
  ASSUME KeptInv, NEW c \in Client, Elsewhere(c)
  PROVE  KeptInv'
<1>1. UNCHANGED <<sess, wallets>>
  BY DEF Elsewhere, dbVars
<1>2. CASE call' = [call EXCEPT ![c] = NoCall]
  BY <1>1, <1>2, Ends
<1>3. ASSUME NEW op, NEW s, NEW w, NEW v, Request(op, s, w, v), Send(c, op, s, w, v)
      PROVE  KeptInv'
  <2>1. op \in Ops /\ (op \in {"attach", "detach"} => sess[s].status # "none")
    BY <1>3 DEF Request
  <2> QED
    BY <1>1, <1>3, <2>1, Starts DEF Send
<1> QED
  BY <1>2, <1>3 DEF Elsewhere

LEMMA NextKept == KeptInv /\ [ConsoleNext]_consoleVars => KeptInv'
<1> SUFFICES ASSUME KeptInv, [ConsoleNext]_consoleVars PROVE KeptInv'
  OBVIOUS
<1>1. CASE ApiActs
  BY <1>1, ApiKept DEF ApiActs
<1>2. CASE \E r \in Resource : Poll(r) \/ Arrive(r)
  <2>1. UNCHANGED <<sess, wallets, call>>
    BY <1>2 DEF Poll, Arrive, Deliver, DeliverFailure, dbVars
  <2> QED
    BY <2>1, RowsStay, CallsStay
<1>3. CASE UNCHANGED consoleVars
  BY <1>3, RowsStay, CallsStay DEF consoleVars, apiVars, dbVars
<1> QED
  BY <1>1, <1>2, <1>3, OperatorKept, AnsweredKept, ElsewhereKept DEF ConsoleNext

\* No interleaving of creating, attaching, detaching and deleting, by any
\* clients and with any failures, leaves a session that names a wallet that is
\* gone (api/src/wallets/repository.ts, trading-sessions/repository.ts).
THEOREM WalletsNamedExist == ConsoleSpec => []WalletKept
<1>1. ConsoleInit => KeptInv
  <2> SUFFICES ASSUME ConsoleInit PROVE KeptInv
    OBVIOUS
  <2>1. RowsInv
    BY DEF ConsoleInit, RowsInv
  <2>2. CallsInv
    BY DEF ConsoleInit, CallsInv, Shaped, Fields, OnItsWay, Founded, NoCall
  <2> QED
    BY <2>1, <2>2 DEF ConsoleInit, KeptInv
<1> QED
  BY <1>1, NextKept, PTL DEF ConsoleSpec, KeptInv

-----------------------------------------------------------------------------
(* Types: what a write and a read have in hand at each of their queries.   *)

Codes  == {"pending", "ok", "refused", "down"}
Places == {"idle", "sent", "existing", "eligible", "balance", "config", "write", "insert", "wallet",
           "sweep", "close", "mode", "live", "each", "usage", "delete", "new", "hold", "span", "run",
           "done"}
Values == {"on", "off", "keep", "kept on", "kept off", "mock", "live", None}

Write == [op : Ops \cup {"none"}, at : Places, s : Session \cup {None}, w : Wallet \cup {None},
          v : Values, got : SUBSET Session, code : Codes]

\* The queries of one handler are only come to by its requests, which carry what
\* it writes.
InPlace(x) ==
  /\ x.at = "done" <=> x.code # "pending"
  /\ x.at = "sent" => x.op \in Ops
  /\ x.at = "config" => x.op \in {"create", "patch"}
  /\ x.at = "close" => x.op \in {"soft", "hard"}
  /\ x.at = "mode" => x.op = "mode"
  /\ x.at = "new" => x.op = "add"
  /\ x.op = "mode" => x.v \in {"mock", "live"}
  /\ x.op = "add" => x.w \in Wallet

WritesTyped ==
  /\ call \in [Client -> Write]
  /\ \A c \in Client : InPlace(call[c])

RowsTyped ==
  /\ up \in BOOLEAN /\ cookie \in BOOLEAN
  /\ mode \in {"mock", "live"} /\ sampling \in BOOLEAN
  /\ wallets \subseteq Wallet /\ holds \subseteq wallets
  /\ sess \in [Session -> [status : Status, wallet : Wallet \cup {None}]]
  /\ run \in [status : RunStatus, held : BOOLEAN, trades : 0..1]

BoundsTyped == writes \in 0..MaxWrites /\ faults \in 0..MaxFaults

LEMMA WriteTyped ==
  ASSUME WritesTyped, NEW c \in Client, NEW x \in Write, InPlace(x), call' = [call EXCEPT ![c] = x]
  PROVE  WritesTyped'
<1>1. call' \in [Client -> Write]
  BY DEF WritesTyped
<1>2. ASSUME NEW d \in Client PROVE InPlace(call'[d])
  BY DEF WritesTyped
<1> QED  BY <1>1, <1>2 DEF WritesTyped, InPlace

LEMMA GoTyped ==
  ASSUME WritesTyped, NEW c \in Client, NEW at \in Places \ {"done"}, Go(c, at),
         call[c].at # "done", InPlace([call[c] EXCEPT !.at = at])
  PROVE  WritesTyped'
<1>1. [call[c] EXCEPT !.at = at] \in Write
  BY DEF WritesTyped, Write
<1> QED  BY <1>1, WriteTyped DEF Go

LEMMA AnswerTyped ==
  ASSUME WritesTyped, NEW c \in Client, NEW code \in Codes \ {"pending"}, Answer(c, code)
  PROVE  WritesTyped'
<1> DEFINE x == [call[c] EXCEPT !.at = "done", !.code = code]
<1>1. call[c] \in Write /\ InPlace(call[c])
  BY DEF WritesTyped
<1>2. /\ x \in Write /\ x.at = "done" /\ x.code = code /\ x.op = call[c].op /\ x.v = call[c].v
      /\ x.w = call[c].w
  BY <1>1 DEF Write, Places, Codes
<1>3. call' = [call EXCEPT ![c] = x]
  BY <1>1 DEF Answer, WritesTyped, Write
<1> HIDE DEF x
<1>4. InPlace(x)
  BY <1>1, <1>2 DEF InPlace, Codes
<1> QED  BY <1>2, <1>3, <1>4, WriteTyped

LEMMA CrashTyped ==
  ASSUME WritesTyped, Crash
  PROVE  WritesTyped'
<1>1. ASSUME NEW c \in Client PROVE call'[c] \in Write /\ InPlace(call'[c])
  <2> DEFINE x == [call[c] EXCEPT !.at = "done", !.code = "down"]
  <2>1. call[c] \in Write /\ InPlace(call[c])
    BY DEF WritesTyped
  <2>2. /\ x \in Write /\ x.at = "done" /\ x.code = "down" /\ x.op = call[c].op /\ x.v = call[c].v
        /\ x.w = call[c].w
    BY <2>1 DEF Write, Places, Codes
  <2>3. call'[c] = call[c] \/ call'[c] = x
    BY DEF Crash
  <2> HIDE DEF x
  <2>4. InPlace(x)
    BY <2>1, <2>2 DEF InPlace
  <2> QED  BY <2>1, <2>2, <2>3, <2>4
<1>2. call' = [c \in Client |-> call'[c]]
  BY DEF Crash
<1>3. call' \in [Client -> Write]
  BY <1>1, <1>2
<1> QED  BY <1>1, <1>3 DEF WritesTyped, InPlace

\* A handler's query leaves its call with what the next one needs.
LEMMA HandleCalls ==
  ASSUME WritesTyped, NEW c \in Client, Handle(c)
  PROVE  WritesTyped'
<1> DEFINE x == call[c]
<1>1. x \in Write /\ InPlace(x)
  BY DEF WritesTyped
<1>2. ASSUME NEW code \in Codes \ {"pending"}, Answer(c, code) PROVE WritesTyped'
  BY <1>2, AnswerTyped
<1>3. ASSUME NEW at \in Places \ {"done", "sent", "config", "close", "mode", "new"}, Go(c, at),
             x.at # "done"
      PROVE  WritesTyped'
  <2>1. [x EXCEPT !.at = at] \in Write /\ x.code = "pending"
    BY <1>1, <1>3 DEF Write, InPlace
  <2>2. InPlace([x EXCEPT !.at = at])
    BY <1>1, <1>3, <2>1 DEF Write, InPlace
  <2> QED  BY <1>3, <2>2, GoTyped
<1>4. ASSUME Crash PROVE WritesTyped'
  BY <1>4, CrashTyped
<1>5. CASE Enter(c)
  <2>1. x.op \in Ops /\ x.code = "pending"
    BY <1>1, <1>5 DEF InPlace, Enter
  <2>2. CASE Go(c, FirstQuery(c))
    <3> DEFINE y == [x EXCEPT !.at = FirstQuery(c)]
    <3>1. FirstQuery(c) \in Places \ {"done", "sent"}
      BY <2>1 DEF FirstQuery, Places, Ops
    <3>2. /\ FirstQuery(c) = "config" => x.op \in {"create", "patch"}
          /\ FirstQuery(c) = "close" => x.op \in {"soft", "hard"}
          /\ FirstQuery(c) = "mode" => x.op = "mode"
          /\ FirstQuery(c) = "new" => x.op = "add"
      BY <2>1 DEF FirstQuery, Ops
    <3>3. /\ y.at = FirstQuery(c) /\ y.op = x.op /\ y.code = x.code /\ y.v = x.v /\ y.w = x.w
      BY <1>1 DEF Write
    <3> HIDE DEF y
    <3>4. InPlace(y)
      BY <1>1, <2>1, <3>1, <3>2, <3>3 DEF InPlace
    <3> QED  BY <1>5, <2>2, <3>1, <3>4, GoTyped DEF y, Enter
  <2> QED  BY <1>2, <1>5, <2>2 DEF Enter, Codes
<1>6. CASE Existing(c) \/ Eligible(c) \/ CheckUsage(c) \/ DataSpan(c) \/ InsertRun(c) \/ SetMode(c)
           \/ ClearHold(c) \/ InsertWallet(c)
  <2>1. (\E at \in {"eligible", "balance", "delete", "run", "live"} : Go(c, at))
        \/ \E code \in Codes \ {"pending"} : Answer(c, code)
    BY <1>6 DEF Existing, Eligible, CheckUsage, DataSpan, InsertRun, SetMode, ClearHold, InsertWallet,
                Codes
  <2>2. x.at # "done"
    BY <1>6 DEF Existing, Eligible, CheckUsage, DataSpan, InsertRun, SetMode, ClearHold, InsertWallet
  <2> QED  BY <1>2, <1>3, <2>1, <2>2 DEF Places
<1>7. CASE Balance(c)
  <2>1. CASE Go(c, "config") /\ x.op = "create"
    <3>1. InPlace([x EXCEPT !.at = "config"])
      BY <1>1, <1>7, <2>1 DEF Balance, InPlace, Write
    <3> QED  BY <1>7, <2>1, <3>1, GoTyped DEF Balance, Places
  <2> QED  BY <1>2, <1>3, <1>7, <2>1 DEF Balance, Places, Codes
<1>8. CASE ReadConfig(c)
  <2> DEFINE v == IF x.v = "keep" THEN IF sampling THEN "kept on" ELSE "kept off" ELSE x.v
             y == [x EXCEPT !.at = "write", !.v = v]
  <2>1. v \in Values
    BY <1>1 DEF Write, Values
  <2>2. call' = [call EXCEPT ![c] = y]
    BY <1>1, <1>8 DEF ReadConfig, WritesTyped, Write
  <2>3. x.op \in {"create", "patch"} /\ x.code = "pending"
    BY <1>1, <1>8 DEF ReadConfig, InPlace
  <2> HIDE DEF v
  <2>4. y \in Write /\ y.at = "write" /\ y.op = x.op /\ y.code = x.code
    BY <1>1, <2>1 DEF Write, Places
  <2> HIDE DEF y
  <2>5. InPlace(y)
    BY <2>3, <2>4 DEF InPlace
  <2> QED  BY <2>2, <2>4, <2>5, WriteTyped
<1>9. CASE WriteConfig(c) \/ Sweep(c) \/ CloseSession(c)
  <2>1. (\E at \in {"insert", "sweep"} : Go(c, at)) \/ \E code \in Codes \ {"pending"} : Answer(c, code)
    BY <1>9 DEF WriteConfig, Sweep, CloseSession, Codes
  <2> QED  BY <1>2, <1>3, <1>9, <2>1 DEF WriteConfig, Sweep, CloseSession, Places
<1>10. CASE Insert(c) \/ SetWallet(c) \/ Delete(c)
  BY <1>2, <1>4, <1>10 DEF Insert, SetWallet, Delete, Put, PutUnchecked, Codes
<1>11. CASE ListLive(c)
  <2>1. PICK live \in SUBSET Session : call' = [call EXCEPT ![c].at = "each", ![c].got = live]
    BY <1>11 DEF ListLive
  <2> DEFINE y == [x EXCEPT !.at = "each", !.got = live]
  <2>2. call' = [call EXCEPT ![c] = y]
    BY <1>1, <2>1 DEF WritesTyped, Write
  <2>3. y \in Write /\ y.at = "each" /\ y.op = x.op /\ y.code = x.code /\ y.v = x.v /\ y.w = x.w
    BY <1>1 DEF Write, Places
  <2> HIDE DEF y
  <2>4. InPlace(y)
    BY <1>1, <1>11, <2>3 DEF InPlace, ListLive
  <2> QED  BY <2>2, <2>3, <2>4, WriteTyped
<1>12. CASE CloseEach(c)
  <2>1. ASSUME NEW s \in x.got, call' = [call EXCEPT ![c].got = @ \ {s}] PROVE WritesTyped'
    <3> DEFINE y == [x EXCEPT !.got = @ \ {s}]
    <3>1. y \in Write /\ y.at = x.at /\ y.op = x.op /\ y.code = x.code /\ y.v = x.v /\ y.w = x.w
      BY <1>1 DEF Write
    <3>2. call' = [call EXCEPT ![c] = y]
      BY <2>1
    <3> HIDE DEF y
    <3>3. InPlace(y)
      BY <1>1, <3>1 DEF InPlace
    <3> QED  BY <3>1, <3>2, <3>3, WriteTyped
  <2> QED  BY <1>2, <1>12, <2>1 DEF CloseEach, Codes
<1> QED  BY <1>5, <1>6, <1>7, <1>8, <1>9, <1>10, <1>11, <1>12 DEF Handle

\* ... and the rows, the mode, the holds and the backtest of their types.
LEMMA PutTyped ==
  ASSUME RowsTyped, NEW c \in Client, NEW row, Put(c, row),
         call[c].s \in Session /\ call[c].w \in wallets \cup {None} =>
           row \in [status : Status, wallet : Wallet \cup {None}]
  PROVE  RowsTyped'
<1>1. CASE Crash
  BY <1>1 DEF Crash, RowsTyped, dbVars
<1>2. CASE /\ call[c].w \in wallets \cup {None} /\ sess' = [sess EXCEPT ![call[c].s] = row]
           /\ UNCHANGED <<up, cookie, run, mode, sampling, wallets, holds>>
  <2>1. sess' \in [Session -> [status : Status, wallet : Wallet \cup {None}]]
    <3>1. CASE call[c].s \in Session
      BY <1>2, <3>1 DEF RowsTyped
    <3>2. CASE call[c].s \notin Session
      BY <1>2, <3>2 DEF RowsTyped
    <3> QED  BY <3>1, <3>2
  <2> QED  BY <1>2, <2>1 DEF RowsTyped
<1>3. CASE UNCHANGED <<up, cookie, run, dbVars>>
  BY <1>3 DEF RowsTyped, dbVars
<1> QED  BY <1>1, <1>2, <1>3 DEF Put, PutUnchecked

LEMMA HandleRows ==
  ASSUME WritesTyped, RowsTyped, NEW c \in Client, Handle(c)
  PROVE  RowsTyped'
<1> DEFINE x == call[c]
           Row == [status : Status, wallet : Wallet \cup {None}]
<1>1. x \in Write /\ InPlace(x)
  BY DEF WritesTyped
<1>2. CASE Enter(c) \/ Existing(c) \/ Eligible(c) \/ Balance(c) \/ ReadConfig(c) \/ ListLive(c)
           \/ CheckUsage(c) \/ DataSpan(c)
  BY <1>2 DEF Enter, Existing, Eligible, Balance, ReadConfig, ListLive, CheckUsage, DataSpan, RowsTyped,
              dbVars
<1>3. CASE WriteConfig(c) \/ SetMode(c) \/ ClearHold(c) \/ InsertRun(c)
  <2>1. CASE WriteConfig(c)
    <3>1. sampling' \in BOOLEAN
      <4> DEFINE on == call[c].v \in {"on", "kept on"}
      <4>1. sampling' = on
        BY <2>1 DEF WriteConfig
      <4>2. on \in BOOLEAN
        OBVIOUS
      <4> HIDE DEF on
      <4> QED  BY <4>1, <4>2, Zenon
    <3> QED  BY <2>1, <3>1 DEF WriteConfig, RowsTyped
  <2>2. CASE SetMode(c)
    BY <1>1, <2>2 DEF SetMode, RowsTyped, InPlace
  <2>3. CASE ClearHold(c)
    BY <2>3 DEF ClearHold, RowsTyped
  <2>4. CASE InsertRun(c)
    BY <2>4 DEF InsertRun, RowsTyped, dbVars, RunStatus
  <2> QED  BY <1>3, <2>1, <2>2, <2>3, <2>4
<1>4. CASE Insert(c)
  <2>1. x.w \in Wallet \cup {None}
    BY <1>1 DEF Write
  <2> QED  BY <1>4, <2>1, PutTyped DEF Insert, Status
<1>5. CASE SetWallet(c)
  <2>1. x.s \in Session => [sess[x.s] EXCEPT !.wallet = x.w] \in Row
    BY <1>1 DEF Write, RowsTyped
  <2> QED  BY <1>5, <2>1, PutTyped DEF SetWallet
<1>6. ASSUME NEW S, Closed(c, S), UNCHANGED <<up, cookie, run, mode, sampling, wallets, holds>>
      PROVE  RowsTyped'
  <2>1. ASSUME NEW s \in Session PROVE [sess[s] EXCEPT !.status = "hard"] \in Row
    BY DEF RowsTyped, Status
  <2>2. sess' \in [Session -> Row]
    BY <1>6, <2>1 DEF Closed, RowsTyped
  <2> QED  BY <1>6, <2>2 DEF RowsTyped
<1>7. CASE Sweep(c) \/ CloseEach(c)
  BY <1>6, <1>7 DEF Sweep, CloseEach, RowsTyped
<1>8. CASE CloseSession(c)
  <2>1. x.op \in Status
    BY <1>1, <1>8 DEF CloseSession, InPlace, Status
  <2>2. CASE x.s \in Session /\ sess' = [sess EXCEPT ![x.s].status = x.op]
    <3>1. [sess[x.s] EXCEPT !.status = x.op] \in Row
      BY <2>1, <2>2 DEF RowsTyped
    <3>2. sess' \in [Session -> Row]
      BY <2>2, <3>1 DEF RowsTyped
    <3> QED  BY <1>8, <3>2 DEF CloseSession, RowsTyped
  <2>3. CASE UNCHANGED sess
    BY <1>8, <2>3 DEF CloseSession, RowsTyped
  <2> QED  BY <1>8, <2>2, <2>3 DEF CloseSession, RowsTyped
<1>9. CASE Delete(c)
  <2>1. CASE Crash
    BY <2>1 DEF Crash, RowsTyped, dbVars
  <2> QED  BY <1>9, <2>1 DEF Delete, RowsTyped
<1>10. CASE InsertWallet(c)
  BY <1>1, <1>10 DEF InsertWallet, InPlace, RowsTyped
<1> QED  BY <1>2, <1>3, <1>4, <1>5, <1>7, <1>8, <1>9, <1>10 DEF Handle

-----------------------------------------------------------------------------
\* What an answer may hold: rows of sessions there may be, wallets there may be.
BodyTyped(r, b) ==
  /\ r = "sessions" => DOMAIN b \subseteq Session
  /\ r = "selectable" => b \subseteq Wallet

ReadTyped(r, x) ==
  /\ x = [at |-> x.at, by |-> x.by, arg |-> x.arg, body |-> x.body]
  /\ x.at \in {"none", "asked", "listed", "got", "failed"}
  /\ x.at = "listed" => r \in {"wallets", "selectable"}
  /\ x.at \in {"listed", "got"} => \E b : x.body = <<b>> /\ BodyTyped(r, b)

\* The reads under way of one resource, in the slots there are.
SlotsTyped(r, reads) ==
  /\ reads = [k \in Slots |-> reads[k]]
  /\ \A k \in Slots : ReadTyped(r, reads[k])

InFlight(f) ==
  /\ f = [r \in Resource |-> f[r]]
  /\ \A r \in Resource : SlotsTyped(r, f[r])

ReadsTyped == InFlight(read)

\* Nothing of a resource, or what an answer may hold.
Holds(r, v) == v = <<>> \/ \E b : v = <<b>> /\ BodyTyped(r, b)

OnDisplay(f) ==
  /\ f = [r \in Resource |-> f[r]]
  /\ \A r \in Resource : Holds(r, f[r])

ViewTyped == OnDisplay(view)

LEMMA Unread ==
  ASSUME NEW r, NEW by, NEW arg
  PROVE  ReadTyped(r, NoRead) /\ ReadTyped(r, Asked(by, arg))
BY DEF ReadTyped, NoRead, Asked

\* One read gets on.
LEMMA ReadMoves ==
  ASSUME ReadsTyped, NEW r \in Resource, NEW k \in Slots, NEW at, NEW body, SetRead(r, k, at, body),
         at \in {"got", "failed", "listed"}, at = "listed" => r \in {"wallets", "selectable"},
         at # "failed" => \E b : body = <<b>> /\ BodyTyped(r, b),
         UNCHANGED scope
  PROVE  ReadsTyped'
<1> DEFINE x == read[r][k]
           y == [x EXCEPT !.at = at, !.body = body]
<1>1. SlotsTyped(r, read[r]) /\ ReadTyped(r, x)
  BY DEF ReadsTyped, InFlight, SlotsTyped
<1>2. PICK a, b, g, o : x = [at |-> a, by |-> b, arg |-> g, body |-> o]
  BY <1>1 DEF ReadTyped
<1>3. y = [at |-> at, by |-> b, arg |-> g, body |-> body]
  <2> DEFINE z == [x EXCEPT !.at = at]
  <2>1. z = [at |-> at, by |-> b, arg |-> g, body |-> o]
    BY <1>2
  <2>2. y = [z EXCEPT !.body = body]
    OBVIOUS
  <2> HIDE DEF z, y
  <2> QED  BY <2>1, <2>2
<1>4. ReadTyped(r, y)
  BY <1>3 DEF ReadTyped
<1>5. read' = [read EXCEPT ![r][k] = y]
  <2>1. read[r] = [j \in Slots |-> read[r][j]] /\ read = [q \in Resource |-> read[q]]
    BY <1>1 DEF SlotsTyped, ReadsTyped, InFlight
  <2> QED  BY <2>1 DEF SetRead
<1> HIDE DEF y
<1>6. SlotsTyped(r, [read[r] EXCEPT ![k] = y])
  BY <1>1, <1>4 DEF SlotsTyped
<1>7. ASSUME NEW q \in Resource PROVE SlotsTyped(q, read'[q])
  BY <1>5, <1>6 DEF ReadsTyped, InFlight
<1>8. read' = [q \in Resource |-> read'[q]]
  BY <1>5 DEF ReadsTyped, InFlight
<1> QED  BY <1>7, <1>8 DEF ReadsTyped, InFlight, SlotsTyped, Slots, ReadTyped, BodyTyped

\* A step of the API, all of it.
ApiTyped == WritesTyped /\ RowsTyped /\ ReadsTyped /\ BoundsTyped

LEMMA FaultBounded ==
  ASSUME BoundsTyped, Fault \/ UNCHANGED faults
  PROVE  faults' \in 0..MaxFaults
BY ApiAssumption DEF BoundsTyped, Fault

LEMMA ServeTyped ==
  ASSUME RowsTyped, ReadsTyped, UNCHANGED scope, NEW r \in Resource, NEW k \in Slots,
         Serve(r, k) \/ LoseRead(r, k)
  PROVE  ReadsTyped'
<1> DEFINE x == read[r][k]
<1>1. ReadTyped(r, x)
  BY DEF ReadsTyped, InFlight, SlotsTyped
<1>2. CASE SetRead(r, k, "failed", <<>>)
  BY <1>2, ReadMoves
<1>3. ASSUME r \notin {"wallets", "selectable"}, SetRead(r, k, "got", <<Snapshot(r, x.arg)>>)
      PROVE  ReadsTyped'
  <2>1. r = "sessions" => DOMAIN Snapshot(r, x.arg) \subseteq Session
    <3>1. DOMAIN SessionRows \subseteq Session
      BY DEF SessionRows
    <3>2. r = "sessions" => Snapshot(r, x.arg) = SessionRows
      BY DEF Snapshot, RunSnapshot
    <3> QED  BY <3>1, <3>2
  <2>2. BodyTyped(r, Snapshot(r, x.arg))
    BY <1>3, <2>1 DEF BodyTyped
  <2> QED  BY <1>3, <2>2, ReadMoves
<1>4. CASE ListWallets(r, k)
  <2> DEFINE b == IF r = "wallets" THEN wallets ELSE {w \in wallets : Kind[w] = mode}
  <2>1. BodyTyped(r, b)
    BY <1>4 DEF BodyTyped, RowsTyped, ListWallets
  <2>2. SetRead(r, k, "listed", <<b>>) \/ SetRead(r, k, "failed", <<>>)
    BY <1>4 DEF ListWallets
  <2>3. r \in {"wallets", "selectable"}
    BY <1>4 DEF ListWallets
  <2> HIDE DEF b
  <2> QED  BY <1>2, <2>1, <2>2, <2>3, ReadMoves
<1>5. CASE FindUsage(r, k)
  <2>1. r \in {"wallets", "selectable"} /\ \E b : x.body = <<b>> /\ BodyTyped(r, b)
    BY <1>1, <1>5 DEF FindUsage, ReadTyped
  <2>2. r = "selectable" => x.body[1] \subseteq Wallet
    BY <2>1 DEF BodyTyped
  <2>3. PICK b : SetRead(r, k, "got", <<b>>) /\ (r = "selectable" => b \subseteq x.body[1])
    BY <1>5 DEF FindUsage
  <2>4. BodyTyped(r, b)
    BY <2>1, <2>2, <2>3 DEF BodyTyped
  <2> QED  BY <2>3, <2>4, ReadMoves
<1> QED  BY <1>2, <1>3, <1>4, <1>5 DEF Serve, ServeOne, LoseRead

LEMMA ApiStepTyped ==
  ASSUME ApiTyped, ApiStep, UNCHANGED scope
  PROVE  ApiTyped'
<1> USE DEF ApiTyped
<1>1. ASSUME UNCHANGED read PROVE ReadsTyped'
  BY <1>1 DEF ReadsTyped, InFlight, SlotsTyped, Slots, ReadTyped, BodyTyped
<1>2. ASSUME UNCHANGED call PROVE WritesTyped'
  BY <1>2 DEF WritesTyped, InPlace
<1>3. ASSUME UNCHANGED <<up, cookie, dbVars, run>> \/ Crash PROVE RowsTyped'
  BY <1>3 DEF RowsTyped, dbVars, Crash
<1>4. ASSUME Fault \/ UNCHANGED faults, UNCHANGED writes PROVE BoundsTyped'
  BY <1>4, FaultBounded DEF BoundsTyped
<1>5. ASSUME NEW r \in Resource, NEW k \in DOMAIN read[r], Serve(r, k) \/ ReadFails(r, k) \/ LoseRead(r, k)
      PROVE  ApiTyped'
  <2>1. k \in Slots
    BY <1>5 DEF ReadsTyped, InFlight, SlotsTyped
  <2>2. CASE Serve(r, k) \/ LoseRead(r, k)
    <3>1. ReadsTyped'
      BY <2>1, <2>2, ServeTyped
    <3>2. UNCHANGED <<up, cookie, dbVars, run, call, writes>> /\ (Fault \/ UNCHANGED faults)
      BY <2>2 DEF Serve, ServeOne, ListWallets, FindUsage, LoseRead
    <3> QED  BY <1>2, <1>3, <1>4, <3>1, <3>2
  <2>3. CASE ReadFails(r, k) /\ r = "perp"
    <3>1. SetRead(r, k, "failed", <<>>)
      BY <2>3 DEF ReadFails
    <3>2. ReadsTyped'
      BY <2>1, <3>1, ReadMoves
    <3> QED  BY <1>2, <1>3, <1>4, <2>3, <3>2 DEF ReadFails
  <2>4. CASE ReadFails(r, k) /\ r # "perp"
    <3>1. Crash /\ UNCHANGED <<read, writes>> /\ Fault
      BY <2>4 DEF ReadFails, Crash
    <3> QED  BY <1>1, <1>3, <1>4, <3>1, CrashTyped
  <2> QED  BY <1>5, <2>2, <2>3, <2>4
<1>6. ASSUME NEW c \in Client, Handle(c) PROVE ApiTyped'
  <2>1. UNCHANGED <<read, writes, faults>>
    BY <1>6 DEF Handle, Enter, Existing, Eligible, Balance, ReadConfig, WriteConfig, Insert, SetWallet,
                Sweep, CloseSession, SetMode, ListLive, CloseEach, CheckUsage, Delete, InsertWallet,
                ClearHold, DataSpan, InsertRun, Put, PutUnchecked, Crash
  <2> QED  BY <1>1, <1>4, <1>6, <2>1, HandleCalls, HandleRows
<1>7. ASSUME NEW c \in Client, CallFails(c) PROVE ApiTyped'
  <2>1. UNCHANGED <<read, writes>> /\ Fault
    BY <1>7 DEF CallFails, Crash
  <2>2. CASE Crash
    BY <1>1, <1>3, <1>4, <2>1, <2>2, CrashTyped
  <2>3. CASE Answer(c, "refused") /\ UNCHANGED <<up, cookie, run, dbVars>>
    BY <1>1, <1>3, <1>4, <2>1, <2>3, AnswerTyped DEF Codes
  <2> QED  BY <1>7, <2>2, <2>3 DEF CallFails
<1>8. ASSUME NEW c \in Client, LoseCall(c) PROVE ApiTyped'
  <2>1. UNCHANGED <<up, cookie, run, dbVars, read, writes>> /\ (Fault \/ UNCHANGED faults)
    BY <1>8 DEF LoseCall
  <2>2. WritesTyped'
    BY <1>8, AnswerTyped DEF LoseCall, Codes
  <2> QED  BY <1>1, <1>3, <1>4, <2>1, <2>2
<1>9. ASSUME Engine PROVE ApiTyped'
  <2>1. RowsTyped'
    <3>1. CASE \E s \in Session : sess' = [sess EXCEPT ![s].status = "closed"] /\ UNCHANGED holds
      <4>1. PICK s \in Session : sess' = [sess EXCEPT ![s].status = "closed"] /\ UNCHANGED holds
        BY <3>1
      <4>2. [sess[s] EXCEPT !.status = "closed"] \in [status : Status, wallet : Wallet \cup {None}]
        BY DEF RowsTyped, Status
      <4>3. sess' \in [Session -> [status : Status, wallet : Wallet \cup {None}]]
        BY <4>1, <4>2 DEF RowsTyped
      <4> QED  BY <1>9, <4>1, <4>3 DEF Engine, RowsTyped
    <3>2. CASE \E w \in wallets \ holds : holds' = holds \cup {w} /\ UNCHANGED sess
      BY <1>9, <3>2 DEF Engine, RowsTyped
    <3> QED  BY <1>9, <3>1, <3>2 DEF Engine
  <2> QED  BY <1>1, <1>2, <1>4, <1>9, <2>1 DEF Engine
<1>10. ASSUME Replay PROVE ApiTyped'
  <2>1. run' \in [status : RunStatus, held : BOOLEAN, trades : 0..1]
    <3>1. run \in [status : RunStatus, held : BOOLEAN, trades : 0..1]
      BY DEF RowsTyped
    <3>2. CASE \E end \in {"running", "completed", "failed"} : run' = [run EXCEPT !.status = end]
      BY <3>1, <3>2 DEF RunStatus
    <3>3. CASE run' = [run EXCEPT !.held = TRUE]
      BY <3>1, <3>3
    <3>4. CASE run' = [run EXCEPT !.held = FALSE, !.trades = 1]
      <4> DEFINE flat == [run EXCEPT !.held = FALSE]
      <4>1. flat \in [status : RunStatus, held : BOOLEAN, trades : 0..1]
        BY <3>1
      <4>2. run' = [flat EXCEPT !.trades = 1]
        BY <3>4
      <4>3. 1 \in 0..1
        OBVIOUS
      <4> HIDE DEF flat
      <4> QED  BY <4>1, <4>2, <4>3
    <3> QED  BY <1>10, <3>2, <3>3, <3>4 DEF Replay
  <2>2. RowsTyped'
    BY <1>10, <2>1 DEF Replay, RowsTyped, dbVars
  <2> QED  BY <1>1, <1>2, <1>4, <1>10, <2>2 DEF Replay
<1>11. ASSUME Expire PROVE ApiTyped'
  <2>1. RowsTyped'
    BY <1>11 DEF Expire, RowsTyped, dbVars
  <2> QED  BY <1>1, <1>2, <1>4, <1>11, <2>1 DEF Expire
<1> QED  BY <1>5, <1>6, <1>7, <1>8, <1>9, <1>10, <1>11 DEF ApiStep
-----------------------------------------------------------------------------
(* The page.                                                               *)

PageTyped ==
  /\ scope \in Looks
  /\ \E x \in Scope : scope = [x EXCEPT !.page = page]
  /\ range \in ChartRange /\ dialog \in Dialogs /\ walletId \in Wallet \cup {None}
  /\ stuck \in BOOLEAN /\ error \in BOOLEAN

ScreenInv == ApiTyped /\ PageTyped /\ ViewTyped

LEMMA ReadsSet ==
  ASSUME NEW f, InFlight(f), NEW r \in Resource, NEW reads, SlotsTyped(r, reads)
  PROVE  InFlight([f EXCEPT ![r] = reads])
BY DEF InFlight

LEMMA ViewSet ==
  ASSUME NEW f, OnDisplay(f), NEW r \in Resource, NEW v, Holds(r, v)
  PROVE  OnDisplay([f EXCEPT ![r] = v])
BY DEF OnDisplay

LEMMA ReadsNow ==
  ASSUME InFlight(read'), Slots' = Slots
  PROVE  ReadsTyped'
BY DEF ReadsTyped, InFlight, SlotsTyped, ReadTyped, BodyTyped

LEMMA ViewNow ==
  ASSUME OnDisplay(view')
  PROVE  ViewTyped'
BY DEF ViewTyped, OnDisplay, Holds, BodyTyped

\* A slot in which nothing is under way, or something was just asked.
LEMMA SlotSet ==
  ASSUME NEW r, NEW reads, SlotsTyped(r, reads), NEW k, NEW x, ReadTyped(r, x)
  PROVE  SlotsTyped(r, [reads EXCEPT ![k] = x])
BY DEF SlotsTyped

LEMMA AskingTyped ==
  ASSUME NEW r, NEW reads, SlotsTyped(r, reads), NEW by, NEW arg
  PROVE  SlotsTyped(r, Asking(reads, by, arg))
BY Unread, SlotSet DEF Asking

LEMMA FetchTyped ==
  ASSUME ReadsTyped, NEW R, NEW by, Fetch(R, by), UNCHANGED scope
  PROVE  ReadsTyped'
<1>1. read' = [r \in Resource |-> read'[r]]
  BY DEF Fetch
<1>2. ASSUME NEW r \in Resource PROVE SlotsTyped(r, read'[r])
  <2>1. SlotsTyped(r, read[r])
    BY DEF ReadsTyped, InFlight
  <2>2. read'[r] = read[r] \/ read'[r] = Asking(read[r], by, Arg(r, range))
    BY DEF Fetch
  <2> QED  BY <2>1, <2>2, AskingTyped
<1>3. InFlight(read')
  BY <1>1, <1>2 DEF InFlight
<1> QED  BY <1>3, ReadsNow DEF Slots

LEMMA HoldsOfTyped == \A r, W : SlotsTyped(r, HoldsOf(W))
<1>1. ASSUME NEW r, NEW W PROVE SlotsTyped(r, HoldsOf(W))
  <2>1. SlotsTyped(r, [k \in Slots |-> NoRead])
    BY Unread DEF SlotsTyped
  <2>2. SlotsTyped(r, [k \in Slots |-> IF k = 1 THEN Asked("poll", None) ELSE NoRead])
    BY Unread DEF SlotsTyped
  <2> QED  BY <2>1, <2>2 DEF HoldsOf
<1> QED  BY <1>1

LEMMA OpeningTyped ==
  ASSUME NEW p, Opening(p)
  PROVE  InFlight(read')
<1>1. ASSUME NEW r \in Resource PROVE SlotsTyped(r, read'[r])
  BY Unread DEF SlotsTyped, Opening
<1> QED  BY <1>1 DEF InFlight, Opening

\* What is read arrives.
LEMMA SelectTyped ==
  ASSUME NEW w, NEW W, W \subseteq Wallet
  PROVE  Select(w, W) \in Wallet \cup {None}
BY DEF Select

LEMMA DeliverTyped ==
  ASSUME ScreenInv, NEW r \in Resource, NEW k \in Slots, Deliver(r, k)
  PROVE  ReadsTyped' /\ ViewTyped' /\ walletId' \in Wallet \cup {None}
<1> DEFINE body == read[r][k].body
<1>1. PICK b : body = <<b>> /\ BodyTyped(r, b)
  BY DEF Deliver, ScreenInv, ApiTyped, ReadsTyped, InFlight, SlotsTyped, ReadTyped
<1>2. Holds(r, body) /\ body[1] = b
  BY <1>1 DEF Holds
<1> HIDE DEF body
<1>3. ViewTyped'
  <2>1. ASSUME NEW q \in Resource PROVE Holds(q, view'[q])
    <3>1. Holds(q, view[q]) /\ Holds("holds", <<{}>>)
      BY DEF ScreenInv, ViewTyped, OnDisplay, Holds, BodyTyped
    <3>2. \/ q = r /\ view'[q] = body
          \/ q = "holds" /\ view'[q] = <<{}>>
          \/ view'[q] = view[q]
      BY DEF Deliver, body
    <3> QED  BY <1>2, <3>1, <3>2
  <2>2. OnDisplay(view')
    BY <2>1 DEF OnDisplay, Deliver
  <2> QED  BY <2>2, ViewNow
<1>4. ReadsTyped'
  <2>1. ASSUME NEW q \in Resource PROVE SlotsTyped(q, read'[q])
    <3>1. SlotsTyped(q, read[q])
      BY DEF ScreenInv, ApiTyped, ReadsTyped, InFlight
    <3>2. SlotsTyped(q, [read[q] EXCEPT ![k] = NoRead])
      BY <3>1, SlotSet, Unread
    <3>3. \/ read'[q] = [read[q] EXCEPT ![k] = NoRead]
          \/ read'[q] = HoldsOf(DOMAIN body[1])
          \/ read'[q] = read[q]
      BY DEF Deliver, body
    <3> QED  BY <3>1, <3>2, <3>3, HoldsOfTyped
  <2>2. InFlight(read')
    BY <2>1 DEF InFlight, Deliver
  <2> QED  BY <2>2, ReadsNow DEF Deliver, Slots
<1>5. walletId' \in Wallet \cup {None}
  <2>1. CASE r = "selectable"
    <3>1. walletId' = Select(walletId, b)
      BY <1>2, <2>1 DEF Deliver, body
    <3> QED  BY <1>1, <2>1, <3>1, SelectTyped DEF BodyTyped
  <2>2. CASE r # "selectable"
    BY <2>2 DEF Deliver, ScreenInv, PageTyped
  <2> QED  BY <2>1, <2>2
<1> QED  BY <1>3, <1>4, <1>5

LEMMA FailureTyped ==
  ASSUME ScreenInv, NEW r \in Resource, NEW k \in Slots, DeliverFailure(r, k)
  PROVE  ReadsTyped' /\ ViewTyped' /\ walletId' \in Wallet \cup {None} /\ error' \in BOOLEAN
<1> DEFINE v == Fallback(r, read[r][k].by)
<1>1. Holds(r, v)
  <2>1. Holds(r, view[r]) /\ Holds("sessions", <<[s \in {} |-> NoCall]>>)
    BY DEF ScreenInv, ViewTyped, OnDisplay, Holds, BodyTyped
  <2>2. r # "sessions" => Holds(r, <<{}>>)
    <3>1. r # "sessions" => BodyTyped(r, {})
      BY DEF BodyTyped
    <3> QED  BY <3>1 DEF Holds
  <2>3. \A b : r \notin {"sessions", "selectable"} => Holds(r, <<b>>)
    BY DEF Holds, BodyTyped
  <2> QED  BY <2>1, <2>2, <2>3 DEF Fallback
<1>2. view' = [view EXCEPT ![r] = v]
  BY DEF DeliverFailure
<1> HIDE DEF v
<1>3. ViewTyped'
  BY <1>1, <1>2, ViewSet, ViewNow DEF ScreenInv, ViewTyped
<1>4. ReadsTyped'
  <2>1. SlotsTyped(r, [read[r] EXCEPT ![k] = NoRead])
    BY SlotSet, Unread DEF ScreenInv, ApiTyped, ReadsTyped, InFlight
  <2>2. InFlight([read EXCEPT ![r][k] = NoRead])
    BY <2>1, ReadsSet DEF ScreenInv, ApiTyped, ReadsTyped
  <2> QED  BY <2>2, ReadsNow DEF DeliverFailure, Slots
<1>5. error' \in BOOLEAN
  <2> DEFINE e == error \/ r \in Pages[page].errors
  <2>1. error' = e /\ e \in BOOLEAN
    BY DEF DeliverFailure
  <2> HIDE DEF e
  <2> QED  BY <2>1, Zenon
<1>6. walletId' \in Wallet \cup {None}
  BY DEF DeliverFailure, ScreenInv, PageTyped
<1> QED  BY <1>3, <1>4, <1>5, <1>6

-----------------------------------------------------------------------------
\* What a step leaves as it was.
LEMMA PageSame ==
  ASSUME ScreenInv, UNCHANGED scope, range' \in ChartRange, dialog' \in Dialogs,
         walletId' \in Wallet \cup {None}, stuck' \in BOOLEAN, error' \in BOOLEAN
  PROVE  PageTyped'
BY DEF ScreenInv, PageTyped, page

LEMMA ViewStays ==
  ASSUME ScreenInv, UNCHANGED view
  PROVE  ViewTyped'
BY DEF ScreenInv, ViewTyped, OnDisplay, Holds, BodyTyped

LEMMA ReadsStay ==
  ASSUME ScreenInv, UNCHANGED <<read, scope>>
  PROVE  ReadsTyped'
BY DEF ScreenInv, ApiTyped, ReadsTyped, InFlight, SlotsTyped, Slots, ReadTyped, BodyTyped

LEMMA RowsStayTyped ==
  ASSUME ScreenInv, UNCHANGED <<up, cookie, dbVars, run>>
  PROVE  RowsTyped'
BY DEF ScreenInv, ApiTyped, RowsTyped, dbVars

LEMMA WritesStay ==
  ASSUME ScreenInv, UNCHANGED call
  PROVE  WritesTyped'
BY DEF ScreenInv, ApiTyped, WritesTyped, InPlace

\* A request that is sent.
LEMMA SendTyped ==
  ASSUME ScreenInv, NEW c \in Client, NEW op \in Ops, NEW s \in Session \cup {None},
         NEW w \in Wallet \cup {None}, NEW v \in Values,
         op = "mode" => v \in {"mock", "live"}, op = "add" => w \in Wallet,
         call' = [call EXCEPT ![c] = [NoCall EXCEPT !.op = op, !.at = "sent", !.s = s, !.w = w, !.v = v]]
  PROVE  WritesTyped'
<1> DEFINE x == [op |-> op, at |-> "sent", s |-> s, w |-> w, v |-> v, got |-> {}, code |-> "pending"]
<1>1. [NoCall EXCEPT !.op = op, !.at = "sent", !.s = s, !.w = w, !.v = v] = x
  <2>1. [NoCall EXCEPT !.op = op, !.at = "sent", !.s = s, !.w = w, !.v = v]
          = Fields(op, "sent", s, w, v, {}, "pending")
    BY Sent
  <2> QED  BY <2>1 DEF Fields
<1>2. x \in Write /\ InPlace(x)
  BY DEF Write, InPlace, Places, Codes
<1> HIDE DEF x
<1> QED  BY <1>1, <1>2, WriteTyped DEF ScreenInv, ApiTyped

LEMMA OverTyped ==
  ASSUME ScreenInv, NEW c \in Client, call' = [call EXCEPT ![c] = NoCall]
  PROVE  WritesTyped'
<1>1. NoCall \in Write /\ InPlace(NoCall)
  BY DEF NoCall, Write, InPlace, Places, Codes, Values
<1> QED  BY <1>1, WriteTyped DEF ScreenInv, ApiTyped

LEMMA SpentTyped ==
  ASSUME ScreenInv, writes > 0, writes' = writes - 1, UNCHANGED faults
  PROVE  BoundsTyped'
BY ApiAssumption DEF ScreenInv, ApiTyped, BoundsTyped

LEMMA OperatorTyped ==
  ASSUME ScreenInv, Operator
  PROVE  ScreenInv'
<1> USE ConsoleAssumption
<1>1. UNCHANGED <<up, cookie, run, dbVars, faults, scope>>
  BY DEF Operator, SamplingClick, Confirm, Cancel, OpenForm, Submit, SubmitBacktest, ModeClick,
         ChooseWallet, CloseClick, WalletClick, ChangeRange, apiVars, dbVars, pageVars
<1>2. RowsTyped'
  BY <1>1, RowsStayTyped
<1>3. /\ scope \in Looks /\ range \in ChartRange /\ dialog \in Dialogs /\ walletId \in Wallet \cup {None}
      /\ stuck \in BOOLEAN /\ error \in BOOLEAN
  BY DEF ScreenInv, PageTyped
<1>4. /\ WritesTyped' /\ BoundsTyped'
  <2>1. CASE UNCHANGED <<call, writes>>
    BY <1>1, <2>1, WritesStay DEF ScreenInv, ApiTyped, BoundsTyped
  <2>2. ASSUME NEW op \in Ops, NEW s \in Session \cup {None}, NEW w \in Wallet \cup {None}, NEW v \in Values,
               op = "mode" => v \in {"mock", "live"}, op = "add" => w \in Wallet, Send(Me, op, s, w, v)
        PROVE  WritesTyped' /\ BoundsTyped'
    <3>1. WritesTyped'
      BY <2>2, SendTyped DEF Send
    <3>2. BoundsTyped'
      BY <1>1, <2>2, SpentTyped DEF Send, MaySend
    <3> QED  BY <3>1, <3>2
  <2>3. ASSUME NEW v \in {"on", "off"}, Patch(v) PROVE WritesTyped' /\ BoundsTyped'
    BY <2>2, <2>3 DEF Patch, Ops, Values
  <2>4. CASE SamplingClick \/ Confirm
    BY <2>1, <2>3, <2>4 DEF SamplingClick, Confirm
  <2>5. CASE Submit
    <3>1. PICK s \in scope.sessions : Send(Me, "create", s, walletId, "on")
      BY <2>5 DEF Submit
    <3>2. s \in Session
      BY <1>3, <3>1 DEF Looks
    <3> QED  BY <1>3, <2>2, <3>1, <3>2 DEF Ops, Values
  <2>6. CASE SubmitBacktest
    BY <2>2, <2>6 DEF SubmitBacktest, Ops, Values
  <2>7. CASE ModeClick
    BY <2>2, <2>7 DEF ModeClick, Ops, Values
  <2>8. ASSUME NEW op \in {"soft", "hard"}, NEW s \in Session, CloseClick(op, s)
        PROVE  WritesTyped' /\ BoundsTyped'
    BY <2>2, <2>8 DEF CloseClick, Ops, Values
  <2>9. ASSUME NEW op \in {"add", "remove", "clear"}, NEW w \in scope.wallets, WalletClick(op, w)
        PROVE  WritesTyped' /\ BoundsTyped'
    <3>1. w \in Wallet
      BY <1>3 DEF Looks
    <3> QED  BY <2>2, <2>9, <3>1 DEF WalletClick, Ops, Values
  <2>10. CASE Cancel \/ OpenForm \/ (\E w \in Wallet : ChooseWallet(w)) \/ (\E x \in ChartRange : ChangeRange(x))
    BY <2>1, <2>10 DEF Cancel, OpenForm, ChooseWallet, ChangeRange, apiVars
  <2> QED  BY <2>4, <2>5, <2>6, <2>7, <2>8, <2>9, <2>10 DEF Operator
<1>5. ReadsTyped'
  <2>1. CASE UNCHANGED read
    BY <1>1, <2>1, ReadsStay
  <2>2. ASSUME NEW R, NEW by, Fetch(R, by) PROVE ReadsTyped'
    BY <1>1, <2>2, FetchTyped DEF ScreenInv, ApiTyped
  <2>3. CASE Cancel
    <3>1. SlotsTyped("selectable", [k \in Slots |-> NoRead])
      BY Unread DEF SlotsTyped
    <3>2. InFlight(read')
      BY <2>3, <3>1, ReadsSet DEF Cancel, ScreenInv, ApiTyped, ReadsTyped, Resource
    <3> QED  BY <1>1, <3>2, ReadsNow DEF Slots
  <2>4. ASSUME NEW x \in ChartRange, ChangeRange(x) PROVE ReadsTyped'
    <3>1. ASSUME NEW r \in Resource PROVE SlotsTyped(r, StillOpen[r])
      <4>1. SlotsTyped(r, read[r])
        BY DEF ScreenInv, ApiTyped, ReadsTyped, InFlight
      <4> QED  BY <4>1, Unread DEF StillOpen, SlotsTyped
    <3>2. ASSUME NEW r \in Resource PROVE SlotsTyped(r, read'[r])
      <4>1. read'[r] = StillOpen[r] \/ read'[r] = Asking(StillOpen[r], "poll", Arg(r, x))
        BY <2>4 DEF ChangeRange
      <4> QED  BY <3>1, <4>1, AskingTyped
    <3>3. InFlight(read')
      BY <2>4, <3>2 DEF InFlight, ChangeRange
    <3> QED  BY <1>1, <3>3, ReadsNow DEF Slots
  <2>5. CASE OpenForm
    BY <2>1, <2>2, <2>5 DEF OpenForm
  <2> QED  BY <2>1, <2>3, <2>4, <2>5 DEF Operator, SamplingClick, Confirm, Submit, SubmitBacktest, ModeClick,
              ChooseWallet, CloseClick, WalletClick, apiVars
<1>6. ViewTyped'
  <2>1. CASE UNCHANGED view
    BY <2>1, ViewStays
  <2>2. ASSUME NEW r \in {"perp", "selectable"}, NEW v, Holds(r, v), view' = [view EXCEPT ![r] = v]
        PROVE  ViewTyped'
    BY <2>2, ViewSet, ViewNow DEF ScreenInv, ViewTyped, Resource
  <2>3. \A b : Holds("perp", <<b>>) /\ Holds("selectable", <<>>)
    BY DEF Holds, BodyTyped
  <2>4. CASE SamplingClick \/ Confirm
    <3>1. UNCHANGED view \/ \E v : Patch(v)
      BY <2>4 DEF SamplingClick, Confirm
    <3> QED  BY <2>1, <2>2, <2>3, <3>1 DEF Patch
  <2>5. CASE Cancel
    BY <2>2, <2>3, <2>5 DEF Cancel
  <2> QED  BY <2>1, <2>4, <2>5 DEF Operator, Submit, SubmitBacktest, ModeClick, OpenForm, ChangeRange,
              ChooseWallet, CloseClick, WalletClick, pageVars
<1>7. PageTyped'
  <2>1. /\ range' = range \/ range' \in ChartRange
        /\ dialog' = dialog \/ dialog' \in Dialogs
        /\ walletId' = walletId \/ walletId' \in Wallet \cup {None}
        /\ stuck' = stuck /\ (error' = error \/ error' = FALSE)
    BY DEF Operator, SamplingClick, Confirm, Cancel, OpenForm, Submit, SubmitBacktest, ModeClick,
           ChooseWallet, CloseClick, WalletClick, ChangeRange, pageVars, Dialogs
  <2> QED  BY <1>1, <1>3, <2>1, PageSame
<1> QED  BY <1>2, <1>4, <1>5, <1>6, <1>7 DEF ScreenInv, ApiTyped

LEMMA ElsewhereTyped ==
  ASSUME ScreenInv, NEW c \in Client, Elsewhere(c)
  PROVE  ScreenInv'
<1>1. UNCHANGED <<up, cookie, run, dbVars, read, faults, pageVars>>
  BY DEF Elsewhere
<1>2. WritesTyped' /\ BoundsTyped'
  <2>1. CASE UNCHANGED writes /\ call' = [call EXCEPT ![c] = NoCall]
    BY <1>1, <2>1, OverTyped DEF ScreenInv, ApiTyped, BoundsTyped
  <2>2. ASSUME NEW op \in scope.others, NEW s \in scope.sessions \cup {None},
               NEW w \in scope.wallets \cup {None}, NEW v \in {"on", "off", "keep", "mock", "live", None},
               Request(op, s, w, v), Send(c, op, s, w, v)
        PROVE  WritesTyped' /\ BoundsTyped'
    <3>1. op \in Ops /\ s \in Session \cup {None} /\ w \in Wallet \cup {None} /\ v \in Values
      BY DEF ScreenInv, PageTyped, Looks, Values
    <3>2. (op = "mode" => v \in {"mock", "live"}) /\ (op = "add" => w \in Wallet)
      BY <2>2 DEF Request
    <3>3. WritesTyped'
      BY <2>2, <3>1, <3>2, SendTyped DEF Send
    <3>4. BoundsTyped'
      BY <1>1, <2>2, SpentTyped DEF Send, MaySend
    <3> QED  BY <3>3, <3>4
  <2> QED  BY <2>1, <2>2 DEF Elsewhere
<1>3. RowsTyped' /\ ReadsTyped' /\ ViewTyped'
  BY <1>1, RowsStayTyped, ReadsStay, ViewStays DEF pageVars
<1>4. PageTyped'
  BY <1>1, PageSame DEF ScreenInv, PageTyped, pageVars
<1> QED  BY <1>2, <1>3, <1>4 DEF ScreenInv, ApiTyped

\* An answer to the page's own write.
LEMMA AnsweredTyped ==
  ASSUME ScreenInv, Answered
  PROVE  ScreenInv'
<1> USE ConsoleAssumption
<1> DEFINE x == call[Me]
<1>1. UNCHANGED <<up, cookie, run, dbVars, faults, range, writes>>
  BY DEF Answered, BacktestAnswered, PatchAnswered, Thrown, CloseAnswered, CreateAnswered, WalletAnswered,
         ModeAnswered
<1>2. /\ scope \in Looks /\ range \in ChartRange /\ dialog \in Dialogs /\ walletId \in Wallet \cup {None}
      /\ stuck \in BOOLEAN /\ error \in BOOLEAN /\ x \in Write
  BY DEF ScreenInv, PageTyped, ApiTyped, WritesTyped
<1>3. RowsTyped' /\ BoundsTyped'
  BY <1>1, RowsStayTyped DEF ScreenInv, ApiTyped, BoundsTyped
<1>4. WritesTyped'
  <2>1. CASE Over
    BY <2>1, OverTyped DEF Over
  <2>2. CASE ~Over
    <3>1. call' = [call EXCEPT ![Me] = [NoCall EXCEPT !.op = "attach", !.at = "sent", !.s = x.s, !.w = x.w]]
      BY <2>2 DEF Answered, BacktestAnswered, PatchAnswered, Thrown, CloseAnswered, CreateAnswered,
                  WalletAnswered, ModeAnswered
    <3>2. x.s \in Session \cup {None} /\ x.w \in Wallet \cup {None}
      BY <1>2 DEF Write
    <3>3. [NoCall EXCEPT !.op = "attach", !.at = "sent", !.s = x.s, !.w = x.w]
            = [NoCall EXCEPT !.op = "attach", !.at = "sent", !.s = x.s, !.w = x.w, !.v = None]
      BY Sent
    <3> HIDE DEF x
    <3>4. call' = [call EXCEPT ![Me] =
            [NoCall EXCEPT !.op = "attach", !.at = "sent", !.s = x.s, !.w = x.w, !.v = None]]
      BY <3>1, <3>3
    <3>5. ASSUME NEW op \in Ops \ {"mode", "add"}, NEW s \in Session \cup {None},
                 NEW w \in Wallet \cup {None}, NEW v \in Values,
                 call' = [call EXCEPT ![Me] =
                   [NoCall EXCEPT !.op = op, !.at = "sent", !.s = s, !.w = w, !.v = v]]
          PROVE  WritesTyped'
      BY <3>5, SendTyped
    <3>6. "attach" \in Ops \ {"mode", "add"} /\ None \in Values
      BY DEF Ops, Values
    <3> QED  BY <3>2, <3>4, <3>5, <3>6
  <2> QED  BY <2>1, <2>2
<1>5. Slots' = Slots /\ PageTyped'
  <2>1. error' \in BOOLEAN
    <3> DEFINE A == x.code # "ok"
               B == x.code = "refused"
    <3>1. error' = error \/ error' = TRUE \/ error' = B \/ error' = (error \/ A) \/ error' = (error \/ B)
      BY DEF Answered, BacktestAnswered, PatchAnswered, Thrown, CloseAnswered, CreateAnswered,
             WalletAnswered, ModeAnswered
    <3>2. B \in BOOLEAN /\ (error \/ A) \in BOOLEAN /\ (error \/ B) \in BOOLEAN
      OBVIOUS
    <3> HIDE DEF A, B
    <3>3. error' \in {error, TRUE, B, error \/ A, error \/ B}
      BY <3>1, Zenon
    <3> QED  BY <1>2, <3>2, <3>3, Zenon
  <2>2. stuck' \in BOOLEAN
    <3> DEFINE A == x.op \in {"soft", "hard", "create", "backtest", "add", "mode"}
    <3>1. stuck' = stuck \/ stuck' = A
      BY DEF Answered, BacktestAnswered, PatchAnswered, Thrown, CloseAnswered, CreateAnswered,
             WalletAnswered, ModeAnswered
    <3>2. A \in BOOLEAN
      OBVIOUS
    <3> HIDE DEF A
    <3> QED  BY <1>2, <3>1, <3>2, Zenon
  <2>3. range' \in ChartRange /\ dialog' \in Dialogs /\ walletId' \in Wallet \cup {None}
    BY <1>1, <1>2 DEF Answered, BacktestAnswered, PatchAnswered, Thrown, CloseAnswered, CreateAnswered,
           WalletAnswered, ModeAnswered, Dialogs
  <2>4. CASE UNCHANGED scope
    BY <2>1, <2>2, <2>3, <2>4, PageSame DEF Slots
  <2>5. CASE scope' = [scope EXCEPT !.page = "backtest"]
    <3>1. scope' \in Looks /\ scope'.page = "backtest" /\ scope'.overlap = scope.overlap
      BY <1>2, <2>5 DEF Looks
    <3>2. PICK y \in Scope : scope = [y EXCEPT !.page = page]
      BY DEF ScreenInv, PageTyped
    <3>3. y \in Looks
      BY <3>2
    <3>4. scope' = [y EXCEPT !.page = "backtest"]
      BY <2>5, <3>2, <3>3 DEF Looks
    <3> QED  BY <2>1, <2>2, <2>3, <3>1, <3>4 DEF PageTyped, Slots, page
  <2> QED  BY <2>4, <2>5 DEF Answered, BacktestAnswered
<1>6. ReadsTyped'
  <2>1. CASE UNCHANGED read
    BY <1>5, <2>1, ReadsNow DEF ScreenInv, ApiTyped, ReadsTyped
  <2>2. ASSUME NEW R, NEW by, Fetch(R, by) PROVE ReadsTyped'
    <3>1. read' = [r \in Resource |-> read'[r]]
      BY <2>2 DEF Fetch
    <3>2. ASSUME NEW r \in Resource PROVE SlotsTyped(r, read'[r])
      <4>1. SlotsTyped(r, read[r])
        BY DEF ScreenInv, ApiTyped, ReadsTyped, InFlight
      <4>2. read'[r] = read[r] \/ read'[r] = Asking(read[r], by, Arg(r, range))
        BY <2>2 DEF Fetch
      <4> QED  BY <4>1, <4>2, AskingTyped
    <3>3. InFlight(read')
      BY <3>1, <3>2 DEF InFlight
    <3> QED  BY <1>5, <3>3, ReadsNow
  <2>3. CASE Opening("backtest")
    BY <1>5, <2>3, OpeningTyped, ReadsNow
  <2>4. ASSUME NEW W, read' = [read EXCEPT !["holds"] = HoldsOf(W)] PROVE ReadsTyped'
    <3>1. InFlight(read')
      BY <2>4, HoldsOfTyped, ReadsSet DEF ScreenInv, ApiTyped, ReadsTyped, Resource
    <3> QED  BY <1>5, <3>1, ReadsNow
  <2>5. CASE WalletAnswered
    BY <2>1, <2>4, <2>5 DEF WalletAnswered
  <2>6. CASE BacktestAnswered
    BY <2>1, <2>3, <2>6 DEF BacktestAnswered
  <2> QED  BY <2>1, <2>2, <2>5, <2>6 DEF Answered, PatchAnswered, Thrown, CloseAnswered, CreateAnswered,
              ModeAnswered
<1>7. ViewTyped'
  <2>1. CASE UNCHANGED view
    BY <2>1, ViewStays
  <2>2. OnDisplay(view)
    BY DEF ScreenInv, ViewTyped
  <2>3. \A b : /\ Holds("perp", <<b>>) /\ Holds("mode", <<b>>) /\ Holds("holds", <<b>>)
               /\ Holds("wallets", <<b>>) /\ Holds("selectable", <<>>)
    BY DEF Holds, BodyTyped
  <2>4. ASSUME NEW r \in {"perp", "mode", "holds", "selectable"}, NEW v, Holds(r, v),
               view' = [view EXCEPT ![r] = v]
        PROVE  ViewTyped'
    BY <2>2, <2>4, ViewSet, ViewNow DEF Resource
  <2>5. CASE PatchAnswered \/ ModeAnswered \/ CreateAnswered
    BY <2>1, <2>3, <2>4, <2>5 DEF PatchAnswered, ModeAnswered, CreateAnswered
  <2>6. CASE BacktestAnswered
    <3>1. CASE view' = [r \in Resource |-> <<>>]
      <4>1. OnDisplay(view')
        BY <3>1 DEF OnDisplay, Holds
      <4> QED  BY <4>1, ViewNow
    <3> QED  BY <2>1, <2>6, <3>1 DEF BacktestAnswered
  <2>7. CASE WalletAnswered
    <3>1. CASE \E b : view' = [view EXCEPT !["holds"] = <<b>>]
      BY <2>3, <2>4, <3>1
    <3>2. CASE \E b, v : /\ view' = [view EXCEPT !["wallets"] = <<b>>, !["holds"] = v]
                         /\ v = <<{}>> \/ v = view["holds"]
      <4>1. PICK b, v : /\ view' = [view EXCEPT !["wallets"] = <<b>>, !["holds"] = v]
                        /\ v = <<{}>> \/ v = view["holds"]
        BY <3>2
      <4> DEFINE f == [view EXCEPT !["wallets"] = <<b>>]
      <4>2. OnDisplay(f)
        BY <2>2, <2>3, ViewSet DEF Resource
      <4>3. Holds("holds", v)
        BY <2>2, <2>3, <4>1 DEF OnDisplay, Resource
      <4>4. view' = [f EXCEPT !["holds"] = v]
        BY <4>1
      <4> HIDE DEF f
      <4> QED  BY <4>2, <4>3, <4>4, ViewSet, ViewNow DEF Resource
    <3> QED  BY <2>1, <2>7, <3>1, <3>2 DEF WalletAnswered
  <2> QED  BY <2>1, <2>5, <2>6, <2>7 DEF Answered, Thrown, CloseAnswered
<1> QED  BY <1>3, <1>4, <1>5, <1>6, <1>7 DEF ScreenInv, ApiTyped

LEMMA NextScreen == ScreenInv /\ [ConsoleNext]_consoleVars => ScreenInv'
<1> SUFFICES ASSUME ScreenInv, [ConsoleNext]_consoleVars PROVE ScreenInv'
  OBVIOUS
<1>1. CASE ApiActs
  <2>1. UNCHANGED <<scope, view, range, dialog, walletId, stuck, error>> /\ ApiStep
    BY <1>1 DEF ApiActs, pageVars
  <2>2. ApiTyped' /\ ViewTyped'
    BY <2>1, ApiStepTyped, ViewStays DEF ScreenInv
  <2>3. PageTyped'
    BY <2>1, PageSame DEF ScreenInv, PageTyped
  <2> QED  BY <2>2, <2>3 DEF ScreenInv
<1>2. ASSUME NEW r \in Resource, Poll(r) \/ Arrive(r) PROVE ScreenInv'
  <2>1. UNCHANGED <<up, cookie, run, dbVars, call, writes, faults, scope, range, dialog, stuck>>
    BY <1>2 DEF Poll, Arrive, Deliver, DeliverFailure, pageVars
  <2>2. WritesTyped' /\ RowsTyped' /\ BoundsTyped'
    BY <2>1, WritesStay, RowsStayTyped DEF ScreenInv, ApiTyped, BoundsTyped
  <2>3. /\ scope \in Looks /\ range \in ChartRange /\ dialog \in Dialogs /\ walletId \in Wallet \cup {None}
        /\ stuck \in BOOLEAN /\ error \in BOOLEAN
    BY DEF ScreenInv, PageTyped
  <2>4. ReadsTyped' /\ ViewTyped' /\ walletId' \in Wallet \cup {None} /\ error' \in BOOLEAN
    <3>1. CASE Poll(r)
      <4>1. UNCHANGED <<view, walletId, error>>
        BY <3>1 DEF Poll, pageVars
      <4> QED  BY <2>1, <2>3, <3>1, <4>1, FetchTyped, ViewStays DEF Poll, ScreenInv, ApiTyped
    <3>2. ASSUME NEW k \in Slots, Deliver(r, k)
          PROVE  ReadsTyped' /\ ViewTyped' /\ walletId' \in Wallet \cup {None} /\ error' \in BOOLEAN
      <4>1. UNCHANGED error
        BY <3>2 DEF Deliver
      <4> QED  BY <2>3, <3>2, <4>1, DeliverTyped
    <3> QED  BY <1>2, <3>1, <3>2, FailureTyped DEF Arrive
  <2>5. PageTyped'
    BY <2>1, <2>3, <2>4, PageSame
  <2> QED  BY <2>2, <2>4, <2>5 DEF ScreenInv, ApiTyped
<1>3. CASE UNCHANGED consoleVars
  <2>1. UNCHANGED <<up, cookie, run, dbVars, call, read, writes, faults, scope, view, range, dialog,
                    walletId, stuck, error>>
    BY <1>3 DEF consoleVars, apiVars, pageVars
  <2>2. WritesTyped' /\ RowsTyped' /\ BoundsTyped' /\ ReadsTyped' /\ ViewTyped'
    BY <2>1, WritesStay, RowsStayTyped, ReadsStay, ViewStays DEF ScreenInv, ApiTyped, BoundsTyped
  <2>3. PageTyped'
    BY <2>1, PageSame DEF ScreenInv, PageTyped
  <2> QED  BY <2>2, <2>3 DEF ScreenInv, ApiTyped
<1> QED  BY <1>1, <1>2, <1>3, OperatorTyped, AnsweredTyped, ElsewhereTyped DEF ConsoleNext

LEMMA InitScreen == ConsoleInit => ScreenInv
<1> SUFFICES ASSUME ConsoleInit PROVE ScreenInv
  OBVIOUS
<1>1. scope \in Scope /\ scope \in Looks
  BY ConsoleAssumption DEF ConsoleInit
<1>2. PageTyped
  <2>1. scope = [scope EXCEPT !.page = page]
    BY <1>1 DEF Looks, page
  <2> QED  BY <1>1, <2>1 DEF ConsoleInit, PageTyped, Dialogs
<1>3. ViewTyped
  BY DEF ConsoleInit, ViewTyped, OnDisplay, Holds
<1>4. ReadsTyped
  <2>1. ASSUME NEW r \in Resource PROVE SlotsTyped(r, read[r])
    BY Unread DEF SlotsTyped, ConsoleInit, Slots
  <2> QED  BY <2>1 DEF ConsoleInit, ReadsTyped, InFlight
<1>5. WritesTyped
  BY DEF ConsoleInit, WritesTyped, NoCall, Write, InPlace, Places, Codes, Values
<1>6. RowsTyped
  <2>1. sess \in [Session -> [status : Status, wallet : Wallet \cup {None}]]
    BY DEF ConsoleInit, Status
  <2>2. run \in [status : RunStatus, held : BOOLEAN, trades : 0..1]
    <3>1. PICK st \in {"none", "pending"} : run \in [status : {st}, held : {FALSE}, trades : {0}]
      BY DEF ConsoleInit
    <3>2. 0 \in 0..1
      OBVIOUS
    <3> QED  BY <3>1, <3>2 DEF RunStatus
  <2>3. mode \in {"mock", "live"}
    BY ApiAssumption DEF ConsoleInit
  <2>4. wallets \subseteq Wallet /\ holds \subseteq wallets
    BY <1>1 DEF ConsoleInit, Looks, Live
  <2> QED  BY <2>1, <2>2, <2>3, <2>4 DEF ConsoleInit, RowsTyped
<1>7. BoundsTyped
  BY <1>1 DEF ConsoleInit, BoundsTyped, Looks
<1> QED  BY <1>2, <1>3, <1>4, <1>5, <1>6, <1>7 DEF ScreenInv, ApiTyped

LEMMA ScreenInvTypes == ScreenInv => ConsoleTypeOK
<1> SUFFICES ASSUME ScreenInv PROVE ConsoleTypeOK
  OBVIOUS
<1>1. scope \in Looks /\ page \in DOMAIN Pages /\ Slots \subseteq 1..Overlap
  <2>1. scope \in Looks
    BY DEF ScreenInv, PageTyped
  <2>2. page \in DOMAIN Pages
    BY <2>1 DEF Looks, Pages, page
  <2>3. scope.overlap \in 1..Overlap
    BY <2>1 DEF Looks
  <2>4. Slots \subseteq 1..Overlap
    BY <2>3, ApiAssumption DEF Slots
  <2> QED  BY <2>1, <2>2, <2>4
<1>2. ApiTypeOK
  <2>1. ASSUME NEW r \in Resource
        PROVE  /\ DOMAIN read[r] \subseteq 1..Overlap
               /\ \A k \in DOMAIN read[r] :
                    read[r][k].at \in {"none", "asked", "listed", "got", "failed"}
    <3>1. SlotsTyped(r, read[r])
      BY DEF ScreenInv, ApiTyped, ReadsTyped, InFlight
    <3>2. DOMAIN read[r] = Slots
      BY <3>1 DEF SlotsTyped
    <3> QED  BY <1>1, <3>1, <3>2 DEF SlotsTyped, ReadTyped
  <2>2. ASSUME NEW c \in Client
        PROVE  /\ call[c].op \in Ops \cup {"none"}
               /\ call[c].code \in {"pending", "ok", "refused", "down"}
               /\ call[c].at = "done" <=> call[c].code # "pending"
    BY DEF ScreenInv, ApiTyped, WritesTyped, Write, InPlace, Codes
  <2> QED  BY <2>1, <2>2 DEF ApiTypeOK, ScreenInv, ApiTyped, RowsTyped, BoundsTyped
<1>3. ASSUME NEW r \in Resource, Shown(r) PROVE Len(view[r]) = 1
  <2>1. PICK b : view[r] = <<b>>
    BY <1>3 DEF ScreenInv, ViewTyped, OnDisplay, Holds, Shown
  <2>2. Len(<<b>>) = 1
    OBVIOUS
  <2> QED  BY <2>1, <2>2
<1>4. Shown("sessions") => DOMAIN Rows \subseteq Session
  BY DEF ScreenInv, ViewTyped, OnDisplay, Holds, BodyTyped, Shown, Rows, Resource
<1> QED  BY <1>1, <1>2, <1>3, <1>4 DEF ConsoleTypeOK, ScreenInv, PageTyped

\* The pages, the requests they have out, the rows the API writes and the
\* clients' calls keep their types, and what a page shows of a resource is one
\* answer to one read of it.
THEOREM ConsoleTypes == ConsoleSpec => []ConsoleTypeOK
BY InitScreen, NextScreen, ScreenInvTypes, PTL DEF ConsoleSpec

-----------------------------------------------------------------------------
(* The screen.                                                             *)

\* What stands beside one another takes the steps of its own.
LEMMA ScreenParts == ScreenSpec => ConsoleSpec /\ CacheSpec /\ HistorySpec
<1>1. ScreenInit => ConsoleInit /\ CacheInit /\ HistoryInit
  BY DEF ScreenInit
<1>2. [ScreenNext]_screenVars =>
        [ConsoleNext]_consoleVars /\ [CacheNext]_cacheVars /\ [HistoryNext]_historyVars
  <2>1. ASSUME UNCHANGED screenVars
        PROVE  UNCHANGED consoleVars /\ UNCHANGED cacheVars /\ UNCHANGED historyVars
    BY <2>1 DEF screenVars
  <2>2. ASSUME ScreenNext
        PROVE  /\ ConsoleNext \/ UNCHANGED consoleVars
               /\ CacheNext \/ UNCHANGED cacheVars
               /\ HistoryNext \/ UNCHANGED historyVars
    BY <2>2 DEF ScreenNext, CacheNext
  <2> QED  BY <2>1, <2>2
<1> QED
  BY <1>1, <1>2, PTL DEF ScreenSpec, ConsoleSpec, CacheSpec, HistorySpec

\* The variables of the console, of the API behind it, of the caches and of the
\* decision log keep their types, whatever is looked at.
THEOREM ScreenTypes == ScreenSpec => []ScreenTypeOK
BY ScreenParts, ConsoleTypes, CacheTypes, HistoryTypes, PTL DEF ScreenTypeOK
=============================================================================
