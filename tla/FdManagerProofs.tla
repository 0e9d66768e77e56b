-------------------------- MODULE FdManagerProofs --------------------------
(***************************************************************************)
(* Proofs about FdManager, for any threads, hooked or not, any descriptors *)
(* and any size of the first table.                                        *)
(*                                                                         *)
(* FdInv is the inductive invariant.  It adds to the types and to the       *)
(* properties themselves what each thread's place says of its call (Calls), *)
(* that a descriptor in use is open and that the call that opens or closes  *)
(* it is alone with it (Exclusive), and how a context in hand relates to    *)
(* the table (InHand) and to the kernel's flag (Agrees).                    *)
(***************************************************************************)
EXTENDS FdManager, TLAPS

Call == [op : Ops, fd : Fds, arg : BOOLEAN \cup Nat]

\* The call of a thread fits its place; a context is in hand only after get().
Calls ==
    /\ call \in [Threads -> Call \cup {NoCall}]
    /\ \A t \in Threads :
          /\ pc[t] = "user" <=> call[t] = NoCall
          /\ call[t].op \in Options => call[t].arg \in Nat
          /\ call[t].op \in {"F_SETFL", "FIONBIO"} => call[t].arg \in BOOLEAN
          /\ pc[t] = "hooked" => call[t].op \in {"do_io", "connect"} /\ Registered(t)
          /\ pc[t] \in {"user", "get", "create"} => ctx[t] = Null

\* A descriptor some call is about is open, and whoever opens or closes one is the
\* only thread in a call about it.
Exclusive ==
    /\ \A t \in Threads : pc[t] # "user" => kind[Fd(t)] # "closed"
    /\ \A t, u \in Threads :
          pc[t] # "user" /\ pc[u] # "user" /\ t # u /\ call[t].op \in {"open", "close"}
              => Fd(t) # Fd(u)

\* The table has room for the descriptor of a context in hand, which is as new.
InHand ==
    /\ size >= 2
    /\ \A t \in Threads : ctx[t] # Null => Fd(t) < size /\ ctx[t].timeout = Unset

\* A socket registered by a call under way is non-blocking for the kernel.
Agrees ==
    \A t \in Threads :
        pc[t] \in {"use", "hooked"} /\ Registered(t) /\ Fd(t) \notin cleared
            => o_nonblock[Fd(t)]

FdInv ==
    /\ TypeOK /\ Calls /\ Exclusive /\ InHand /\ Agrees
    /\ InBounds /\ ContextCurrent
-----------------------------------------------------------------------------
\* resize(fd * 1.5) leaves room for the descriptor, from 2 on, and never shrinks a
\* table that was too small for it.
LEMMA GrowToFits ==
    ASSUME NEW fd \in Nat, fd >= 2
    PROVE  GrowTo(fd) \in Nat /\ fd < GrowTo(fd)
    BY DEF GrowTo

\* The operations named in the program are told apart by their names.
LEMMA OptionsApart ==
    {"open", "close", "F_SETFL", "F_GETFL", "FIONBIO", "do_io", "connect",
     "none"} \cap Options = {}
    BY FdAssumption DEF FdAssumption

\* The constructor's table and a program that has done nothing.
LEMMA FdInit == Init => FdInv
<1> SUFFICES ASSUME Init PROVE FdInv
    OBVIOUS
<1> USE FdAssumption DEF FdAssumption
<1>1. TypeOK
    BY DEF Init, TypeOK
<1>2. Calls
    BY OptionsApart DEF Init, Calls, NoCall
<1> QED
    BY <1>1, <1>2 DEF Init, FdInv, Exclusive, InHand, Agrees, InBounds, ContextCurrent

\* A thread that enters a call about an open descriptor.
LEMMA EnterCall ==
    ASSUME FdInv, NEW t \in Threads, NEW op \in Ops, NEW fd \in Fds, NEW arg, NEW to,
           op \in Options => arg \in Nat,
           op \notin Options => arg \in BOOLEAN,
           pc[t] = "user", to \in {"get", "raw"},
           pc' = [pc EXCEPT ![t] = to], UNCHANGED ctx,
           call' = [call EXCEPT ![t] = [op |-> op, fd |-> fd, arg |-> arg]]
    PROVE  Calls'
<1> DEFINE c == [op |-> op, fd |-> fd, arg |-> arg]
<1>1. c \in Call /\ c # NoCall /\ c.op = op /\ c.arg = arg
    BY OptionsApart DEF Call, NoCall, Ops
<1>2. call' \in [Threads -> Call \cup {NoCall}]
    BY <1>1 DEF FdInv, Calls
<1>3. \A u \in Threads \ {t} : call'[u] = call[u] /\ pc'[u] = pc[u]
    BY DEF FdInv, Calls, TypeOK
<1>4. call'[t] = c /\ pc'[t] = to
    BY DEF FdInv, Calls, TypeOK
<1> HIDE DEF c
<1>5. ctx[t] = Null
    BY DEF FdInv, Calls
<1> QED
    BY <1>1, <1>2, <1>3, <1>4, <1>5, OptionsApart DEF FdInv, Calls, Registered

\* A thread whose call returns.
LEMMA LeaveCall ==
    ASSUME FdInv, NEW t \in Threads, Return(t)
    PROVE  Calls'
<1>1. NoCall.op = "none" /\ NoCall.op \notin Options
    BY OptionsApart DEF NoCall
<1>2. call' \in [Threads -> Call \cup {NoCall}]
    BY DEF FdInv, Calls, Return
<1>3. \A u \in Threads \ {t} : call'[u] = call[u] /\ pc'[u] = pc[u] /\ ctx'[u] = ctx[u]
    BY DEF FdInv, Calls, TypeOK, Return
<1>4. call'[t] = NoCall /\ pc'[t] = "user" /\ ctx'[t] = Null
    BY DEF FdInv, Calls, TypeOK, Return
<1> QED
    BY <1>1, <1>2, <1>3, <1>4 DEF FdInv, Calls, Registered

\* What a thread that enters a call leaves of the types.
LEMMA EnterType ==
    ASSUME FdInv, NEW t \in Threads, NEW op \in Ops, NEW fd \in Fds, NEW arg, NEW to,
           to \in {"get", "raw"}, pc' = [pc EXCEPT ![t] = to],
           call' = [call EXCEPT ![t] = [op |-> op, fd |-> fd, arg |-> arg]]
    PROVE  /\ pc' \in [Threads -> {"user", "get", "create", "use", "hooked", "raw"}]
           /\ \A u \in Threads :
                 call'[u] = NoCall \/ (call'[u].op \in Ops /\ call'[u].fd \in Fds)
    BY DEF FdInv, TypeOK, Calls

\* What a returning call leaves of the types of the threads.
LEMMA ReturnType ==
    ASSUME FdInv, NEW t \in Threads, Return(t)
    PROVE  /\ pc' \in [Threads -> {"user", "get", "create", "use", "hooked", "raw"}]
           /\ \A u \in Threads :
                 call'[u] = NoCall \/ (call'[u].op \in Ops /\ call'[u].fd \in Fds)
           /\ ctx' \in [Threads -> FdCtx \cup {Null}]
           /\ shared' \subseteq Threads
    BY DEF FdInv, TypeOK, Calls, Return

\* The setters store a context in the table.
LEMMA SetCtxType ==
    ASSUME TypeOK, NEW t \in Threads, Fd(t) \in Fds, NEW c \in FdCtx, SetCtx(t, c)
    PROVE  m_datas' \in [Fds -> FdCtx \cup {Null}]
    BY DEF TypeOK, SetCtx

\* A setter writes only where get() has written: the table has room for it.
LEMMA SetCtxInBounds ==
    ASSUME FdInv, NEW t \in Threads, Fd(t) \in Fds, ctx[t] # Null,
           NEW c, SetCtx(t, c), UNCHANGED size
    PROVE  InBounds'
    BY DEF FdInv, TypeOK, SetCtx, InHand, InBounds

\* The descriptor of a thread in a call.
LEMMA FdOfCall ==
    ASSUME FdInv, NEW t \in Threads, pc[t] # "user"
    PROVE  Fd(t) \in Fds /\ call[t] \in Call
    BY DEF FdInv, Calls, Fd, Call, NoCall
-----------------------------------------------------------------------------
\* Every call of the program and every step of a hook preserves the invariant.
LEMMA FdStep == FdInv /\ [Next]_vars => FdInv'
<1> SUFFICES ASSUME FdInv, [Next]_vars PROVE FdInv'
    OBVIOUS
<1> USE FdAssumption DEF FdAssumption
<1>1. ASSUME NEW t \in Threads, NEW fd \in Fds, OpenFile(t, fd)
      PROVE  FdInv'
  <2>1. TypeOK'
    BY <1>1 DEF OpenFile, Opened, FdInv, TypeOK, Call, NoCall, Ops, Fd
  <2>2. Calls'
    BY <1>1 DEF OpenFile, Opened, FdInv, TypeOK, Calls, Call, NoCall, Registered
  <2>3. Exclusive'
    BY <1>1 DEF OpenFile, Opened, FdInv, TypeOK, Exclusive, Calls, NoCall, Busy, Fd
  <2>4. InHand'
    BY <1>1 DEF OpenFile, Opened, FdInv, TypeOK, InHand, Calls, Fd
  <2>5. Agrees'
    BY <1>1 DEF OpenFile, Opened, FdInv, TypeOK, Agrees, Calls, Exclusive,
           ContextCurrent, Fd, Registered
  <2>6. InBounds'
    BY <1>1 DEF OpenFile, Opened, FdInv, TypeOK, InBounds, Calls, InHand, Fd
  <2>7. ContextCurrent'
    BY <1>1 DEF OpenFile, Opened, FdInv, TypeOK, ContextCurrent, Calls, Exclusive, Fd
  <2> QED
    BY <2>1, <2>2, <2>3, <2>4, <2>5, <2>6, <2>7 DEF FdInv
<1>2. ASSUME NEW t \in Threads, NEW fd \in Fds, Socket(t, fd)
      PROVE  FdInv'
  <2>1. TypeOK'
    <3>1. CASE t \in Hooked
      <4>1. /\ pc' \in [Threads -> {"user", "get", "create", "use", "hooked", "raw"}]
            /\ \A u \in Threads :
                  call'[u] = NoCall \/ (call'[u].op \in Ops /\ call'[u].fd \in Fds)
        BY <1>2, <3>1, EnterType DEF Socket, Ops
      <4> QED
        BY <1>2, <4>1 DEF Socket, Opened, FdInv, TypeOK
    <3>2. CASE t \notin Hooked
      BY <1>2, <3>2 DEF Socket, Opened, FdInv, TypeOK
    <3> QED
      BY <3>1, <3>2
  <2>2. Calls'
    <3>1. CASE t \in Hooked
      BY <1>2, <3>1, EnterCall, OptionsApart DEF Socket, Ops
    <3>2. CASE t \notin Hooked
      BY <1>2, <3>2 DEF Socket, FdInv, Calls, Registered
    <3> QED
      BY <3>1, <3>2
  <2>3. Exclusive'
    BY <1>2 DEF Socket, Opened, FdInv, TypeOK, Exclusive, Calls, NoCall, Busy, Fd
  <2>4. InHand'
    BY <1>2 DEF Socket, Opened, FdInv, TypeOK, InHand, Calls, Fd
  <2>5. Agrees'
    BY <1>2 DEF Socket, Opened, FdInv, TypeOK, Agrees, Calls, Exclusive,
           ContextCurrent, Fd, Registered
  <2>6. InBounds'
    BY <1>2 DEF Socket, Opened, FdInv, TypeOK, InBounds, Calls, InHand, Fd
  <2>7. ContextCurrent'
    BY <1>2 DEF Socket, Opened, FdInv, TypeOK, ContextCurrent, Calls, Exclusive, Fd
  <2> QED
    BY <2>1, <2>2, <2>3, <2>4, <2>5, <2>6, <2>7 DEF FdInv
<1>3. ASSUME NEW t \in Threads, NEW fd \in Fds, Accept(t, fd)
      PROVE  FdInv'
  <2>1. TypeOK'
    BY <1>3, EnterType, OptionsApart DEF Accept, Ops, Opened, FdInv, TypeOK
  <2>2. Calls'
    BY <1>3, EnterCall, OptionsApart DEF Accept, Ops
  <2>3. Exclusive'
    BY <1>3 DEF Accept, Opened, FdInv, TypeOK, Exclusive, Calls, NoCall, Busy, Fd
  <2>4. InHand'
    BY <1>3 DEF Accept, Opened, FdInv, TypeOK, InHand, Calls, Fd
  <2>5. Agrees'
    BY <1>3 DEF Accept, Opened, FdInv, TypeOK, Agrees, Calls, Exclusive,
           ContextCurrent, Fd, Registered
  <2>6. InBounds'
    BY <1>3 DEF Accept, Opened, FdInv, TypeOK, InBounds, Calls, InHand, Fd
  <2>7. ContextCurrent'
    BY <1>3 DEF Accept, Opened, FdInv, TypeOK, ContextCurrent, Calls, Exclusive, Fd
  <2> QED
    BY <2>1, <2>2, <2>3, <2>4, <2>5, <2>6, <2>7 DEF FdInv
<1>4. ASSUME NEW t \in Threads, NEW fd \in Fds, NEW op \in Ops \ {"open"}, NEW arg, Begin(t,
             op, fd, arg),
             op \in Options => arg \in Nat, op \notin Options => arg \in BOOLEAN
      PROVE  FdInv'
  <2>1. TypeOK'
    BY <1>4, EnterType DEF Begin, FdInv, TypeOK
  <2>2. Calls'
    BY <1>4, EnterCall DEF Begin
  <2>3. Exclusive'
    <3> DEFINE c == [op |-> op, fd |-> fd, arg |-> arg]
    <3>1. c.op = op /\ c.fd = fd
      OBVIOUS
    <3>2. \A u \in Threads \ {t} : call'[u] = call[u] /\ pc'[u] = pc[u]
      BY <1>4 DEF Begin, FdInv, TypeOK, Calls
    <3>3. call'[t] = c /\ pc[t] = "user"
      BY <1>4 DEF Begin, FdInv, Calls
    <3> HIDE DEF c
    <3>4. \A u \in Threads \ {t} :
             /\ Fd(u) = fd => call[u].op \notin {"open", "close"}
             /\ op = "close" => Fd(u) # fd
      BY <1>4 DEF Begin, Busy, Fd
    <3>5. op # "open"
      BY <1>4
    <3> QED
      BY <1>4, <3>1, <3>2, <3>3, <3>4, <3>5 DEF Begin, FdInv, Exclusive, Fd
  <2>4. InHand'
    BY <1>4 DEF Begin, FdInv, InHand, TypeOK, Calls, Fd
  <2>5. Agrees'
    BY <1>4 DEF Begin, FdInv, Agrees, TypeOK, Calls, Exclusive, ContextCurrent, Fd,
           Registered
  <2>6. InBounds'
    BY <1>4 DEF Begin, FdInv, InBounds, TypeOK, Calls, InHand, Fd
  <2>7. ContextCurrent'
    BY <1>4 DEF Begin, FdInv, ContextCurrent, TypeOK, Calls, Exclusive, Fd
  <2> QED
    BY <2>1, <2>2, <2>3, <2>4, <2>5, <2>6, <2>7 DEF FdInv
<1>5. ASSUME NEW t \in Threads, GetRead(t)
      PROVE  FdInv'
  <2>1. TypeOK'
    BY <1>5 DEF GetRead, FdInv, TypeOK, Call, NoCall, Ops, Fd
  <2>2. Calls'
    BY <1>5 DEF GetRead, FdInv, TypeOK, Calls, Call, NoCall, Registered
  <2>3. Exclusive'
    BY <1>5 DEF GetRead, FdInv, TypeOK, Exclusive, Calls, NoCall, Busy, Fd
  <2>4. InHand'
    BY <1>5 DEF GetRead, FdInv, TypeOK, InHand, Calls, Fd
  <2>5. Agrees'
    BY <1>5 DEF GetRead, FdInv, TypeOK, Agrees, Calls, Exclusive, ContextCurrent, Fd,
           Registered
  <2>6. InBounds'
    BY <1>5 DEF GetRead, FdInv, TypeOK, InBounds, Calls, InHand, Fd
  <2>7. ContextCurrent'
    BY <1>5 DEF GetRead, FdInv, TypeOK, ContextCurrent, Calls, Exclusive, Fd
  <2> QED
    BY <2>1, <2>2, <2>3, <2>4, <2>5, <2>6, <2>7 DEF FdInv
<1>6. ASSUME NEW t \in Threads, GetCreate(t)
      PROVE  FdInv'
  <2>a. Fd(t) \in Fds /\ Fd(t) \in Nat /\ size \in Nat
    BY <1>6, FdOfCall DEF GetCreate, FdInv, TypeOK
  <2>b. size' \in Nat /\ size <= size' /\ Fd(t) < size' /\ size' >= 2
    <3>1. Fd(t) >= size => GrowTo(Fd(t)) \in Nat /\ Fd(t) < GrowTo(Fd(t))
      BY <2>a, GrowToFits DEF FdInv, InHand
    <3> QED
      BY <1>6, <2>a, <3>1 DEF GetCreate, FdInv, InHand
  <2>1. TypeOK'
    <3>1. NewCtx(Fd(t)) \in FdCtx
      BY <2>a DEF NewCtx, FdCtx, Unset, Timeout, NoTimeout, FdInv, TypeOK
    <3>2. o_nonblock' \in [Fds -> BOOLEAN]
      BY <1>6, <2>a DEF GetCreate, FdInv, TypeOK
    <3> QED
      BY <1>6, <2>a, <2>b, <3>1, <3>2 DEF GetCreate, FdInv, TypeOK
  <2>2. Calls'
    BY <1>6 DEF GetCreate, NewCtx, FdInv, TypeOK, Calls, Call, NoCall, Registered
  <2>3. Exclusive'
    BY <1>6 DEF GetCreate, NewCtx, FdInv, TypeOK, Exclusive, Calls, NoCall, Busy, Fd
  <2>4. InHand'
    BY <1>6, <2>a, <2>b DEF GetCreate, FdInv, TypeOK, Calls, InHand, Fd, NewCtx
  <2>5. Agrees'
    <3>1. \A u \in Threads \ {t} : ctx'[u] = ctx[u] /\ pc'[u] = pc[u]
      BY <1>6 DEF GetCreate, FdInv, TypeOK
    <3>2. ctx'[t] = NewCtx(Fd(t)) /\ NewCtx(Fd(t)).m_isSocket = (kind[Fd(t)] = "socket")
      BY <1>6 DEF GetCreate, FdInv, TypeOK, NewCtx
    <3>3. /\ kind[Fd(t)] = "socket" => o_nonblock'[Fd(t)]
          /\ \A d \in Fds \ {Fd(t)} :
                o_nonblock'[d] = o_nonblock[d] /\ (d \in cleared' <=> d \in cleared)
      BY <1>6, <2>a DEF GetCreate, FdInv, TypeOK
    <3>4. \A u \in Threads : pc[u] # "user" => Fd(u) \in Fds /\ Fd(u)' = Fd(u)
      BY <1>6, FdOfCall DEF GetCreate, Fd
    <3>5. pc[t] = "create" /\ kind' = kind
      BY <1>6 DEF GetCreate
    <3>6. Registered(t)' => kind[Fd(t)] = "socket"
      BY <3>2 DEF Registered
    <3>7. ASSUME NEW u \in Threads \ {t}, pc[u] \in {"use", "hooked"}, Registered(u),
                 Fd(u) \notin cleared'
          PROVE  o_nonblock'[Fd(u)]
      <4>1. Fd(u) = Fd(t) => kind[Fd(t)] = "socket"
        BY <3>7 DEF FdInv, ContextCurrent, Registered
      <4> QED
        BY <3>3, <3>4, <3>7, <4>1 DEF FdInv, Agrees
    <3> QED
      BY <3>1, <3>3, <3>4, <3>5, <3>6, <3>7 DEF Agrees, Registered
  <2>6. InBounds'
    BY <1>6, <2>a, <2>b DEF GetCreate, FdInv, TypeOK, InBounds, Fd
  <2>7. ContextCurrent'
    <3>1. \A u \in Threads \ {t} : ctx'[u] = ctx[u] /\ pc'[u] = pc[u]
      BY <1>6 DEF GetCreate, FdInv, TypeOK
    <3>2. ctx'[t] = NewCtx(Fd(t)) /\ NewCtx(Fd(t)).m_isSocket = (kind[Fd(t)] = "socket")
      BY <1>6 DEF GetCreate, FdInv, TypeOK, NewCtx
    <3> QED
      BY <1>6, <2>a, <3>1, <3>2 DEF GetCreate, FdInv, ContextCurrent, Fd
  <2> QED
    BY <2>1, <2>2, <2>3, <2>4, <2>5, <2>6, <2>7 DEF FdInv
<1>7. ASSUME NEW t \in Threads, OpenReturns(t)
      PROVE  FdInv'
  <2>1. TypeOK'
    BY <1>7, ReturnType, FdOfCall DEF OpenReturns, At, FdInv, TypeOK
  <2>2. Calls'
    BY <1>7, LeaveCall DEF OpenReturns
  <2>3. Exclusive'
    BY <1>7 DEF OpenReturns, Return, At, FdInv, TypeOK, Exclusive, Calls, NoCall,
           Busy, Fd
  <2>4. InHand'
    BY <1>7 DEF OpenReturns, Return, At, FdInv, TypeOK, InHand, Calls, Fd
  <2>5. Agrees'
    BY <1>7 DEF OpenReturns, Return, At, FdInv, TypeOK, Agrees, Calls, Exclusive,
           ContextCurrent, Fd, Registered
  <2>6. InBounds'
    BY <1>7 DEF OpenReturns, Return, At, FdInv, TypeOK, InBounds, Calls, InHand, Fd
  <2>7. ContextCurrent'
    BY <1>7 DEF OpenReturns, Return, At, FdInv, TypeOK, ContextCurrent, Calls,
           Exclusive, Fd
  <2> QED
    BY <2>1, <2>2, <2>3, <2>4, <2>5, <2>6, <2>7 DEF FdInv
<1>8. ASSUME NEW t \in Threads, SetFl(t)
      PROVE  FdInv'
  <2>a. Fd(t) \in Fds /\ call[t] \in Call
    BY <1>8, FdOfCall DEF SetFl, At
  <2>b. call[t].arg \in BOOLEAN
    BY <1>8 DEF SetFl, At, FdInv, Calls
  <2>1. TypeOK'
    <3>1. m_datas' \in [Fds -> FdCtx \cup {Null}]
      <4>1. ASSUME Registered(t) PROVE [ctx[t] EXCEPT !.m_userNoBlock = call[t].arg] \in FdCtx
        BY <1>8, <4>1, <2>a, <2>b DEF FdInv, TypeOK, FdCtx, Registered
      <4> QED
        BY <1>8, <4>1, <2>a, SetCtxType DEF SetFl, FdInv, TypeOK
    <3>2. /\ pc' \in [Threads -> {"user", "get", "create", "use", "hooked", "raw"}]
          /\ \A u \in Threads :
                call'[u] = NoCall \/ (call'[u].op \in Ops /\ call'[u].fd \in Fds)
          /\ ctx' \in [Threads -> FdCtx \cup {Null}]
          /\ shared' \subseteq Threads
      BY <1>8, ReturnType DEF SetFl
    <3> QED
      BY <1>8, <2>a, <2>b, <3>1, <3>2 DEF SetFl, FdInv, TypeOK, Clears, Registered
  <2>2. Calls'
    BY <1>8, LeaveCall DEF SetFl
  <2>3. Exclusive'
    BY <1>8 DEF SetFl, Return, At, SetCtx, Clears, FdInv, TypeOK, Exclusive, Calls,
           NoCall, Busy, Fd
  <2>4. InHand'
    BY <1>8 DEF SetFl, Return, At, SetCtx, Clears, FdInv, TypeOK, InHand, Calls, Fd
  <2>5. Agrees'
    BY <1>8 DEF SetFl, Return, At, SetCtx, Clears, FdInv, TypeOK, Agrees, Calls,
           Exclusive, ContextCurrent, Fd, Registered
  <2>6. InBounds'
    BY <1>8, <2>a, SetCtxInBounds DEF SetFl, Registered, FdInv, InBounds
  <2>7. ContextCurrent'
    BY <1>8 DEF SetFl, Return, At, SetCtx, Clears, FdInv, TypeOK, ContextCurrent,
           Calls, Exclusive, Fd
  <2> QED
    BY <2>1, <2>2, <2>3, <2>4, <2>5, <2>6, <2>7 DEF FdInv
<1>9. ASSUME NEW t \in Threads, GetFl(t)
      PROVE  FdInv'
  <2>1. TypeOK'
    BY <1>9, ReturnType, FdOfCall DEF GetFl, At, FdInv, TypeOK
  <2>2. Calls'
    BY <1>9, LeaveCall DEF GetFl
  <2>3. Exclusive'
    BY <1>9 DEF GetFl, Return, At, FdInv, TypeOK, Exclusive, Calls, NoCall, Busy, Fd
  <2>4. InHand'
    BY <1>9 DEF GetFl, Return, At, FdInv, TypeOK, InHand, Calls, Fd
  <2>5. Agrees'
    BY <1>9 DEF GetFl, Return, At, FdInv, TypeOK, Agrees, Calls, Exclusive,
           ContextCurrent, Fd, Registered
  <2>6. InBounds'
    BY <1>9 DEF GetFl, Return, At, FdInv, TypeOK, InBounds, Calls, InHand, Fd
  <2>7. ContextCurrent'
    BY <1>9 DEF GetFl, Return, At, FdInv, TypeOK, ContextCurrent, Calls, Exclusive, Fd
  <2> QED
    BY <2>1, <2>2, <2>3, <2>4, <2>5, <2>6, <2>7 DEF FdInv
<1>10. ASSUME NEW t \in Threads, Ioctl(t)
      PROVE  FdInv'
  <2>a. Fd(t) \in Fds /\ call[t] \in Call
    BY <1>10, FdOfCall DEF Ioctl, At
  <2>b. call[t].arg \in BOOLEAN
    BY <1>10 DEF Ioctl, At, FdInv, Calls
  <2>1. TypeOK'
    <3>1. m_datas' \in [Fds -> FdCtx \cup {Null}]
      <4>1. ASSUME Registered(t) PROVE [ctx[t] EXCEPT !.m_userNoBlock = call[t].arg] \in FdCtx
        BY <1>10, <4>1, <2>a, <2>b DEF FdInv, TypeOK, FdCtx, Registered
      <4> QED
        BY <1>10, <4>1, <2>a, SetCtxType DEF Ioctl, FdInv, TypeOK
    <3>2. /\ pc' \in [Threads -> {"user", "get", "create", "use", "hooked", "raw"}]
          /\ \A u \in Threads :
                call'[u] = NoCall \/ (call'[u].op \in Ops /\ call'[u].fd \in Fds)
          /\ ctx' \in [Threads -> FdCtx \cup {Null}]
          /\ shared' \subseteq Threads
      BY <1>10, ReturnType DEF Ioctl
    <3> QED
      BY <1>10, <2>a, <2>b, <3>1, <3>2 DEF Ioctl, FdInv, TypeOK, Clears, Registered
  <2>2. Calls'
    BY <1>10, LeaveCall DEF Ioctl
  <2>3. Exclusive'
    BY <1>10 DEF Ioctl, Return, At, SetCtx, Clears, FdInv, TypeOK, Exclusive, Calls,
           NoCall, Busy, Fd
  <2>4. InHand'
    BY <1>10 DEF Ioctl, Return, At, SetCtx, Clears, FdInv, TypeOK, InHand, Calls, Fd
  <2>5. Agrees'
    BY <1>10 DEF Ioctl, Return, At, SetCtx, Clears, FdInv, TypeOK, Agrees, Calls,
           Exclusive, ContextCurrent, Fd, Registered
  <2>6. InBounds'
    BY <1>10, <2>a, SetCtxInBounds DEF Ioctl, Registered, FdInv, InBounds
  <2>7. ContextCurrent'
    BY <1>10 DEF Ioctl, Return, At, SetCtx, Clears, FdInv, TypeOK, ContextCurrent,
           Calls, Exclusive, Fd
  <2> QED
    BY <2>1, <2>2, <2>3, <2>4, <2>5, <2>6, <2>7 DEF FdInv
<1>11. ASSUME NEW t \in Threads, SetSockOpt(t)
      PROVE  FdInv'
  <2>a. Fd(t) \in Fds /\ call[t] \in Call
    BY <1>11, FdOfCall DEF SetSockOpt, At
  <2>b. call[t].arg \in Nat
    BY <1>11 DEF SetSockOpt, At, FdInv, Calls
  <2>1. TypeOK'
    <3>1. m_datas' \in [Fds -> FdCtx \cup {Null}]
      <4>1. ASSUME ctx[t] # Null
            PROVE [ctx[t] EXCEPT !.timeout[call[t].op] = ToMs(call[t].arg)] \in FdCtx
        BY <1>11, <4>1, <2>a, <2>b DEF FdInv, TypeOK, FdCtx, Timeout, ToMs, SetSockOpt
      <4> QED
        BY <1>11, <4>1, <2>a, SetCtxType DEF SetSockOpt, FdInv, TypeOK
    <3>2. /\ pc' \in [Threads -> {"user", "get", "create", "use", "hooked", "raw"}]
          /\ \A u \in Threads :
                call'[u] = NoCall \/ (call'[u].op \in Ops /\ call'[u].fd \in Fds)
          /\ ctx' \in [Threads -> FdCtx \cup {Null}]
          /\ shared' \subseteq Threads
      BY <1>11, ReturnType DEF SetSockOpt
    <3> QED
      BY <1>11, <2>a, <2>b, <3>1, <3>2 DEF SetSockOpt, FdInv, TypeOK, Clears, Registered
  <2>2. Calls'
    BY <1>11, LeaveCall DEF SetSockOpt
  <2>3. Exclusive'
    BY <1>11 DEF SetSockOpt, Return, SetCtx, FdInv, TypeOK, Exclusive, Calls, NoCall,
           Busy, Fd
  <2>4. InHand'
    BY <1>11 DEF SetSockOpt, Return, SetCtx, FdInv, TypeOK, InHand, Calls, Fd
  <2>5. Agrees'
    BY <1>11 DEF SetSockOpt, Return, SetCtx, FdInv, TypeOK, Agrees, Calls, Exclusive,
           ContextCurrent, Fd, Registered
  <2>6. InBounds'
    BY <1>11, <2>a, SetCtxInBounds DEF SetSockOpt, Registered, FdInv, InBounds
  <2>7. ContextCurrent'
    BY <1>11 DEF SetSockOpt, Return, SetCtx, FdInv, TypeOK, ContextCurrent, Calls,
           Exclusive, Fd
  <2> QED
    BY <2>1, <2>2, <2>3, <2>4, <2>5, <2>6, <2>7 DEF FdInv
<1>12. ASSUME NEW t \in Threads, DoIo(t)
      PROVE  FdInv'
  <2>1. TypeOK'
    BY <1>12 DEF DoIo, At, FdInv, TypeOK, Call, NoCall, Ops, Fd
  <2>2. Calls'
    BY <1>12 DEF DoIo, At, FdInv, TypeOK, Calls, Call, NoCall, Registered
  <2>3. Exclusive'
    BY <1>12 DEF DoIo, At, FdInv, TypeOK, Exclusive, Calls, NoCall, Busy, Fd
  <2>4. InHand'
    BY <1>12 DEF DoIo, At, FdInv, TypeOK, InHand, Calls, Fd
  <2>5. Agrees'
    BY <1>12 DEF DoIo, At, FdInv, TypeOK, Agrees, Calls, Exclusive, ContextCurrent,
           Fd, Registered
  <2>6. InBounds'
    BY <1>12 DEF DoIo, At, FdInv, TypeOK, InBounds, Calls, InHand, Fd
  <2>7. ContextCurrent'
    BY <1>12 DEF DoIo, At, FdInv, TypeOK, ContextCurrent, Calls, Exclusive, Fd
  <2> QED
    BY <2>1, <2>2, <2>3, <2>4, <2>5, <2>6, <2>7 DEF FdInv
<1>13. ASSUME NEW t \in Threads, IoReturns(t)
      PROVE  FdInv'
  <2>1. TypeOK'
    BY <1>13, ReturnType, FdOfCall DEF IoReturns, At, FdInv, TypeOK
  <2>2. Calls'
    BY <1>13, LeaveCall DEF IoReturns
  <2>3. Exclusive'
    BY <1>13 DEF IoReturns, Return, At, FdInv, TypeOK, Exclusive, Calls, NoCall, Busy,
           Fd
  <2>4. InHand'
    BY <1>13 DEF IoReturns, Return, At, FdInv, TypeOK, InHand, Calls, Fd
  <2>5. Agrees'
    BY <1>13 DEF IoReturns, Return, At, FdInv, TypeOK, Agrees, Calls, Exclusive,
           ContextCurrent, Fd, Registered
  <2>6. InBounds'
    BY <1>13 DEF IoReturns, Return, At, FdInv, TypeOK, InBounds, Calls, InHand, Fd
  <2>7. ContextCurrent'
    BY <1>13 DEF IoReturns, Return, At, FdInv, TypeOK, ContextCurrent, Calls,
           Exclusive, Fd
  <2> QED
    BY <2>1, <2>2, <2>3, <2>4, <2>5, <2>6, <2>7 DEF FdInv
<1>14. ASSUME NEW t \in Threads, CloseDel(t)
      PROVE  FdInv'
  <2>1. TypeOK'
    BY <1>14 DEF CloseDel, At, Del, FdInv, TypeOK, Call, NoCall, Ops, Fd
  <2>2. Calls'
    BY <1>14 DEF CloseDel, At, Del, FdInv, TypeOK, Calls, Call, NoCall, Registered
  <2>3. Exclusive'
    BY <1>14 DEF CloseDel, At, Del, FdInv, TypeOK, Exclusive, Calls, NoCall, Busy, Fd
  <2>4. InHand'
    BY <1>14 DEF CloseDel, At, Del, FdInv, TypeOK, InHand, Calls, Fd
  <2>5. Agrees'
    BY <1>14 DEF CloseDel, At, Del, FdInv, TypeOK, Agrees, Calls, Exclusive,
           ContextCurrent, Fd, Registered
  <2>6. InBounds'
    BY <1>14 DEF CloseDel, At, Del, FdInv, TypeOK, InBounds, Calls, InHand, Fd
  <2>7. ContextCurrent'
    BY <1>14 DEF CloseDel, At, Del, FdInv, TypeOK, ContextCurrent, Calls, Exclusive,
           Fd
  <2> QED
    BY <2>1, <2>2, <2>3, <2>4, <2>5, <2>6, <2>7 DEF FdInv
<1>15. ASSUME NEW t \in Threads, CloseFd(t)
      PROVE  FdInv'
  <2>1. TypeOK'
    BY <1>15, ReturnType, FdOfCall DEF CloseFd, At, FdInv, TypeOK
  <2>2. Calls'
    BY <1>15, LeaveCall DEF CloseFd
  <2>3. Exclusive'
    BY <1>15 DEF CloseFd, Return, At, FdInv, TypeOK, Exclusive, Calls, NoCall, Busy,
           Fd
  <2>4. InHand'
    BY <1>15 DEF CloseFd, Return, At, FdInv, TypeOK, InHand, Calls, Fd
  <2>5. Agrees'
    BY <1>15 DEF CloseFd, Return, At, FdInv, TypeOK, Agrees, Calls, Exclusive,
           ContextCurrent, Fd, Registered
  <2>6. InBounds'
    BY <1>15 DEF CloseFd, Return, At, FdInv, TypeOK, InBounds, Calls, InHand, Fd
  <2>7. ContextCurrent'
    BY <1>15 DEF CloseFd, Return, At, FdInv, TypeOK, ContextCurrent, Calls, Exclusive,
           Fd
  <2> QED
    BY <2>1, <2>2, <2>3, <2>4, <2>5, <2>6, <2>7 DEF FdInv
<1>16. ASSUME NEW t \in Threads, Connect(t)
      PROVE  FdInv'
  <2>1. CASE ctx[t] = Null
    <3>1. TypeOK'
      BY <1>16, <2>1, ReturnType, FdOfCall DEF Connect, At, FdInv, TypeOK
    <3>2. Calls'
      BY <1>16, <2>1, LeaveCall DEF Connect
    <3>3. Exclusive'
      BY <1>16, <2>1 DEF Connect, Return, At, FdInv, TypeOK, Exclusive, Calls, NoCall, Busy,
             Fd
    <3>4. InHand'
      BY <1>16, <2>1 DEF Connect, Return, At, FdInv, TypeOK, InHand, Calls, Fd
    <3>5. Agrees'
      BY <1>16, <2>1 DEF Connect, Return, At, FdInv, TypeOK, Agrees, Calls, Exclusive,
             ContextCurrent, Fd, Registered
    <3>6. InBounds'
      BY <1>16, <2>1 DEF Connect, Return, At, FdInv, TypeOK, InBounds, Calls, InHand, Fd
    <3>7. ContextCurrent'
      BY <1>16, <2>1 DEF Connect, Return, At, FdInv, TypeOK, ContextCurrent, Calls,
             Exclusive, Fd
    <3> QED
      BY <3>1, <3>2, <3>3, <3>4, <3>5, <3>6, <3>7 DEF FdInv
  <2>2. CASE ctx[t] # Null
    <3>1. TypeOK'
      BY <1>16, <2>2 DEF Connect, At, FdInv, TypeOK, Call, NoCall, Ops, Fd
    <3>2. Calls'
      <4>1. pc' = [pc EXCEPT ![t] = IF Registered(t) /\ ~ctx[t].m_userNoBlock
                                   THEN "hooked" ELSE "raw"]
        BY <1>16, <2>2 DEF Connect
      <4>2. UNCHANGED <<call, ctx>> /\ call[t].op = "connect" /\ pc[t] = "use"
        BY <1>16, <2>2, OptionsApart DEF Connect, Return, At
      <4> QED
        BY <4>1, <4>2 DEF FdInv, TypeOK, Calls, Call, NoCall, Registered
    <3>3. Exclusive'
      BY <1>16, <2>2 DEF Connect, At, FdInv, TypeOK, Exclusive, Calls, NoCall, Busy, Fd
    <3>4. InHand'
      BY <1>16, <2>2 DEF Connect, At, FdInv, TypeOK, InHand, Calls, Fd
    <3>5. Agrees'
      BY <1>16, <2>2 DEF Connect, At, FdInv, TypeOK, Agrees, Calls, Exclusive, ContextCurrent,
             Fd, Registered
    <3>6. InBounds'
      BY <1>16, <2>2 DEF Connect, At, FdInv, TypeOK, InBounds, Calls, InHand, Fd
    <3>7. ContextCurrent'
      BY <1>16, <2>2 DEF Connect, At, FdInv, TypeOK, ContextCurrent, Calls, Exclusive, Fd
    <3> QED
      BY <3>1, <3>2, <3>3, <3>4, <3>5, <3>6, <3>7 DEF FdInv
  <2> QED
    BY <2>1, <2>2
<1>17. ASSUME UNCHANGED vars PROVE FdInv'
    BY <1>17 DEF vars, FdInv, TypeOK, Calls, Exclusive, InHand, Agrees, InBounds,
                ContextCurrent, Fd, Registered
<1>18. ASSUME NEW t \in Threads, NEW fd \in Fds, UserCall(t, fd) PROVE FdInv'
  <2>1. ASSUME NEW op \in {"close", "F_GETFL", "do_io", "connect"},
               Begin(t, op, fd, FALSE)
        PROVE  FdInv'
    BY <2>1, <1>4, OptionsApart DEF Ops
  <2>2. ASSUME NEW op \in {"F_SETFL", "FIONBIO"}, NEW arg \in BOOLEAN,
               Begin(t, op, fd, arg)
        PROVE  FdInv'
    BY <2>2, <1>4, OptionsApart DEF Ops
  <2>3. ASSUME NEW op \in Options, NEW us \in Timeouts, Begin(t, op, fd, us)
        PROVE  FdInv'
    BY <2>3, <1>4 DEF Ops
  <2> QED
    BY <1>1, <1>2, <1>3, <1>18, <2>1, <2>2, <2>3 DEF UserCall
<1> QED
    BY <1>5, <1>6, <1>7, <1>8, <1>9, <1>10, <1>11, <1>12, <1>13, <1>14, <1>15, <1>17, <1>18,
       <1>16 DEF Next, InCall, Lost
-----------------------------------------------------------------------------
\* The inductive invariant holds of every behaviour.
THEOREM FdInvCorrect == Spec => []FdInv
<1> QED
    BY FdInit, FdStep, PTL DEF Spec

\* The table, the contexts and the calls keep their types.
THEOREM FdTypeCorrect == Spec => []TypeOK
<1>1. FdInv => TypeOK
    BY DEF FdInv
<1> QED
    BY <1>1, FdInvCorrect, PTL

\* Whatever descriptors are opened in whatever order on however many threads, every
\* entry get() has written lies within the table: resize(fd * 1.5) is enough, since
\* the constructor's table has at least two entries.
THEOREM InBoundsCorrect == Spec => []InBounds
<1>1. FdInv => InBounds
    BY DEF FdInv
<1> QED
    BY <1>1, FdInvCorrect, PTL

\* A socket that do_io() or connect() calls as non-blocking is so for the kernel.
THEOREM HookedCallCorrect == Spec => []HookedCallNonBlocking
<1>1. FdInv => HookedCallNonBlocking
    BY DEF FdInv, Calls, Agrees, HookedCallNonBlocking
<1> QED
    BY <1>1, FdInvCorrect, PTL

\* A context in hand is of the descriptor that is open now.
THEOREM ContextCurrentCorrect == Spec => []ContextCurrent
<1>1. FdInv => ContextCurrent
    BY DEF FdInv
<1> QED
    BY <1>1, FdInvCorrect, PTL

\* do_io() never finds a timeout.
THEOREM WaitUntimedCorrect == Spec => []WaitUntimed
<1>1. FdInv => WaitUntimed
    BY DEF FdInv, InHand, WaitUntimed, Registered
<1> QED
    BY <1>1, FdInvCorrect, PTL
=============================================================================
