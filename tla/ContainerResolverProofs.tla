---------------------- MODULE ContainerResolverProofs -----------------------
(***************************************************************************)
(* What holds of the container for any number of contexts, services, types *)
(* and callers of Close.                                                   *)
(*                                                                         *)
(*  - Contexts that create services for one another never wait in a circle *)
(*    (WaitInv): hasResolverPathLocked refuses the wait that would close   *)
(*    one.  Cycles are spoken of without paths or counting: a graph is     *)
(*    acyclic when every set of contexts has a member without an edge into *)
(*    the set, and `start` reaches `target` when every set that holds the  *)
(*    one and is closed under the edges holds the other.                   *)
(*  - The instances of a scope stay in it (Kept), and the container is a   *)
(*    ServiceRegistry (Promised).                                          *)
(*  - The order Close computes lists each instance once and dependents     *)
(*    first, by induction on the number of keys that are left.             *)
(*  - Close and the creations it races close an instance once and leave    *)
(*    none open (ClosingInv), dependents before dependencies               *)
(*    (DependencyInv).                                                     *)
(***************************************************************************)
EXTENDS ContainerResolver, ContainerShutdown, FiniteSetTheorems, WellFoundedInduction, TLAPS

USE NamesAreNotTypes DEF Key

(* The guard of a key is a key: the asked one, or the one service          *)
(* registered under an asked type.                                         *)
LEMMA GuardType == ASSUME NEW k \in Key PROVE Guard(k) \in Key
<1>1. CASE k \in Type /\ Len(TypeServices[k]) = 1
  <2>1. TypeServices[k] \in Seq(Name)
    BY <1>1, TypeServicesAssumption
  <2>2. TypeServices[k][1] \in Name
    BY <1>1, <2>1
  <2> QED BY <1>1, <2>2 DEF Guard
<1>2. CASE ~(k \in Type /\ Len(TypeServices[k]) = 1)
  BY <1>2 DEF Guard
<1> QED BY <1>1, <1>2

(* What a guard or its type holds is a value.                              *)
LEMMA CachedType ==
  ASSUME ResolverTypeOK, NEW k \in Key PROVE Cached(Guard(k)) \in Value \cup {NoValue}
BY GuardType DEF ResolverTypeOK, Cached

(* Adding the edge the code allows leaves the wait graph acyclic: were S a *)
(* set in which every member has an edge into S, then the part of S inside *)
(* the closed set that separates the owner from the waiter would have been *)
(* such a set before.                                                      *)
LEMMA NewEdgeKeepsAcyclic ==
  ASSUME NEW c \in Ctx, NEW owner \in Ctx, waitGraph \subseteq Ctx \X Ctx,
         WaitGraphAcyclic, ~HasResolverPath(owner, c),
         waitGraph' = waitGraph \cup {<<c, owner>>}
  PROVE  WaitGraphAcyclic'
<1> SUFFICES ASSUME NEW S \in SUBSET Ctx, S # {},
                    \A e \in S : \E d \in S : <<e, d>> \in waitGraph'
             PROVE  FALSE
  BY DEF WaitGraphAcyclic
<1>1. PICK R \in SUBSET Ctx : /\ owner \in R /\ c \notin R
                              /\ \A e \in waitGraph : e[1] \in R => e[2] \in R
  BY DEF HasResolverPath
<1>2. \A e \in S \cap R : \E d \in S \cap R : <<e, d>> \in waitGraph
  <2> TAKE e \in S \cap R
  <2>1. PICK d \in S : <<e, d>> \in waitGraph'
    OBVIOUS
  <2>2. e # c
    BY <1>1
  <2>3. <<e, d>> \in waitGraph
    BY <2>1, <2>2
  <2>4. d \in R
    BY <1>1, <2>3
  <2> QED BY <2>3, <2>4
<1>3. S \cap R = {}
  BY <1>2 DEF WaitGraphAcyclic
<1>4. c \in S
  <2> SUFFICES ASSUME c \notin S PROVE FALSE
    OBVIOUS
  <2>1. \A e \in S : \E d \in S : <<e, d>> \in waitGraph
    OBVIOUS
  <2> QED BY <2>1 DEF WaitGraphAcyclic
<1>5. owner \notin S
  BY <1>1, <1>3
<1>6. \A e \in S : \E d \in S : <<e, d>> \in waitGraph
  BY <1>5
<1> QED BY <1>6 DEF WaitGraphAcyclic
-----------------------------------------------------------------------------
(* Sequences of frames: pushing, popping and updating the innermost one.   *)
LEMMA FrameStack ==
  ASSUME NEW s \in Seq(Frame)
  PROVE  /\ s # << >> => Head(s) \in Frame /\ Tail(s) \in Seq(Frame)
         /\ \A f \in Frame : <<f>> \o s \in Seq(Frame) /\ <<f>> \o s # << >>
<1>1. ASSUME NEW f \in Frame PROVE <<f>> \o s \in Seq(Frame) /\ <<f>> \o s # << >>
  <2>1. <<f>> \in Seq(Frame) /\ Len(<<f>>) = 1
    OBVIOUS
  <2>2. <<f>> \o s \in Seq(Frame) /\ Len(<<f>> \o s) = 1 + Len(s)
    BY <2>1
  <2> QED BY <2>2
<1> QED BY <1>1

(* What Answer does to the variables it assigns.                           *)
LEMMA AnswerType ==
  ASSUME ResolverTypeOK, NEW c \in Ctx, NEW outer \in Seq(Frame), NEW woken,
         NEW value \in Value \cup {NoValue}, NEW error \in Error,
         error = "none" => value \in Value, Answer(c, outer, woken, value, error)
  PROVE  /\ pc' \in [Ctx -> {"idle", "entered", "locking", "waiting", "woken", "running",
                            "late", "done"}]
         /\ asked' \in [Ctx -> Key \cup {NoKey}]
         /\ stack' \in [Ctx -> Seq(Frame)]
         /\ result' \in [Ctx -> Result]
<1>1. pc' \in [Ctx -> {"idle", "entered", "locking", "waiting", "woken", "running",
                       "late", "done"}]
  BY DEF Answer, NextPc, ResolverTypeOK
<1>2. asked' \in [Ctx -> Key \cup {NoKey}]
  BY DEF Answer, ResolverTypeOK
<1>3. stack' \in [Ctx -> Seq(Frame)]
  <2>1. CASE outer = << >>
    BY <2>1 DEF Answer, ResolverTypeOK
  <2>2. CASE outer # << >>
    <3>1. Head(outer) \in Frame /\ Tail(outer) \in Seq(Frame)
      BY <2>2, FrameStack
    <3>2. Received(Head(outer), value, error) \in Frame
      BY <3>1 DEF Received, Frame
    <3>3. <<Received(Head(outer), value, error)>> \o Tail(outer) \in Seq(Frame)
      BY <3>1, <3>2, FrameStack
    <3> QED BY <2>2, <3>3 DEF Answer, ResolverTypeOK
  <2> QED BY <2>1, <2>2
<1>4. result' \in [Ctx -> Result]
  BY DEF Answer, ResolverTypeOK, Result
<1> QED BY <1>1, <1>2, <1>3, <1>4
-----------------------------------------------------------------------------
(* Every action keeps the types.                                           *)
LEMMA TypeInit == Init => ResolverTypeOK
BY ResolverAssumption DEF Init, ResolverTypeOK, Result, Pending, Error

LEMMA RegisterDependencyType ==
  ASSUME ResolverTypeOK, NEW c \in Ctx, asked[c] \in Key, RegisterDependency(c)
  PROVE  dependencyGraph' \subseteq Key \X Key
<1>1. CASE stack[c] = << >>
  BY <1>1 DEF RegisterDependency, ResolverTypeOK
<1>2. CASE stack[c] # << >>
  <2>1. Head(stack[c]) \in Frame
    BY <1>2, FrameStack DEF ResolverTypeOK
  <2> QED BY <1>2, <2>1 DEF RegisterDependency, ResolverTypeOK, Frame
<1> QED BY <1>1, <1>2

LEMMA FinishCreationType ==
  ASSUME ResolverTypeOK, NEW c \in Ctx, stack[c] # << >>,
         NEW value \in Value \cup {NoValue}, NEW error \in Error,
         error = "none" => value \in Value, FinishCreation(c, value, error)
  PROVE  /\ creating' \in [Key -> Ctx \cup {NoCtx}]
         /\ wakeErr' \in [Ctx -> Error]
         /\ pc' \in [Ctx -> {"idle", "entered", "locking", "waiting", "woken", "running",
                            "late", "done"}]
         /\ asked' \in [Ctx -> Key \cup {NoKey}]
         /\ stack' \in [Ctx -> Seq(Frame)]
         /\ result' \in [Ctx -> Result]
<1>1. Tail(stack[c]) \in Seq(Frame)
  BY FrameStack DEF ResolverTypeOK
<1>2. Answer(c, Tail(stack[c]), WaitingFor(Head(stack[c]).guard), value, error)
  BY DEF FinishCreation
<1>3. creating' \in [Key -> Ctx \cup {NoCtx}] /\ wakeErr' \in [Ctx -> Error]
  BY DEF FinishCreation, ResolverTypeOK
<1> QED BY <1>1, <1>2, <1>3, AnswerType

LEMMA TypeStep == ResolverTypeOK /\ PcConsistent /\ [Next]_vars => ResolverTypeOK'
<1> SUFFICES ASSUME ResolverTypeOK, PcConsistent, [Next]_vars PROVE ResolverTypeOK'
  OBVIOUS
<1> USE DEF registryVars, resolverVars, scopeVars, closeVars, historyVars
<1>1. ASSUME NEW c \in Ctx, NEW k \in Key, Request(c, k) PROVE ResolverTypeOK'
  BY <1>1 DEF Request, Enter, ResolverTypeOK
<1>2. ASSUME NEW c \in Ctx, NEW k \in Key, ProviderGet(c, k) PROVE ResolverTypeOK'
  <2>1. Head(stack[c]) \in Frame /\ stack[c] # << >>
    BY <1>2, FrameStack DEF ProviderGet, PcConsistent, ResolverTypeOK
  <2>2. <<Without(Head(stack[c]), k)>> \o Tail(stack[c]) \in Seq(Frame)
    <3>1. Without(Head(stack[c]), k) \in Frame /\ Tail(stack[c]) \in Seq(Frame)
      BY <2>1, FrameStack DEF Without, Frame, ResolverTypeOK
    <3> QED BY <3>1, FrameStack
  <2>3. stack' \in [Ctx -> Seq(Frame)]
    BY <1>2, <2>2 DEF ProviderGet, ResolverTypeOK
  <2> QED BY <1>2, <2>3 DEF ProviderGet, Enter, ResolverTypeOK
<1>3. ASSUME NEW c \in Ctx, NEW k \in Key, ProviderGetCircular(c, k) PROVE ResolverTypeOK'
  <2>1. Head(stack[c]) \in Frame /\ stack[c] # << >>
    BY <1>3, FrameStack DEF ProviderGetCircular, PcConsistent, ResolverTypeOK
  <2> DEFINE told == Received(Without(Head(stack[c]), k), NoValue, "circular")
  <2>2. <<told>> \o Tail(stack[c]) \in Seq(Frame)
    <3>1. told \in Frame /\ Tail(stack[c]) \in Seq(Frame)
      BY <2>1, FrameStack DEF Without, Received, Frame, Error, ResolverTypeOK
    <3> QED BY <3>1, FrameStack
  <2>3. stack' \in [Ctx -> Seq(Frame)]
    BY <1>3, <2>2 DEF ProviderGetCircular, ResolverTypeOK
  <2> QED BY <1>3, <2>3 DEF ProviderGetCircular, ResolverTypeOK
<1>4. ASSUME NEW c \in Ctx, LookupScope(c) PROVE ResolverTypeOK'
  <2> DEFINE found == scopeInstances[ScopeOf[c]][asked[c]]
  <2>1. found \in Value \cup {NoValue} /\ stack[c] \in Seq(Frame)
    BY <1>4 DEF LookupScope, PcConsistent, ResolverTypeOK
  <2>2. CASE Answer(c, stack[c], {}, NoValue, "scopeClosed")
    BY <1>4, <2>1, <2>2, AnswerType DEF LookupScope, ResolverTypeOK, Error
  <2>3. CASE found # NoValue /\ Answer(c, stack[c], {}, found, "none")
    BY <1>4, <2>1, <2>3, AnswerType DEF LookupScope, ResolverTypeOK, Error
  <2>4. CASE pc' = [pc EXCEPT ![c] = "locking"] /\ UNCHANGED <<stack, result, asked>>
    BY <1>4, <2>4 DEF LookupScope, ResolverTypeOK
  <2> QED BY <1>4, <2>2, <2>3, <2>4 DEF LookupScope
<1>5. ASSUME NEW c \in Ctx, ResolveAmbiguous(c) PROVE ResolverTypeOK'
  <2>1. stack[c] \in Seq(Frame) /\ asked[c] \in Key
    BY <1>5 DEF ResolveAmbiguous, PcConsistent, ResolverTypeOK
  <2> QED BY <1>5, <2>1, AnswerType, RegisterDependencyType
       DEF ResolveAmbiguous, ResolverTypeOK, Error
<1>6. ASSUME NEW c \in Ctx, ResolveHit(c) PROVE ResolverTypeOK'
  <2>1. stack[c] \in Seq(Frame) /\ asked[c] \in Key
    BY <1>6 DEF ResolveHit, PcConsistent, ResolverTypeOK
  <2>2. Cached(Guard(asked[c])) \in Value
    BY <1>6, <2>1, CachedType DEF ResolveHit
  <2>3. Answer(c, stack[c], {}, Cached(Guard(asked[c])), "none")
    BY <1>6 DEF ResolveHit
  <2> QED BY <1>6, <2>1, <2>2, <2>3, AnswerType, RegisterDependencyType
       DEF ResolveHit, ResolverTypeOK, Error
<1>7. ASSUME NEW c \in Ctx, ResolveCircular(c) PROVE ResolverTypeOK'
  <2>1. stack[c] \in Seq(Frame) /\ asked[c] \in Key
    BY <1>7 DEF ResolveCircular, Missing, PcConsistent, ResolverTypeOK
  <2> QED BY <1>7, <2>1, AnswerType, RegisterDependencyType
       DEF ResolveCircular, ResolverTypeOK, Error
<1>8. ASSUME NEW c \in Ctx, ResolveWait(c) PROVE ResolverTypeOK'
  <2>1. asked[c] \in Key
    BY <1>8 DEF ResolveWait, Missing, PcConsistent
  <2>2. Owner(c) \in Ctx
    BY <1>8, <2>1, GuardType DEF ResolveWait, Owner, ResolverTypeOK
  <2>3. dependencyGraph' \subseteq Key \X Key
    BY <1>8, <2>1, RegisterDependencyType DEF ResolveWait
  <2>4. waitGraph' \subseteq Ctx \X Ctx
    BY <1>8, <2>2 DEF ResolveWait, WaitEdge, ResolverTypeOK
  <2>5. waitsOn' \in [Ctx -> Ctx \cup {NoCtx}]
    BY <1>8, <2>2 DEF ResolveWait, ResolverTypeOK
  <2> QED BY <1>8, <2>3, <2>4, <2>5 DEF ResolveWait, ResolverTypeOK
<1>9. ASSUME NEW c \in Ctx, ResolveClosed(c) PROVE ResolverTypeOK'
  <2>1. stack[c] \in Seq(Frame) /\ asked[c] \in Key
    BY <1>9 DEF ResolveClosed, Missing, PcConsistent, ResolverTypeOK
  <2> QED BY <1>9, <2>1, AnswerType, RegisterDependencyType
       DEF ResolveClosed, ResolverTypeOK, Error
<1>10. ASSUME NEW c \in Ctx, ResolveCreate(c) PROVE ResolverTypeOK'
  <2>1. stack[c] \in Seq(Frame) /\ asked[c] \in Key
    BY <1>10 DEF ResolveCreate, Missing, PcConsistent, ResolverTypeOK
  <2>2. NewFrame(asked[c]) \in Frame
    BY <2>1, GuardType, ResolverAssumption DEF NewFrame, Frame, Error, Registered
  <2>3. <<NewFrame(asked[c])>> \o stack[c] \in Seq(Frame)
    BY <2>1, <2>2, FrameStack
  <2>4. stack' \in [Ctx -> Seq(Frame)]
    BY <1>10, <2>3 DEF ResolveCreate, ResolverTypeOK
  <2> QED BY <1>10, <2>1, <2>4, GuardType, RegisterDependencyType
       DEF ResolveCreate, ResolverTypeOK
<1>11. ASSUME NEW c \in Ctx, Resume(c) PROVE ResolverTypeOK'
  <2> DEFINE value == Cached(Guard(asked[c]))
             error == IF wakeErr[c] # "none" THEN wakeErr[c]
                      ELSE IF value = NoValue THEN "unavailable" ELSE "none"
             given == IF error = "none" THEN value ELSE NoValue
  <2>1. stack[c] \in Seq(Frame) /\ value \in Value \cup {NoValue}
    BY <1>11, CachedType DEF Resume, PcConsistent, ResolverTypeOK
  <2>2. error \in Error
    BY DEF ResolverTypeOK, Error
  <2>3. given \in Value \cup {NoValue} /\ (error = "none" => given \in Value)
    BY <2>1
  <2>4. Answer(c, stack[c], {}, given, error)
    BY <1>11 DEF Resume
  <2> HIDE DEF value, error, given
  <2>5. /\ waitGraph' \subseteq Ctx \X Ctx /\ waitsOn' \in [Ctx -> Ctx \cup {NoCtx}]
        /\ wakeErr' \in [Ctx -> Error]
    BY <1>11 DEF Resume, ResolverTypeOK, Error
  <2> QED BY <1>11, <2>1, <2>2, <2>3, <2>4, <2>5, AnswerType DEF Resume, ResolverTypeOK
<1>12. ASSUME NEW c \in Ctx, ProviderStores(c) PROVE ResolverTypeOK'
  <2> DEFINE frame == Head(stack[c])
             value == <<frame.guard, c>>
  <2>1. stack[c] # << >> /\ frame \in Frame
    BY <1>12, FrameStack DEF ProviderStores, Produce, PcConsistent, ResolverTypeOK
  <2>2. value \in Value /\ frame.guard \in Name
    BY <1>12, <2>1 DEF ProviderStores, Produce, Registered, Value
  <2>3. FinishCreation(c, value, "none")
    BY <1>12 DEF ProviderStores
  <2>4. /\ instances' \in [Name -> Value \cup {NoValue}]
        /\ typeInstances' \in [Type -> Value \cup {NoValue}]
    BY <1>12, <2>2 DEF ProviderStores, StoredInstances, ResolverTypeOK
  <2> QED BY <1>12, <2>1, <2>2, <2>3, <2>4, FinishCreationType
       DEF ProviderStores, ResolverTypeOK, Error
<1>13. ASSUME NEW c \in Ctx, ProviderTooLate(c) PROVE ResolverTypeOK'
  BY <1>13 DEF ProviderTooLate, ResolverTypeOK
<1>14. ASSUME NEW c \in Ctx, RelockLate(c) PROVE ResolverTypeOK'
  <2>1. stack[c] # << >>
    BY <1>14 DEF RelockLate, PcConsistent
  <2> QED BY <1>14, <2>1, FinishCreationType DEF RelockLate, ResolverTypeOK, Error
<1>15. ASSUME NEW c \in Ctx, ProviderFails(c) PROVE ResolverTypeOK'
  <2> DEFINE frame == Head(stack[c])
             error == IF frame.broken # "none" THEN frame.broken ELSE "creationFailed"
  <2>1. stack[c] # << >> /\ frame \in Frame
    BY <1>15, FrameStack DEF ProviderFails, PcConsistent, ResolverTypeOK
  <2>2. error \in Error /\ error # "none"
    BY <2>1 DEF Frame, Error
  <2>3. FinishCreation(c, NoValue, error)
    BY <1>15 DEF ProviderFails
  <2> QED BY <1>15, <2>1, <2>2, <2>3, FinishCreationType DEF ProviderFails, ResolverTypeOK
<1>16. ASSUME NEW n \in Name, NEW t, OverrideInstance(n, t) PROVE ResolverTypeOK'
  BY <1>16 DEF OverrideInstance, ResolverTypeOK, Value
<1>17. ASSUME NEW s \in Scope, NEW n \in Name, NEW t, ScopeOverrideInstance(s, n, t)
       PROVE  ResolverTypeOK'
  BY <1>17 DEF ScopeOverrideInstance, Overlay, ResolverTypeOK, Value
<1>18. ASSUME NEW s \in Scope, ScopeClose(s) PROVE ResolverTypeOK'
  BY <1>18 DEF ScopeClose, ResolverTypeOK
<1>19. ASSUME NEW x \in Closer, Close(x) PROVE ResolverTypeOK'
  BY <1>19 DEF Close, CloseBegin, CloseAgain, CloseValue, CloseEnd, ResolverTypeOK
<1>20. CASE UNCHANGED vars
  BY <1>20 DEF vars, ResolverTypeOK
<1> QED BY <1>1, <1>2, <1>3, <1>4, <1>5, <1>6, <1>7, <1>8, <1>9, <1>10, <1>11, <1>12, <1>13,
        <1>14, <1>15, <1>16, <1>17, <1>18, <1>19, <1>20 DEF Next, Resolve, Done
-----------------------------------------------------------------------------
(* Every action leaves each program counter with what it needs: a key, a   *)
(* scope or a frame.                                                       *)
LEMMA PcInit == Init => PcConsistent
BY DEF Init, PcConsistent

LEMMA AnswerPc ==
  ASSUME ResolverTypeOK, PcConsistent, NEW c \in Ctx, NEW outer \in Seq(Frame), NEW woken,
         \A d \in woken : pc[d] = "waiting", NEW value, NEW error,
         Answer(c, outer, woken, value, error)
  PROVE  PcConsistent'
<1> SUFFICES ASSUME NEW d \in Ctx
             PROVE  /\ pc'[d] \in {"entered", "locking", "waiting", "woken"} => asked'[d] \in Key
                    /\ pc'[d] = "entered" => ScopeOf[d] \in Scope
                    /\ pc'[d] \in {"running", "late"} => stack'[d] # << >>
  BY DEF PcConsistent
<1>1. CASE d = c
  <2>1. pc'[c] = IF outer = << >> THEN "done" ELSE "running"
    BY DEF Answer, NextPc
  <2>2. outer # << >> => stack'[c] # << >>
    <3> SUFFICES ASSUME outer # << >> PROVE stack'[c] # << >>
      OBVIOUS
    <3>1. stack'[c] = <<Received(Head(outer), value, error)>> \o Tail(outer)
      BY DEF Answer, ResolverTypeOK
    <3>2. Tail(outer) \in Seq(Frame)
      BY FrameStack
    <3>3. Len(<<Received(Head(outer), value, error)>> \o Tail(outer)) = 1 + Len(Tail(outer))
      BY <3>2
    <3> QED BY <3>1, <3>2, <3>3
  <2> QED BY <1>1, <2>1, <2>2
<1>2. CASE d # c
  <2>1. asked'[d] = asked[d] /\ stack'[d] = stack[d]
    BY <1>2 DEF Answer, ResolverTypeOK
  <2>2. pc'[d] = IF d \in woken THEN "woken" ELSE pc[d]
    BY <1>2 DEF Answer, NextPc
  <2> QED BY <2>1, <2>2 DEF PcConsistent
<1> QED BY <1>1, <1>2

LEMMA PcStep == ResolverTypeOK /\ PcConsistent /\ [Next]_vars => PcConsistent'
<1> SUFFICES ASSUME ResolverTypeOK, PcConsistent, [Next]_vars PROVE PcConsistent'
  OBVIOUS
<1> USE DEF registryVars, resolverVars, scopeVars, closeVars, historyVars
<1>0. /\ pc \in [Ctx -> {"idle", "entered", "locking", "waiting", "woken", "running",
                        "late", "done"}]
      /\ asked \in [Ctx -> Key \cup {NoKey}] /\ stack \in [Ctx -> Seq(Frame)]
  BY DEF ResolverTypeOK
<1>1. ASSUME NEW c \in Ctx, NEW k \in Key, Request(c, k) PROVE PcConsistent'
  BY <1>0, <1>1, ResolverAssumption DEF Request, Enter, PcConsistent
<1>2. ASSUME NEW c \in Ctx, NEW k \in Key, ProviderGet(c, k) PROVE PcConsistent'
  BY <1>0, <1>2, ResolverAssumption DEF ProviderGet, Enter, PcConsistent
<1>3. ASSUME NEW c \in Ctx, NEW k \in Key, ProviderGetCircular(c, k) PROVE PcConsistent'
  <2> DEFINE told == Received(Without(Head(stack[c]), k), NoValue, "circular")
  <2>1. stack' = [stack EXCEPT ![c] = <<told>> \o Tail(stack[c])]
    BY <1>3 DEF ProviderGetCircular
  <2>2. <<told>> \o Tail(stack[c]) # << >>
    <3>1. Tail(stack[c]) \in Seq(Frame)
      BY <1>0, <1>3, FrameStack DEF ProviderGetCircular, PcConsistent
    <3>2. Len(<<told>> \o Tail(stack[c])) = 1 + Len(Tail(stack[c]))
      BY <3>1
    <3> QED BY <3>1, <3>2
  <2> QED BY <1>0, <1>3, <2>1, <2>2 DEF ProviderGetCircular, PcConsistent
<1>4. ASSUME NEW c \in Ctx, LookupScope(c) PROVE PcConsistent'
  <2>1. CASE pc' = [pc EXCEPT ![c] = "locking"] /\ UNCHANGED <<stack, result, asked>>
    BY <1>0, <1>4, <2>1 DEF LookupScope, PcConsistent
  <2>2. ASSUME NEW value, NEW error, Answer(c, stack[c], {}, value, error)
        PROVE  PcConsistent'
    BY <1>0, <2>2, AnswerPc
  <2> QED BY <1>4, <2>1, <2>2 DEF LookupScope
<1>5. ASSUME NEW c \in Ctx, ResolveAmbiguous(c) PROVE PcConsistent'
  BY <1>0, <1>5, AnswerPc DEF ResolveAmbiguous
<1>6. ASSUME NEW c \in Ctx, ResolveHit(c) PROVE PcConsistent'
  BY <1>0, <1>6, AnswerPc DEF ResolveHit
<1>7. ASSUME NEW c \in Ctx, ResolveCircular(c) PROVE PcConsistent'
  BY <1>0, <1>7, AnswerPc DEF ResolveCircular
<1>8. ASSUME NEW c \in Ctx, ResolveWait(c) PROVE PcConsistent'
  BY <1>0, <1>8 DEF ResolveWait, Missing, PcConsistent
<1>9. ASSUME NEW c \in Ctx, ResolveClosed(c) PROVE PcConsistent'
  BY <1>0, <1>9, AnswerPc DEF ResolveClosed
<1>10. ASSUME NEW c \in Ctx, ResolveCreate(c) PROVE PcConsistent'
  <2>1. <<NewFrame(asked[c])>> \o stack[c] # << >>
    <3>1. Len(<<NewFrame(asked[c])>> \o stack[c]) = 1 + Len(stack[c])
      BY <1>0
    <3> QED BY <1>0, <3>1
  <2> QED BY <1>0, <1>10, <2>1 DEF ResolveCreate, PcConsistent
<1>11. ASSUME NEW c \in Ctx, Resume(c) PROVE PcConsistent'
  <2>1. ASSUME NEW value, NEW error, Answer(c, stack[c], {}, value, error)
        PROVE  PcConsistent'
    BY <1>0, <2>1, AnswerPc
  <2> QED BY <1>11, <2>1 DEF Resume
<1>12. ASSUME NEW c \in Ctx, NEW value, NEW error, stack[c] # << >>,
              FinishCreation(c, value, error)
       PROVE  PcConsistent'
  <2>1. Tail(stack[c]) \in Seq(Frame)
    BY <1>0, <1>12, FrameStack
  <2> QED BY <1>12, <2>1, AnswerPc DEF FinishCreation, WaitingFor
<1>13. ASSUME NEW c \in Ctx, ProviderStores(c) PROVE PcConsistent'
  BY <1>12, <1>13 DEF ProviderStores, Produce, PcConsistent
<1>14. ASSUME NEW c \in Ctx, ProviderTooLate(c) PROVE PcConsistent'
  BY <1>0, <1>14 DEF ProviderTooLate, Produce, PcConsistent
<1>15. ASSUME NEW c \in Ctx, RelockLate(c) PROVE PcConsistent'
  BY <1>12, <1>15 DEF RelockLate, PcConsistent
<1>16. ASSUME NEW c \in Ctx, ProviderFails(c) PROVE PcConsistent'
  BY <1>12, <1>16 DEF ProviderFails, PcConsistent
<1>17. ASSUME UNCHANGED <<pc, asked, stack>> PROVE PcConsistent'
  BY <1>17 DEF PcConsistent
<1>18. ASSUME NEW n, NEW t, NEW s, NEW x,
              \/ OverrideInstance(n, t) \/ ScopeOverrideInstance(s, n, t) \/ ScopeClose(s)
              \/ Close(x) \/ UNCHANGED vars
       PROVE  PcConsistent'
  BY <1>17, <1>18 DEF OverrideInstance, ScopeOverrideInstance, ScopeClose, Close, CloseBegin,
     CloseAgain, CloseValue, CloseEnd, vars
<1> QED BY <1>1, <1>2, <1>3, <1>4, <1>5, <1>6, <1>7, <1>8, <1>9, <1>10, <1>11, <1>13, <1>14,
        <1>15, <1>16, <1>18 DEF Next, Resolve, Done
-----------------------------------------------------------------------------
(* A blocked context keeps its edge to the owner of the creation: the      *)
(* creationState it waits on goes away only with the step that wakes it.   *)
LEMMA WaitsInit == Init => WaitsOnOwner
BY DEF Init, WaitsOnOwner

LEMMA AnswerWaiting ==
  ASSUME ResolverTypeOK, NEW c \in Ctx, NEW outer, NEW woken, NEW value, NEW error,
         Answer(c, outer, woken, value, error),
         NEW d \in Ctx, pc'[d] = "waiting"
  PROVE  d # c /\ d \notin woken /\ pc[d] = "waiting" /\ asked'[d] = asked[d]
BY DEF Answer, NextPc, ResolverTypeOK

LEMMA WaitsStep ==
  ResolverTypeOK /\ PcConsistent /\ WaitsOnOwner /\ [Next]_vars => WaitsOnOwner'
<1> SUFFICES ASSUME ResolverTypeOK, PcConsistent, WaitsOnOwner, [Next]_vars,
                    NEW d \in Ctx, pc'[d] = "waiting"
             PROVE  Owner(d)' # NoCtx /\ <<d, Owner(d)'>> \in waitGraph'
  BY DEF WaitsOnOwner, Owner
<1> DEFINE Goal == Owner(d)' # NoCtx /\ <<d, Owner(d)'>> \in waitGraph'
<1> USE DEF registryVars, resolverVars, scopeVars, closeVars, historyVars
<1>0. pc \in [Ctx -> {"idle", "entered", "locking", "waiting", "woken", "running",
                      "late", "done"}]
      /\ asked \in [Ctx -> Key \cup {NoKey}]
      /\ creating \in [Key -> Ctx \cup {NoCtx}]
  BY DEF ResolverTypeOK
<1>1. ASSUME pc[d] = "waiting", asked'[d] = asked[d], UNCHANGED <<creating, waitGraph>>
      PROVE  Goal
  BY <1>1 DEF WaitsOnOwner, Owner
<1>2. ASSUME NEW c \in Ctx, NEW k \in Key, Request(c, k) PROVE Goal
  BY <1>0, <1>1, <1>2 DEF Request, Enter
<1>3. ASSUME NEW c \in Ctx, NEW k \in Key, ProviderGet(c, k) PROVE Goal
  BY <1>0, <1>1, <1>3 DEF ProviderGet, Enter
<1>4. ASSUME NEW c \in Ctx, LookupScope(c) PROVE Goal
  BY <1>0, <1>1, <1>4, AnswerWaiting DEF LookupScope
<1>5. ASSUME NEW c \in Ctx, ResolveAmbiguous(c) \/ ResolveHit(c) \/ ResolveCircular(c)
                              \/ ResolveClosed(c)
      PROVE  Goal
  BY <1>1, <1>5, AnswerWaiting
     DEF ResolveAmbiguous, ResolveHit, ResolveCircular, ResolveClosed
<1>6. ASSUME NEW c \in Ctx, ResolveWait(c) PROVE Goal
  <2>1. CASE d = c
    BY <1>6, <2>1 DEF ResolveWait, WaitEdge, Owner
  <2>2. CASE d # c
    BY <1>0, <1>6, <2>2 DEF ResolveWait, WaitsOnOwner, Owner
  <2> QED BY <2>1, <2>2
<1>7. ASSUME NEW c \in Ctx, ResolveCreate(c) PROVE Goal
  <2>1. d # c /\ pc[d] = "waiting" /\ asked'[d] = asked[d] /\ waitGraph' = waitGraph
    BY <1>0, <1>7 DEF ResolveCreate
  <2>2. Owner(c) = NoCtx /\ Owner(d) # NoCtx
    BY <1>7, <2>1 DEF ResolveCreate, WaitsOnOwner
  <2>3. Guard(asked[d]) # Guard(asked[c])
    BY <2>2 DEF Owner
  <2>4. Owner(d)' = Owner(d)
    BY <1>0, <1>7, <2>1, <2>3 DEF ResolveCreate, Owner
  <2> QED BY <2>1, <2>4 DEF WaitsOnOwner
<1>8. ASSUME NEW c \in Ctx, Resume(c) PROVE Goal
  <2>1. d # c /\ pc[d] = "waiting" /\ asked'[d] = asked[d]
    BY <1>8, AnswerWaiting DEF Resume
  <2>2. Owner(d)' = Owner(d)
    BY <1>8, <2>1 DEF Resume, Owner
  <2>3. <<d, Owner(d)>> \in waitGraph'
    BY <1>8, <2>1 DEF Resume, WaitsOnOwner
  <2> QED BY <2>1, <2>2, <2>3 DEF WaitsOnOwner
<1>9. ASSUME NEW c \in Ctx, NEW value, NEW error, FinishCreation(c, value, error),
             waitGraph' = waitGraph
      PROVE  Goal
  <2>1. d \notin WaitingFor(Head(stack[c]).guard) /\ pc[d] = "waiting" /\ asked'[d] = asked[d]
    BY <1>9, AnswerWaiting DEF FinishCreation
  <2>2. Guard(asked[d]) # Head(stack[c]).guard
    BY <2>1 DEF WaitingFor
  <2>3. Owner(d)' = Owner(d)
    BY <1>0, <1>9, <2>1, <2>2 DEF FinishCreation, Owner
  <2> QED BY <1>9, <2>1, <2>3 DEF WaitsOnOwner
<1>10. ASSUME NEW c \in Ctx, ProviderStores(c) \/ RelockLate(c) \/ ProviderFails(c)
       PROVE  Goal
  BY <1>9, <1>10 DEF ProviderStores, RelockLate, ProviderFails
<1>11. ASSUME NEW c \in Ctx, ProviderTooLate(c) PROVE Goal
  BY <1>0, <1>1, <1>11 DEF ProviderTooLate
<1>12. ASSUME UNCHANGED <<pc, asked, creating, waitGraph>> PROVE Goal
  BY <1>1, <1>12
<1>13. ASSUME NEW c, NEW k, NEW n, NEW t, NEW s, NEW x,
              \/ ProviderGetCircular(c, k) \/ OverrideInstance(n, t)
              \/ ScopeOverrideInstance(s, n, t) \/ ScopeClose(s) \/ Close(x)
              \/ UNCHANGED vars
       PROVE  Goal
  BY <1>12, <1>13 DEF ProviderGetCircular, OverrideInstance, ScopeOverrideInstance,
     ScopeClose, Close, CloseBegin, CloseAgain, CloseValue, CloseEnd, vars
<1> HIDE DEF Goal
<1>14. Goal
  BY <1>2, <1>3, <1>4, <1>5, <1>6, <1>7, <1>8, <1>10, <1>11, <1>13 DEF Next, Resolve, Done
<1> QED BY <1>14 DEF Goal
-----------------------------------------------------------------------------
(* The wait graph stays acyclic: edges are added by ResolveWait alone.     *)
LEMMA AcyclicInit == Init => WaitGraphAcyclic
BY DEF Init, WaitGraphAcyclic

LEMMA FewerEdgesAcyclic ==
  ASSUME WaitGraphAcyclic, waitGraph' \subseteq waitGraph PROVE WaitGraphAcyclic'
BY DEF WaitGraphAcyclic

LEMMA AcyclicStep ==
  ResolverTypeOK /\ PcConsistent /\ WaitGraphAcyclic /\ [Next]_vars => WaitGraphAcyclic'
<1> SUFFICES ASSUME ResolverTypeOK, PcConsistent, WaitGraphAcyclic, [Next]_vars
             PROVE  WaitGraphAcyclic'
  OBVIOUS
<1> USE DEF registryVars, resolverVars, scopeVars, closeVars, historyVars
<1>1. ASSUME NEW c \in Ctx, ResolveWait(c) PROVE WaitGraphAcyclic'
  <2>1. asked[c] \in Key
    BY <1>1 DEF ResolveWait, Missing, PcConsistent
  <2>2. Owner(c) \in Ctx
    BY <1>1, <2>1, GuardType DEF ResolveWait, Owner, ResolverTypeOK
  <2>3. ~HasResolverPath(Owner(c), c) /\ waitGraph' = waitGraph \cup {<<c, Owner(c)>>}
    BY <1>1 DEF ResolveWait, RefusesWait, WaitEdge
  <2>4. waitGraph \subseteq Ctx \X Ctx
    BY DEF ResolverTypeOK
  <2> QED BY <2>2, <2>3, <2>4, NewEdgeKeepsAcyclic
<1>2. ASSUME NEW c \in Ctx, Resume(c) PROVE WaitGraphAcyclic'
  <2>1. waitGraph' \subseteq waitGraph
    BY <1>2 DEF Resume
  <2> QED BY <2>1, FewerEdgesAcyclic
<1>3. ASSUME UNCHANGED waitGraph PROVE WaitGraphAcyclic'
  BY <1>3, FewerEdgesAcyclic
<1>4. ASSUME NEW c, NEW k,
             \/ Request(c, k) \/ ProviderGet(c, k) \/ ProviderGetCircular(c, k)
             \/ LookupScope(c) \/ ResolveAmbiguous(c) \/ ResolveHit(c)
             \/ ResolveCircular(c) \/ ResolveClosed(c) \/ ResolveCreate(c)
             \/ ProviderStores(c) \/ ProviderTooLate(c) \/ RelockLate(c) \/ ProviderFails(c)
      PROVE  WaitGraphAcyclic'
  BY <1>3, <1>4 DEF Request, ProviderGet, ProviderGetCircular, Enter, LookupScope,
     ResolveAmbiguous, ResolveHit, ResolveCircular, ResolveClosed, ResolveCreate,
     ProviderStores, ProviderTooLate, RelockLate, ProviderFails
<1>5. ASSUME NEW n, NEW t, NEW s, NEW x,
             \/ OverrideInstance(n, t) \/ ScopeOverrideInstance(s, n, t) \/ ScopeClose(s)
             \/ Close(x) \/ UNCHANGED vars
      PROVE  WaitGraphAcyclic'
  BY <1>3, <1>5 DEF OverrideInstance, ScopeOverrideInstance, ScopeClose, Close, CloseBegin,
     CloseAgain, CloseValue, CloseEnd, vars
<1> QED BY <1>1, <1>2, <1>4, <1>5 DEF Next, Resolve, Done
-----------------------------------------------------------------------------
(* The resolver's state is typed, and the wait invariant holds, in every   *)
(* reachable state of every container.                                     *)
THEOREM WaitInvariance == Spec => []WaitInv
<1>1. Init => WaitInv
  BY TypeInit, PcInit, WaitsInit, AcyclicInit DEF WaitInv
<1>2. WaitInv /\ [Next]_vars => WaitInv'
  BY TypeStep, PcStep, WaitsStep, AcyclicStep DEF WaitInv
<1> QED BY <1>1, <1>2, PTL DEF Spec

(* The invariant excludes a circular wait: a group that waits for itself   *)
(* would be a set in which every member has an edge into the set.          *)
LEMMA WaitInvExcludesCircles == WaitInv => NoCircularWait
<1> SUFFICES ASSUME WaitInv, NEW S \in (SUBSET Ctx) \ {{}},
                    \A c \in S : pc[c] = "waiting" /\ Owner(c) \in S
             PROVE  FALSE
  BY DEF NoCircularWait
<1>1. \A c \in S : <<c, Owner(c)>> \in waitGraph
  BY DEF WaitInv, WaitsOnOwner
<1>2. PICK c \in S : \A d \in S : <<c, d>> \notin waitGraph
  BY DEF WaitInv, WaitGraphAcyclic
<1> QED BY <1>1, <1>2

(* Contexts never block one another in a circle                            *)
(* (registerResolverWaitLocked), whatever the dependencies of the services *)
(* and however many contexts resolve them at once.                         *)
THEOREM NoCircularWaitHolds == Spec => []NoCircularWait
BY WaitInvariance, WaitInvExcludesCircles, PTL
-----------------------------------------------------------------------------
(* What a context may be given: an instance of a scope is of its own.      *)
MayReach(v, c) == v # NoValue /\ v[2] \in Scope => v[2] = ScopeOf[c]

(* The creations of a context: each frame holds the guard of its key, no   *)
(* two frames hold one guard, and what they were given may reach it.       *)
Keeps(s, c, owners) ==
  \A i \in DOMAIN s :
    /\ s[i].guard = Guard(s[i].key) /\ owners[s[i].guard] = c
    /\ \A j \in DOMAIN s : s[j].guard = s[i].guard => j = i
    /\ \A v \in s[i].got : MayReach(v, c)

StacksKept == \A c \in Ctx : Keeps(stack[c], c, creating)

ResultsKept == \A c \in Ctx : MayReach(result[c].value, c)

ValuesKept ==
  /\ \A n \in Name : instances[n] # NoValue => instances[n][1] = n /\ instances[n][2] \notin Scope
  /\ \A t \in Type : typeInstances[t] # NoValue => typeInstances[t][2] \notin Scope
  /\ \A s \in Scope, k \in Key :
       scopeInstances[s][k] # NoValue => scopeInstances[s][k][2] = s

LEMMA PushKeeps ==
  ASSUME NEW s \in Seq(Frame), NEW c \in Ctx, NEW owners \in [Key -> Ctx \cup {NoCtx}],
         Keeps(s, c, owners), NEW k \in Key, owners[Guard(k)] = NoCtx
  PROVE  Keeps(<<NewFrame(k)>> \o s, c, [owners EXCEPT ![Guard(k)] = c])
<1> DEFINE t == <<NewFrame(k)>> \o s
<1>1. /\ DOMAIN s = 1 .. Len(s) /\ DOMAIN t = 1 .. Len(s) + 1 /\ Len(s) \in Nat
      /\ t[1] = NewFrame(k) /\ \A i \in 2 .. Len(s) + 1 : t[i] = s[i - 1]
  OBVIOUS
<1>2. NewFrame(k).guard = Guard(k) /\ NewFrame(k).key = k /\ NewFrame(k).got = {}
  BY DEF NewFrame
<1>3. Guard(k) \in Key /\ NoCtx \notin Ctx
  BY GuardType, ResolverAssumption
<1>4. \A i \in DOMAIN s : s[i].guard # Guard(k) /\ s[i].guard \in Key
  <2>1. \A i \in DOMAIN s : s[i] \in Frame
    OBVIOUS
  <2>2. \A i \in DOMAIN s : s[i].guard \in Key
    BY <2>1 DEF Frame
  <2> QED BY <1>3, <2>2 DEF Keeps
<1> HIDE DEF t
<1>5. ASSUME NEW i \in DOMAIN t
      PROVE  /\ t[i].guard = Guard(t[i].key) /\ [owners EXCEPT ![Guard(k)] = c][t[i].guard] = c
             /\ \A j \in DOMAIN t : t[j].guard = t[i].guard => j = i
             /\ \A v \in t[i].got : MayReach(v, c)
  <2>1. CASE i = 1
    BY <1>1, <1>2, <1>3, <1>4, <2>1
  <2>2. CASE i # 1
    <3>1. i - 1 \in DOMAIN s /\ t[i] = s[i - 1]
      BY <1>1, <2>2
    <3>2. ASSUME NEW j \in DOMAIN t, t[j].guard = t[i].guard PROVE j = i
      <4>1. j # 1
        BY <1>1, <1>2, <1>4, <3>1, <3>2
      <4>2. j - 1 \in DOMAIN s /\ t[j] = s[j - 1]
        BY <1>1, <4>1
      <4>3. j - 1 = i - 1
        BY <3>1, <3>2, <4>2 DEF Keeps
      <4> QED BY <1>1, <4>3
    <3> QED BY <1>3, <1>4, <3>1, <3>2 DEF Keeps
  <2> QED BY <2>1, <2>2
<1> QED BY <1>5 DEF Keeps, t

LEMMA PopKeeps ==
  ASSUME NEW s \in Seq(Frame), s # << >>, NEW c \in Ctx,
         NEW owners \in [Key -> Ctx \cup {NoCtx}], Keeps(s, c, owners)
  PROVE  Keeps(Tail(s), c, [owners EXCEPT ![Head(s).guard] = NoCtx])
<1> DEFINE t == Tail(s)
<1>1. /\ DOMAIN s = 1 .. Len(s) /\ DOMAIN t = 1 .. Len(s) - 1 /\ Len(s) \in Nat \ {0}
      /\ Head(s) = s[1] /\ \A i \in 1 .. Len(s) - 1 : t[i] = s[i + 1]
  OBVIOUS
<1>2. \A i \in DOMAIN s : s[i].guard \in Key
  <2>1. \A i \in DOMAIN s : s[i] \in Frame
    OBVIOUS
  <2> QED BY <2>1 DEF Frame
<1> HIDE DEF t
<1>3. ASSUME NEW i \in DOMAIN t
      PROVE  /\ t[i].guard = Guard(t[i].key)
             /\ [owners EXCEPT ![Head(s).guard] = NoCtx][t[i].guard] = c
             /\ \A j \in DOMAIN t : t[j].guard = t[i].guard => j = i
             /\ \A v \in t[i].got : MayReach(v, c)
  <2>1. i + 1 \in DOMAIN s /\ t[i] = s[i + 1] /\ 1 \in DOMAIN s /\ i + 1 # 1
    BY <1>1
  <2>2. s[i + 1].guard # Head(s).guard
    BY <1>1, <2>1 DEF Keeps
  <2>3. ASSUME NEW j \in DOMAIN t, t[j].guard = t[i].guard PROVE j = i
    <3>1. j + 1 \in DOMAIN s /\ t[j] = s[j + 1]
      BY <1>1
    <3>2. j + 1 = i + 1
      BY <2>1, <2>3, <3>1 DEF Keeps
    <3> QED BY <1>1, <3>2
  <2> QED BY <1>2, <2>1, <2>2, <2>3 DEF Keeps
<1> QED BY <1>3 DEF Keeps, t

(* The innermost frame is changed, but for its key and its guard.          *)
LEMMA ChangeKeeps ==
  ASSUME NEW s \in Seq(Frame), s # << >>, NEW c \in Ctx, NEW owners, Keeps(s, c, owners),
         NEW f, f.key = Head(s).key, f.guard = Head(s).guard, \A v \in f.got : MayReach(v, c)
  PROVE  Keeps(<<f>> \o Tail(s), c, owners)
<1> DEFINE t == <<f>> \o Tail(s)
<1>1. /\ DOMAIN s = 1 .. Len(s) /\ DOMAIN t = 1 .. Len(s) /\ Len(s) \in Nat \ {0}
      /\ Head(s) = s[1] /\ t[1] = f /\ \A i \in 2 .. Len(s) : t[i] = s[i]
  OBVIOUS
<1> HIDE DEF t
<1>2. \A i \in DOMAIN s : t[i].guard = s[i].guard /\ t[i].key = s[i].key
  BY <1>1
<1>3. \A i \in DOMAIN s : \A v \in t[i].got : MayReach(v, c)
  BY <1>1 DEF Keeps
<1> QED BY <1>1, <1>2, <1>3 DEF Keeps, t

LEMMA ReceivedFrame ==
  ASSUME NEW f \in Frame, NEW value, NEW error
  PROVE  /\ Received(f, value, error).key = f.key /\ Received(f, value, error).guard = f.guard
         /\ \A v \in Received(f, value, error).got : v \in f.got \/ v = value
BY DEF Received, Frame

LEMMA AnswerKeeps ==
  ASSUME ResolverTypeOK, ResultsKept, NEW c \in Ctx, NEW outer \in Seq(Frame), NEW woken,
         NEW value, NEW error, MayReach(value, c), NEW owners, Keeps(outer, c, owners),
         \A d \in Ctx : d # c => Keeps(stack[d], d, owners),
         creating' = owners, Answer(c, outer, woken, value, error)
  PROVE  StacksKept' /\ ResultsKept'
<1>1. Keeps(stack'[c], c, owners)
  <2>1. CASE outer = << >>
    BY <2>1 DEF Answer, Keeps, ResolverTypeOK
  <2>2. CASE outer # << >>
    <3>1. Head(outer) \in Frame /\ Head(outer) = outer[1] /\ 1 \in DOMAIN outer
      BY <2>2
    <3> DEFINE f == Received(Head(outer), value, error)
    <3>2. f.key = Head(outer).key /\ f.guard = Head(outer).guard
          /\ \A v \in f.got : v \in Head(outer).got \/ v = value
      BY <3>1, ReceivedFrame
    <3>3. \A v \in f.got : MayReach(v, c)
      BY <3>1, <3>2 DEF Keeps
    <3>4. stack'[c] = <<f>> \o Tail(outer)
      BY <2>2 DEF Answer, ResolverTypeOK
    <3> HIDE DEF f
    <3> QED BY <2>2, <3>2, <3>3, <3>4, ChangeKeeps
  <2> QED BY <2>1, <2>2
<1>2. \A d \in Ctx : d # c => stack'[d] = stack[d]
  BY DEF Answer, ResolverTypeOK
<1>3. StacksKept'
  BY <1>1, <1>2 DEF StacksKept
<1>4. \A d \in Ctx : result'[d].value = result[d].value \/ (d = c /\ result'[d].value = value)
  BY DEF Answer, ResolverTypeOK
<1>5. ResultsKept'
  BY <1>4 DEF ResultsKept
<1> QED BY <1>3, <1>5

LEMMA CachedReaches ==
  ASSUME ResolverTypeOK, ValuesKept, NEW c \in Ctx, NEW k \in Key
  PROVE  MayReach(Cached(Guard(k)), c)
<1>1. Guard(k) \in Key
  BY GuardType
<1>2. CASE Guard(k) \in Name
  BY <1>2 DEF Cached, ValuesKept, MayReach
<1>3. CASE Guard(k) \notin Name
  BY <1>1, <1>3 DEF Cached, ValuesKept, MayReach
<1> QED BY <1>2, <1>3

LEMMA FinishKeeps ==
  ASSUME ResolverTypeOK, StacksKept, ResultsKept, NEW c \in Ctx, stack[c] # << >>,
         NEW value, NEW error, MayReach(value, c), FinishCreation(c, value, error)
  PROVE  StacksKept' /\ ResultsKept'
<1> DEFINE g == Head(stack[c]).guard
           owners == [creating EXCEPT ![g] = NoCtx]
<1>1. stack[c] \in Seq(Frame) /\ Tail(stack[c]) \in Seq(Frame)
  BY FrameStack DEF ResolverTypeOK
<1>2. creating \in [Key -> Ctx \cup {NoCtx}] /\ creating' = owners
  BY DEF FinishCreation, ResolverTypeOK
<1>3. Keeps(Tail(stack[c]), c, owners)
  BY <1>1, <1>2, PopKeeps DEF StacksKept
<1>4. creating[g] = c
  <2>1. 1 \in DOMAIN stack[c] /\ Head(stack[c]) = stack[c][1]
    BY <1>1
  <2> QED BY <2>1 DEF StacksKept, Keeps
<1>5. ASSUME NEW d \in Ctx, d # c PROVE Keeps(stack[d], d, owners)
  <2>1. \A i \in DOMAIN stack[d] : owners[stack[d][i].guard] = creating[stack[d][i].guard]
    <3> SUFFICES ASSUME NEW i \in DOMAIN stack[d]
                 PROVE  owners[stack[d][i].guard] = creating[stack[d][i].guard]
      OBVIOUS
    <3>1. creating[stack[d][i].guard] = d
      BY DEF StacksKept, Keeps
    <3>2. stack[d][i].guard # g
      BY <1>4, <1>5, <3>1
    <3> QED BY <1>2, <3>2
  <2> HIDE DEF owners
  <2> QED BY <2>1 DEF StacksKept, Keeps
<1>6. Answer(c, Tail(stack[c]), WaitingFor(g), value, error)
  BY DEF FinishCreation
<1> HIDE DEF owners, g
<1> QED BY <1>1, <1>2, <1>3, <1>5, <1>6, AnswerKeeps

LEMMA AnswerOnly ==
  ASSUME ResolverTypeOK, StacksKept, ResultsKept, NEW c \in Ctx, NEW value, NEW error,
         MayReach(value, c), UNCHANGED creating, Answer(c, stack[c], {}, value, error)
  PROVE  StacksKept' /\ ResultsKept'
<1>1. stack[c] \in Seq(Frame)
  BY DEF ResolverTypeOK
<1>2. \A d \in Ctx : Keeps(stack[d], d, creating)
  BY DEF StacksKept
<1> QED BY <1>1, <1>2, AnswerKeeps

LEMMA NothingReaches == ASSUME NEW c PROVE MayReach(NoValue, c)
BY DEF MayReach

Kept == StacksKept /\ ResultsKept /\ ValuesKept

LEMMA KeptStep == WaitInv /\ Kept /\ [Next]_vars => Kept'
<1> SUFFICES ASSUME WaitInv, Kept, [Next]_vars PROVE Kept'
  OBVIOUS
<1> USE DEF registryVars, resolverVars, scopeVars, closeVars, historyVars
<1>0. /\ ResolverTypeOK /\ PcConsistent /\ StacksKept /\ ResultsKept /\ ValuesKept
      /\ stack \in [Ctx -> Seq(Frame)]
  BY DEF WaitInv, Kept, ResolverTypeOK
<1>1. ASSUME UNCHANGED <<stack, creating, result>> PROVE StacksKept' /\ ResultsKept'
  BY <1>0, <1>1 DEF StacksKept, ResultsKept
<1>2. ASSUME UNCHANGED <<instances, typeInstances, scopeInstances>> PROVE ValuesKept'
  BY <1>0, <1>2 DEF ValuesKept
<1>3. ASSUME NEW c \in Ctx, NEW k, Request(c, k) \/ ResolveWait(c) \/ ProviderTooLate(c)
      PROVE  Kept'
  BY <1>1, <1>2, <1>3 DEF Request, Enter, ResolveWait, ProviderTooLate, Kept
<1>4. ASSUME NEW c \in Ctx, stack[c] # << >>, NEW f, f.key = Head(stack[c]).key,
             f.guard = Head(stack[c]).guard,
             \A v \in f.got : v \in Head(stack[c]).got \/ v = NoValue,
             stack' = [stack EXCEPT ![c] = <<f>> \o Tail(stack[c])],
             UNCHANGED <<instances, typeInstances, scopeInstances, creating, result>>
      PROVE  Kept'
  <2>1. Head(stack[c]) = stack[c][1] /\ 1 \in DOMAIN stack[c]
    BY <1>0, <1>4
  <2>2. \A v \in f.got : MayReach(v, c)
    BY <1>0, <1>4, <2>1, NothingReaches DEF StacksKept, Keeps
  <2>3. Keeps(<<f>> \o Tail(stack[c]), c, creating)
    BY <1>0, <1>4, <2>2, ChangeKeeps DEF StacksKept
  <2>4. StacksKept' /\ ResultsKept'
    BY <1>0, <1>4, <2>3 DEF StacksKept, ResultsKept
  <2> QED BY <1>2, <1>4, <2>4 DEF Kept
<1>5. ASSUME NEW c \in Ctx, NEW k \in Key, ProviderGet(c, k) \/ ProviderGetCircular(c, k)
      PROVE  Kept'
  <2>1. stack[c] # << >> /\ Head(stack[c]) \in Frame
    BY <1>0, <1>5, FrameStack DEF ProviderGet, ProviderGetCircular, PcConsistent
  <2> DEFINE f == Without(Head(stack[c]), k)
             g == Received(f, NoValue, "circular")
  <2>2. f \in Frame /\ f.key = Head(stack[c]).key /\ f.guard = Head(stack[c]).guard
        /\ f.got = Head(stack[c]).got
    BY <2>1 DEF Without, Frame
  <2>3. CASE ProviderGet(c, k)
    <3>1. stack' = [stack EXCEPT ![c] = <<f>> \o Tail(stack[c])]
          /\ UNCHANGED <<instances, typeInstances, scopeInstances, creating, result>>
      BY <2>3 DEF ProviderGet, Enter
    <3> HIDE DEF f
    <3> QED BY <1>4, <2>1, <2>2, <3>1
  <2>4. CASE ProviderGetCircular(c, k)
    <3>1. stack' = [stack EXCEPT ![c] = <<g>> \o Tail(stack[c])]
          /\ UNCHANGED <<instances, typeInstances, scopeInstances, creating, result>>
      BY <2>4 DEF ProviderGetCircular
    <3> HIDE DEF f
    <3>2. g.key = f.key /\ g.guard = f.guard /\ \A v \in g.got : v \in f.got \/ v = NoValue
      BY <2>2, ReceivedFrame
    <3> HIDE DEF g
    <3> QED BY <1>4, <2>1, <2>2, <3>1, <3>2
  <2> QED BY <1>5, <2>3, <2>4
<1>6. ASSUME NEW c \in Ctx, LookupScope(c) PROVE Kept'
  <2> DEFINE found == scopeInstances[ScopeOf[c]][asked[c]]
  <2>1. ScopeOf[c] \in Scope /\ asked[c] \in Key
    BY <1>0, <1>6 DEF LookupScope, PcConsistent
  <2>2. MayReach(found, c)
    BY <1>0, <2>1 DEF ValuesKept, MayReach
  <2>3. ValuesKept' /\ UNCHANGED creating
    BY <1>2, <1>6 DEF LookupScope
  <2>4. CASE pc' = [pc EXCEPT ![c] = "locking"] /\ UNCHANGED <<stack, result, asked>>
    BY <1>1, <2>3, <2>4 DEF Kept
  <2>5. CASE Answer(c, stack[c], {}, NoValue, "scopeClosed")
    BY <1>0, <2>3, <2>5, AnswerOnly, NothingReaches DEF Kept
  <2>6. CASE Answer(c, stack[c], {}, found, "none")
    <3> HIDE DEF found
    <3> QED BY <1>0, <2>2, <2>3, <2>6, AnswerOnly DEF Kept
  <2> QED BY <1>6, <2>4, <2>5, <2>6 DEF LookupScope
<1>7. ASSUME NEW c \in Ctx, ResolveAmbiguous(c) \/ ResolveCircular(c) \/ ResolveClosed(c)
      PROVE  Kept'
  <2>1. UNCHANGED creating /\ \E error : Answer(c, stack[c], {}, NoValue, error)
    BY <1>7 DEF ResolveAmbiguous, ResolveCircular, ResolveClosed
  <2>2. ValuesKept'
    BY <1>2, <1>7 DEF ResolveAmbiguous, ResolveCircular, ResolveClosed
  <2> QED BY <1>0, <2>1, <2>2, AnswerOnly, NothingReaches DEF Kept
<1>8. ASSUME NEW c \in Ctx, ResolveHit(c) PROVE Kept'
  <2> DEFINE value == Cached(Guard(asked[c]))
  <2>1. asked[c] \in Key
    BY <1>0, <1>8 DEF ResolveHit, PcConsistent
  <2>2. MayReach(value, c)
    BY <1>0, <2>1, CachedReaches
  <2>3. UNCHANGED creating /\ Answer(c, stack[c], {}, value, "none")
    BY <1>8 DEF ResolveHit
  <2>4. value # NoValue /\ value[2] \notin Scope
    <3>1. value # NoValue
      BY <1>8 DEF ResolveHit
    <3> QED BY <1>0, <2>1, <3>1, GuardType DEF Cached, ValuesKept
  <2>5. ValuesKept'
    <3> HIDE DEF value
    <3>1. UNCHANGED <<instances, scopeInstances>>
          /\ \A t \in Type : typeInstances'[t] = typeInstances[t] \/ typeInstances'[t] = value
      BY <1>0, <1>8 DEF ResolveHit, ResolverTypeOK, value
    <3> QED BY <1>0, <2>4, <3>1 DEF ValuesKept
  <2> HIDE DEF value
  <2> QED BY <1>0, <2>2, <2>3, <2>5, AnswerOnly DEF Kept
<1>9. ASSUME NEW c \in Ctx, ResolveCreate(c) PROVE Kept'
  <2> DEFINE owners == [creating EXCEPT ![Guard(asked[c])] = c]
             pushed == <<NewFrame(asked[c])>> \o stack[c]
  <2>1. asked[c] \in Key /\ creating[Guard(asked[c])] = NoCtx
    BY <1>0, <1>9 DEF ResolveCreate, Missing, PcConsistent, Owner
  <2>2. creating \in [Key -> Ctx \cup {NoCtx}] /\ Guard(asked[c]) \in Key /\ NoCtx \notin Ctx
    BY <1>0, <2>1, GuardType, ResolverAssumption DEF ResolverTypeOK
  <2>3. Keeps(pushed, c, owners)
    BY <1>0, <2>1, <2>2, PushKeeps DEF StacksKept
  <2>4. ASSUME NEW d \in Ctx, d # c PROVE Keeps(stack[d], d, owners)
    <3>1. \A i \in DOMAIN stack[d] : creating[stack[d][i].guard] = d
      BY <1>0 DEF StacksKept, Keeps
    <3>2. \A i \in DOMAIN stack[d] : owners[stack[d][i].guard] = creating[stack[d][i].guard]
      BY <2>1, <2>2, <3>1
    <3> HIDE DEF owners
    <3> QED BY <1>0, <3>2 DEF StacksKept, Keeps
  <2>5. creating' = owners /\ stack' = [stack EXCEPT ![c] = pushed]
    BY <1>9 DEF ResolveCreate
  <2> HIDE DEF owners, pushed
  <2>6. StacksKept'
    BY <1>0, <2>3, <2>4, <2>5 DEF StacksKept
  <2>7. ResultsKept' /\ ValuesKept'
    BY <1>0, <1>2, <1>9 DEF ResolveCreate, ResultsKept
  <2> QED BY <2>6, <2>7 DEF Kept
<1>10. ASSUME NEW c \in Ctx, Resume(c) PROVE Kept'
  <2>1. asked[c] \in Key
    BY <1>0, <1>10 DEF Resume, PcConsistent
  <2>2. MayReach(Cached(Guard(asked[c])), c) /\ MayReach(NoValue, c)
    BY <1>0, <2>1, CachedReaches, NothingReaches
  <2>3. PICK value, error : MayReach(value, c) /\ Answer(c, stack[c], {}, value, error)
    BY <1>10, <2>2 DEF Resume
  <2>4. ValuesKept' /\ UNCHANGED creating
    BY <1>2, <1>10 DEF Resume
  <2> QED BY <1>0, <2>3, <2>4, AnswerOnly DEF Kept
<1>11. ASSUME NEW c \in Ctx, ProviderStores(c) PROVE Kept'
  <2> DEFINE frame == Head(stack[c])
             value == <<frame.guard, c>>
  <2>1. stack[c] # << >> /\ frame.guard \in Name /\ c \notin Scope
    BY <1>0, <1>11, ResolverAssumption DEF ProviderStores, Produce, PcConsistent, Registered
  <2>2. FinishCreation(c, value, "none") /\ MayReach(value, c)
    BY <1>11, <2>1 DEF ProviderStores, MayReach
  <2>3. ValuesKept'
    <3>1. /\ UNCHANGED scopeInstances
          /\ instances' = [instances EXCEPT ![frame.guard] = value]
          /\ \A t \in Type : typeInstances'[t] = typeInstances[t] \/ typeInstances'[t] = value
      BY <1>0, <1>11 DEF ProviderStores, StoredInstances, ResolverTypeOK
    <3> QED BY <1>0, <2>1, <3>1 DEF ValuesKept, ResolverTypeOK
  <2> HIDE DEF value
  <2> QED BY <1>0, <2>1, <2>2, <2>3, FinishKeeps DEF Kept
<1>12. ASSUME NEW c \in Ctx, RelockLate(c) \/ ProviderFails(c) PROVE Kept'
  <2>1. stack[c] # << >> /\ \E error : FinishCreation(c, NoValue, error)
    BY <1>0, <1>12 DEF RelockLate, ProviderFails, PcConsistent
  <2>2. ValuesKept'
    BY <1>2, <1>12 DEF RelockLate, ProviderFails
  <2> QED BY <1>0, <2>1, <2>2, FinishKeeps, NothingReaches DEF Kept
<1>13. ASSUME NEW n \in Name, NEW t, OverrideInstance(n, t) PROVE Kept'
  <2>1. ValuesKept'
    BY <1>0, <1>13, ResolverAssumption DEF OverrideInstance, ValuesKept, ResolverTypeOK
  <2> QED BY <1>1, <1>13, <2>1 DEF OverrideInstance, Kept
<1>14. ASSUME NEW s \in Scope, NEW n, NEW t, ScopeOverrideInstance(s, n, t) \/ ScopeClose(s)
       PROVE  Kept'
  <2>1. \A r \in Scope, k \in Key :
          \/ scopeInstances'[r][k] = scopeInstances[r][k] \/ scopeInstances'[r][k] = NoValue
          \/ (r = s /\ scopeInstances'[r][k] = <<n, s>>)
    BY <1>0, <1>14 DEF ScopeOverrideInstance, ScopeClose, Overlay, ResolverTypeOK
  <2>2. UNCHANGED <<instances, typeInstances, stack, creating, result>>
    BY <1>14 DEF ScopeOverrideInstance, ScopeClose
  <2>3. ValuesKept'
    BY <1>0, <2>1, <2>2 DEF ValuesKept
  <2> QED BY <1>1, <2>2, <2>3 DEF Kept
<1>15. ASSUME NEW x, Close(x) \/ UNCHANGED vars PROVE Kept'
  BY <1>1, <1>2, <1>15 DEF Close, CloseBegin, CloseAgain, CloseValue, CloseEnd, vars, Kept
<1> QED BY <1>3, <1>5, <1>6, <1>7, <1>8, <1>9, <1>10, <1>11, <1>12, <1>13, <1>14, <1>15
     DEF Next, Resolve, Done

LEMMA KeptInit == Init => Kept
BY DEF Init, Kept, StacksKept, ResultsKept, ValuesKept, Keeps, MayReach, Pending

THEOREM KeptInvariance == Spec => []Kept
<1>1. WaitInv /\ Kept /\ [Next]_vars => Kept'
  BY KeptStep
<1> QED BY KeptInit, WaitInvariance, <1>1, PTL DEF Spec

(* What was given to a scope reaches only the resolutions of that scope.   *)
THEOREM ScopedInstancesStayInScopeHolds == Spec => []ScopedInstancesStayInScope
<1>1. Kept => ScopedInstancesStayInScope
  <2> SUFFICES ASSUME Kept, NEW c \in Ctx,
                      NEW v \in {result[c].value} \cup UNION {f.got : f \in Range(stack[c])}
               PROVE  MayReach(v, c)
    BY DEF ScopedInstancesStayInScope, MayReach
  <2>1. \A f \in Range(stack[c]) : \E i \in DOMAIN stack[c] : f = stack[c][i]
    BY DEF Range
  <2> QED BY <2>1 DEF Kept, ResultsKept, StacksKept, Keeps
<1> QED BY KeptInvariance, <1>1, PTL
-----------------------------------------------------------------------------
(* The promise of ServiceRegistry.  A service that is being created has no *)
(* instance yet, a type that is cached stands for one service, and nobody  *)
(* is answered twice.                                                      *)
Untaken == \A n \in Name : creating[n] # NoCtx => instances[n] = NoValue

TypesOfServices == \A t \in Type : typeInstances[t] # NoValue => Len(TypeServices[t]) = 1

Unanswered == \A c \in Ctx : pc[c] # "done" => result[c] = Pending

Promised == Untaken /\ TypesOfServices /\ Unanswered

LEMMA AnswerOnce ==
  ASSUME ResolverTypeOK, Unanswered, NEW c \in Ctx, pc[c] # "done", NEW outer,
         NEW woken, \A d \in woken : pc[d] = "waiting", NEW value, NEW error,
         Answer(c, outer, woken, value, error)
  PROVE  /\ Unanswered'
         /\ result[c] = Pending
         /\ \A answer : answer = [value |-> value, error |-> error] =>
              result' = result \/ result' = [result EXCEPT ![c] = answer]
<1>1. result[c] = Pending
  BY DEF Unanswered
<1>2. ASSUME NEW d \in Ctx, pc'[d] # "done" PROVE result'[d] = Pending
  <2>1. CASE d = c
    <3>1. outer # << >>
      BY <1>2, <2>1 DEF Answer, NextPc
    <3> QED BY <1>1, <2>1, <3>1 DEF Answer
  <2>2. CASE d # c
    <3>1. pc[d] # "done"
      BY <1>2, <2>2 DEF Answer, NextPc
    <3> QED BY <2>2, <3>1 DEF Answer, Unanswered, ResolverTypeOK
  <2> QED BY <2>1, <2>2
<1> QED BY <1>1, <1>2 DEF Answer, Unanswered

(* A step that answers somebody, or nobody, as a step of the registry.     *)
LEMMA Refuses ==
  ASSUME ResolverTypeOK, NEW c \in Ctx, result[c] = Pending,
         NEW error \in Error \ {"none"},
         \/ result' = result
         \/ result' = [result EXCEPT ![c] = [value |-> NoValue, error |-> error]],
         UNCHANGED <<instances, isClosed>>
  PROVE  [Registry!Next]_(Registry!vars)
<1>1. CASE result' = result
  BY <1>1 DEF Registry!vars
<1>2. CASE result' = [result EXCEPT ![c] = [value |-> NoValue, error |-> error]]
  <2>1. [Pending EXCEPT !.error = error] = [value |-> NoValue, error |-> error]
    BY DEF Pending
  <2>2. result' = [result EXCEPT ![c].error = error]
    BY <1>2, <2>1
  <2>3. Registry!Waiting(c)
    BY DEF Registry!Waiting, Pending
  <2>4. UNCHANGED <<instances, ~isClosed>>
    OBVIOUS
  <2>5. Registry!Refuse(c)
    BY <2>2, <2>3, <2>4 DEF Registry!Refuse
  <2> QED BY <2>5 DEF Registry!Next
<1> QED BY <1>1, <1>2

LEMMA Delivers ==
  ASSUME ResolverTypeOK, NEW c \in Ctx, result[c] = Pending, NEW n \in Name,
         instances[n] # NoValue,
         \/ result' = result
         \/ result' = [result EXCEPT ![c] = [value |-> instances[n], error |-> "none"]],
         UNCHANGED <<instances, isClosed>>
  PROVE  [Registry!Next]_(Registry!vars)
<1>1. CASE result' = result
  BY <1>1 DEF Registry!vars
<1>2. CASE result' = [result EXCEPT ![c] = [value |-> instances[n], error |-> "none"]]
  <2>1. [Pending EXCEPT !.value = instances[n]] = [value |-> instances[n], error |-> "none"]
    BY DEF Pending
  <2>2. result' = [result EXCEPT ![c].value = instances[n]]
    BY <1>2, <2>1
  <2>3. Registry!Waiting(c)
    BY DEF Registry!Waiting, Pending
  <2>4. UNCHANGED <<instances, ~isClosed>>
    OBVIOUS
  <2>5. Registry!Deliver(c)
    BY <2>2, <2>3, <2>4 DEF Registry!Deliver, Registry!Returns
  <2> QED BY <2>5 DEF Registry!Next
<1> QED BY <1>1, <1>2

LEMMA Publishes ==
  ASSUME ResolverTypeOK, ValuesKept, NEW c \in Ctx, result[c] = Pending, NEW n \in Name,
         ~isClosed, instances[n] = NoValue,
         instances' = [instances EXCEPT ![n] = <<n, c>>],
         \/ result' = result
         \/ result' = [result EXCEPT ![c] = [value |-> <<n, c>>, error |-> "none"]],
         UNCHANGED isClosed
  PROVE  Registry!Next
<1>1. <<n, c>> \in Value /\ <<n, c>> # NoValue
  BY ResolverAssumption DEF Value
<1>2. \A m \in Name : instances[m] # <<n, c>>
  BY <1>1 DEF ValuesKept
<1>3. result' = result \/ Registry!Returns(c, <<n, c>>)
  <2> SUFFICES ASSUME result' = [result EXCEPT ![c] = [value |-> <<n, c>>, error |-> "none"]]
               PROVE  Registry!Returns(c, <<n, c>>)
    OBVIOUS
  <2>1. [Pending EXCEPT !.value = <<n, c>>] = [value |-> <<n, c>>, error |-> "none"]
    BY DEF Pending
  <2>2. result' = [result EXCEPT ![c].value = <<n, c>>]
    BY <2>1
  <2>3. Registry!Waiting(c)
    BY DEF Registry!Waiting, Pending
  <2> QED BY <2>2, <2>3 DEF Registry!Returns
<1>4. Registry!Publish(n, <<n, c>>)
  BY <1>2, <1>3 DEF Registry!Publish
<1> QED BY <1>1, <1>4 DEF Registry!Next

(* Without overrides and scopes every step of the resolver keeps what the  *)
(* promise rests on, and is a step of the registry or none.                *)
LEMMA PromiseStep ==
  ASSUME Scope = {}, Overridable = {}, WaitInv, Kept, Promised, [Next]_vars
  PROVE  Promised' /\ [Registry!Next]_(Registry!vars)
<1> DEFINE Goal == Promised' /\ [Registry!Next]_(Registry!vars)
<1> USE DEF registryVars, resolverVars, scopeVars, closeVars, historyVars
<1>0. /\ ResolverTypeOK /\ PcConsistent /\ StacksKept /\ ValuesKept /\ Untaken /\ TypesOfServices
      /\ Unanswered /\ stack \in [Ctx -> Seq(Frame)] /\ creating \in [Key -> Ctx \cup {NoCtx}]
      /\ pc \in [Ctx -> {"idle", "entered", "locking", "waiting", "woken", "running",
                        "late", "done"}]
  BY DEF WaitInv, Kept, Promised, ResolverTypeOK
<1>1. ASSUME UNCHANGED <<instances, creating>> PROVE Untaken'
  BY <1>0, <1>1 DEF Untaken
<1>2. ASSUME UNCHANGED typeInstances PROVE TypesOfServices'
  BY <1>0, <1>2 DEF TypesOfServices
<1>3. ASSUME UNCHANGED result, \A d \in Ctx : pc[d] = "done" => pc'[d] = "done"
      PROVE  Unanswered'
  BY <1>0, <1>3 DEF Unanswered
<1>4. ASSUME UNCHANGED <<instances, isClosed, result>> PROVE UNCHANGED Registry!vars
  BY <1>4 DEF Registry!vars
<1>5. ASSUME NEW k \in Key, NEW value, value = Cached(Guard(k)), value # NoValue
      PROVE  \E n \in Name : value = instances[n]
  <2>1. CASE Guard(k) \in Name
    BY <1>5, <2>1 DEF Cached
  <2>2. CASE Guard(k) \notin Name
    <3>1. k \in Type
      BY <2>2 DEF Guard
    <3>2. TypeServices[k] \in Seq(Name)
      BY <3>1, TypeServicesAssumption
    <3>3. Len(TypeServices[k]) # 1
      BY <2>2, <3>1, <3>2 DEF Guard
    <3>4. value = typeInstances[k]
      BY <1>5, <2>2, <3>1, <3>3 DEF Cached, Guard
    <3> QED BY <1>0, <1>5, <3>1, <3>3, <3>4 DEF TypesOfServices
  <2> QED BY <2>1, <2>2
<1>6. ASSUME NEW c \in Ctx, NEW k,
             Request(c, k) \/ ProviderGet(c, k) \/ ProviderGetCircular(c, k) \/ ResolveWait(c)
               \/ ProviderTooLate(c)
      PROVE  Goal
  <2>1. UNCHANGED <<instances, creating, typeInstances, result, isClosed>>
    BY <1>6 DEF Request, Enter, ProviderGet, ProviderGetCircular, ResolveWait, ProviderTooLate
  <2>2. \A d \in Ctx : pc[d] = "done" => pc'[d] = "done"
    BY <1>0, <1>6 DEF Request, Enter, ProviderGet, ProviderGetCircular, ResolveWait, Missing,
      ProviderTooLate, Produce
  <2> QED BY <1>1, <1>2, <1>3, <1>4, <2>1, <2>2 DEF Promised
<1>7. ASSUME NEW c \in Ctx, LookupScope(c) PROVE Goal
  BY <1>0, <1>7 DEF LookupScope, PcConsistent
<1>8. ASSUME NEW c \in Ctx, ResolveAmbiguous(c) \/ ResolveCircular(c) \/ ResolveClosed(c)
      PROVE  Goal
  <2>1. /\ UNCHANGED <<instances, creating, typeInstances, isClosed>> /\ pc[c] # "done"
        /\ \E error \in Error \ {"none"} : Answer(c, stack[c], {}, NoValue, error)
    BY <1>8 DEF ResolveAmbiguous, ResolveCircular, ResolveClosed, Missing, Error
  <2>2. PICK error \in Error \ {"none"} : Answer(c, stack[c], {}, NoValue, error)
    BY <2>1
  <2>3. Unanswered' /\ result[c] = Pending
        /\ (result' = result \/ result' = [result EXCEPT ![c] = [value |-> NoValue, error |-> error]])
    BY <1>0, <2>1, <2>2, AnswerOnce
  <2>4. [Registry!Next]_(Registry!vars)
    BY <1>0, <2>1, <2>2, <2>3, Refuses
  <2> QED BY <1>1, <1>2, <2>1, <2>3, <2>4 DEF Promised
<1>9. ASSUME NEW c \in Ctx, ResolveHit(c) PROVE Goal
  <2> DEFINE value == Cached(Guard(asked[c]))
  <2>1. /\ asked[c] \in Key /\ value # NoValue /\ pc[c] # "done" /\ ~Ambiguous(asked[c])
        /\ UNCHANGED <<instances, creating, isClosed>> /\ Answer(c, stack[c], {}, value, "none")
    BY <1>0, <1>9 DEF ResolveHit, PcConsistent
  <2>2. PICK n \in Name : value = instances[n]
    BY <1>5, <2>1
  <2>3. TypesOfServices'
    <3> SUFFICES ASSUME NEW t \in Type, typeInstances'[t] # NoValue, typeInstances[t] = NoValue
                 PROVE  Len(TypeServices[t]) = 1
      BY <1>0 DEF TypesOfServices
    <3>1. t = asked[c]
      BY <1>0, <1>9 DEF ResolveHit, ResolverTypeOK
    <3>2. Cached(Guard(t)) # NoValue
      BY <2>1, <3>1
    <3> QED BY <3>2 DEF Cached, Guard
  <2> HIDE DEF value
  <2>4. Unanswered' /\ result[c] = Pending
        /\ (result' = result \/ result' = [result EXCEPT ![c] = [value |-> value, error |-> "none"]])
    BY <1>0, <2>1, AnswerOnce
  <2>5. [Registry!Next]_(Registry!vars)
    BY <1>0, <2>1, <2>2, <2>4, Delivers
  <2> QED BY <1>1, <2>1, <2>3, <2>4, <2>5 DEF Promised
<1>10. ASSUME NEW c \in Ctx, ResolveCreate(c) PROVE Goal
  <2>1. /\ UNCHANGED <<instances, typeInstances, result, isClosed>>
        /\ \A d \in Ctx : pc[d] = "done" => pc'[d] = "done"
        /\ creating' = [creating EXCEPT ![Guard(asked[c])] = c]
        /\ Cached(Guard(asked[c])) = NoValue
    BY <1>0, <1>10 DEF ResolveCreate, Missing
  <2>2. Untaken'
    BY <1>0, <2>1 DEF Untaken, Cached
  <2> QED BY <1>2, <1>3, <1>4, <2>1, <2>2 DEF Promised
<1>11. ASSUME NEW c \in Ctx, Resume(c) PROVE Goal
  <2> DEFINE value == Cached(Guard(asked[c]))
             error == IF wakeErr[c] # "none" THEN wakeErr[c]
                      ELSE IF value = NoValue THEN "unavailable" ELSE "none"
             given == IF error = "none" THEN value ELSE NoValue
  <2>1. /\ asked[c] \in Key /\ pc[c] # "done" /\ UNCHANGED <<instances, creating, typeInstances, isClosed>>
        /\ Answer(c, stack[c], {}, given, error)
    BY <1>0, <1>11 DEF Resume, PcConsistent
  <2>2. error \in Error /\ (error = "none" => value # NoValue)
    BY <1>0 DEF ResolverTypeOK, Error
  <2>3. /\ error = "none" => \E n \in Name : given = instances[n] /\ given # NoValue
        /\ error # "none" => given = NoValue
    BY <1>5, <2>1, <2>2
  <2> HIDE DEF value, error, given
  <2>4. Unanswered' /\ result[c] = Pending
        /\ (result' = result \/ result' = [result EXCEPT ![c] = [value |-> given, error |-> error]])
    BY <1>0, <2>1, AnswerOnce
  <2>5. CASE error = "none"
    <3>1. PICK n \in Name : given = instances[n] /\ given # NoValue
      BY <2>3, <2>5
    <3>2. [Registry!Next]_(Registry!vars)
      BY <1>0, <2>1, <2>4, <2>5, <3>1, Delivers
    <3> QED BY <1>1, <1>2, <2>1, <2>4, <3>2 DEF Promised
  <2>6. CASE error # "none"
    <3>1. [Registry!Next]_(Registry!vars)
      BY <1>0, <2>1, <2>2, <2>3, <2>4, <2>6, Refuses
    <3> QED BY <1>1, <1>2, <2>1, <2>4, <3>1 DEF Promised
  <2> QED BY <2>5, <2>6
<1>12. ASSUME NEW c \in Ctx, pc[c] # "done", stack[c] # << >>, NEW value, NEW error,
              FinishCreation(c, value, error)
       PROVE  /\ Unanswered' /\ result[c] = Pending
              /\ \/ result' = result
                 \/ result' = [result EXCEPT ![c] = [value |-> value, error |-> error]]
              /\ creating' = [creating EXCEPT ![Head(stack[c]).guard] = NoCtx]
              /\ creating[Head(stack[c]).guard] = c
  <2>1. Head(stack[c]) = stack[c][1] /\ 1 \in DOMAIN stack[c]
    BY <1>0, <1>12
  <2>2. creating[Head(stack[c]).guard] = c
    BY <1>0, <2>1 DEF StacksKept, Keeps
  <2>3. \A d \in WaitingFor(Head(stack[c]).guard) : pc[d] = "waiting"
    BY DEF WaitingFor
  <2>4. PICK woken, outer : (\A d \in woken : pc[d] = "waiting") /\ Answer(c, outer, woken, value, error)
    BY <1>12, <2>3 DEF FinishCreation
  <2>5. /\ Unanswered' /\ result[c] = Pending
        /\ \A answer : answer = [value |-> value, error |-> error] =>
             result' = result \/ result' = [result EXCEPT ![c] = answer]
    <3> HIDE DEF Goal
    <3>1. ResolverTypeOK /\ Unanswered /\ pc[c] # "done"
      BY <1>0, <1>12
    <3> QED BY <3>1, <2>4, AnswerOnce
  <2>6. creating' = [creating EXCEPT ![Head(stack[c]).guard] = NoCtx]
    BY <1>12 DEF FinishCreation
  <2> QED BY <2>2, <2>5, <2>6
<1>13. ASSUME NEW c \in Ctx, ProviderStores(c) PROVE Goal
  <2> DEFINE frame == Head(stack[c])
             n == frame.guard
             value == <<n, c>>
  <2>1. /\ stack[c] # << >> /\ n \in Name /\ pc[c] # "done" /\ ~isClosed /\ UNCHANGED isClosed
        /\ FinishCreation(c, value, "none")
        /\ instances' = [instances EXCEPT ![n] = value]
    BY <1>0, <1>13 DEF ProviderStores, Produce, PcConsistent, Registered, TooLate, StoredInstances
  <2>2. Head(stack[c]) = stack[c][1] /\ 1 \in DOMAIN stack[c] /\ frame \in Frame
    BY <1>0, <2>1
  <2>3. n = Guard(frame.key) /\ frame.key \in Key
    BY <1>0, <2>2 DEF StacksKept, Keeps, Frame
  <2>4. TypesOfServices'
    <3> SUFFICES ASSUME NEW t \in Type, typeInstances'[t] # NoValue, typeInstances[t] = NoValue
                 PROVE  Len(TypeServices[t]) = 1
      BY <1>0 DEF TypesOfServices
    <3>1. t = frame.key
      BY <1>0, <1>13 DEF ProviderStores, ResolverTypeOK
    <3> QED BY <2>1, <2>3, <3>1 DEF Guard
  <2> HIDE DEF value, n, frame
  <2>5. /\ Unanswered' /\ result[c] = Pending
        /\ (result' = result \/ result' = [result EXCEPT ![c] = [value |-> value, error |-> "none"]])
        /\ creating' = [creating EXCEPT ![n] = NoCtx] /\ creating[n] = c
    BY <1>12, <2>1 DEF frame, n
  <2>6. instances[n] = NoValue
    BY <1>0, <2>1, <2>5, ResolverAssumption DEF Untaken
  <2>7. Untaken'
    BY <1>0, <2>1, <2>5 DEF Untaken, ResolverTypeOK
  <2>8. Registry!Next
    BY <1>0, <2>1, <2>5, <2>6, Publishes DEF value
  <2> QED BY <2>4, <2>5, <2>7, <2>8 DEF Promised
<1>14. ASSUME NEW c \in Ctx, RelockLate(c) \/ ProviderFails(c) PROVE Goal
  <2>1. stack[c] # << >> /\ stack[c] \in Seq(Frame) /\ Head(stack[c]) \in Frame
    BY <1>0, <1>14 DEF RelockLate, ProviderFails, PcConsistent
  <2>2. /\ pc[c] # "done" /\ UNCHANGED <<instances, typeInstances, isClosed>>
        /\ \E error \in Error \ {"none"} : FinishCreation(c, NoValue, error)
    BY <1>14, <2>1 DEF RelockLate, ProviderFails, Frame, Error
  <2>3. PICK error \in Error \ {"none"} : FinishCreation(c, NoValue, error)
    BY <2>2
  <2>4. /\ Unanswered' /\ result[c] = Pending
        /\ (result' = result \/ result' = [result EXCEPT ![c] = [value |-> NoValue, error |-> error]])
        /\ creating' = [creating EXCEPT ![Head(stack[c]).guard] = NoCtx]
    BY <1>12, <2>1, <2>2, <2>3
  <2>5. Untaken'
    BY <1>0, <2>2, <2>4 DEF Untaken
  <2>6. [Registry!Next]_(Registry!vars)
    BY <1>0, <2>2, <2>4, Refuses
  <2> QED BY <1>2, <2>2, <2>4, <2>5, <2>6 DEF Promised
<1>15. ASSUME NEW x, Close(x) PROVE Goal
  <2>1. UNCHANGED <<instances, creating, typeInstances, result, pc>>
        /\ (isClosed' = isClosed \/ isClosed' = TRUE)
    BY <1>15 DEF Close, CloseBegin, CloseAgain, CloseValue, CloseEnd
  <2>2. isClosed' = TRUE => Registry!Close
    BY <2>1 DEF Registry!Close
  <2>3. [Registry!Next]_(Registry!vars)
    BY <1>4, <2>1, <2>2 DEF Registry!Next
  <2> QED BY <1>1, <1>2, <1>3, <2>1, <2>3 DEF Promised
<1>16. ASSUME UNCHANGED vars PROVE Goal
  BY <1>1, <1>2, <1>3, <1>4, <1>16 DEF vars, Promised
<1>17. ASSUME NEW n, NEW t, OverrideInstance(n, t) PROVE Goal
  BY <1>17 DEF OverrideInstance
<1> HIDE DEF Goal
<1>18. ASSUME NEW s \in Scope PROVE Goal
  OBVIOUS
<1>19. ASSUME NEW c \in Ctx, (\E k \in Key : Request(c, k)) \/ Resolve(c) PROVE Goal
  BY <1>19, <1>6, <1>7, <1>8, <1>9, <1>10, <1>11, <1>13, <1>14 DEF Resolve
<1>20. Goal
  BY <1>15, <1>16, <1>17, <1>18, <1>19 DEF Next, Done
<1> QED BY <1>20 DEF Goal

LEMMA PromiseInit == Init => Promised /\ Registry!Init
BY DEF Init, Promised, Untaken, TypesOfServices, Unanswered, Registry!Init, Pending

(* Without overrides and scopes the container keeps the promise of         *)
(* ServiceRegistry, for any services, types, dependencies and callers.     *)
THEOREM ResolverImplementsRegistry ==
  ASSUME Scope = {}, Overridable = {} PROVE Spec => ImplementsRegistry
<1>1. WaitInv /\ Kept /\ Promised /\ [Next]_vars => Promised' /\ [Registry!Next]_(Registry!vars)
  BY PromiseStep
<1> QED
  BY PromiseInit, WaitInvariance, KeptInvariance, <1>1, PTL DEF Spec, ImplementsRegistry, Registry!Spec
-----------------------------------------------------------------------------
(* Every set of numbers has a least one: induction for what follows.       *)
LEMMA Least ==
  ASSUME NEW T \in SUBSET Nat, T # {}
  PROVE  \E m \in T : \A n \in T : m <= n
<1>1. IsWellFoundedOn(OpToRel(<, Nat), Nat)
  BY NatLessThanWellFounded
<1>2. PICK m \in T : \A n \in T : ~ (<<n, m>> \in OpToRel(<, Nat))
  BY <1>1, WFMin
<1>3. \A n \in T : ~ (n < m)
  BY <1>2 DEF OpToRel
<1> QED BY <1>3

LEMMA MinIsLeast ==
  ASSUME NEW T \in SUBSET Nat, T # {}
  PROVE  Min(T) \in T /\ \A n \in T : Min(T) <= n
BY Least DEF Min

(* Removing an element of a finite set.                                    *)
LEMMA OneFewer ==
  ASSUME NEW S, IsFiniteSet(S), NEW k \in S
  PROVE  /\ IsFiniteSet(S \ {k}) /\ Cardinality(S) \in Nat
         /\ Cardinality(S \ {k}) = Cardinality(S) - 1
         /\ Cardinality(S \ {k}) \in Nat
<1>1. IsFiniteSet(S \ {k}) /\ Cardinality(S \ {k}) = Cardinality(S) - 1
  BY FS_RemoveElement
<1> QED BY <1>1, FS_CardinalityType

(* The heap yields the largest key: every nonempty set of keys has one.    *)
LEMMA Bounded ==
  ASSUME NEW keys \in SUBSET Key
  PROVE  \E m \in Nat : \A k \in keys : KeyRank[k] <= m
<1> DEFINE Unbounded(S) == ~ \E m \in Nat : \A k \in S : KeyRank[k] <= m
           T == {n \in Nat : \E S \in SUBSET Key : Cardinality(S) = n /\ Unbounded(S)}
<1> SUFFICES ASSUME Unbounded(keys) PROVE FALSE
  OBVIOUS
<1>0. \A S \in SUBSET Key : IsFiniteSet(S) /\ Cardinality(S) \in Nat
  BY FinitelyManyKeys, FS_Subset, FS_CardinalityType
<1>1. T # {}
  BY <1>0
<1>2. PICK n \in T : \A i \in T : n <= i
  BY <1>1, Least
<1>3. PICK S \in SUBSET Key : Cardinality(S) = n /\ Unbounded(S)
  OBVIOUS
<1>4. S # {}
  BY <1>3
<1>5. PICK k \in S : TRUE
  BY <1>4
<1>6. Cardinality(S \ {k}) \in Nat /\ Cardinality(S \ {k}) < n
  BY <1>0, <1>3, OneFewer
<1>7. ~Unbounded(S \ {k})
  BY <1>2, <1>6
<1>8. PICK m \in Nat : \A j \in S \ {k} : KeyRank[j] <= m
  BY <1>7
<1>9. KeyRank[k] \in Nat /\ \A j \in S : KeyRank[j] \in Nat
  BY KeyRankAssumption
<1>10. \A j \in S : KeyRank[j] <= m + KeyRank[k]
  BY <1>8, <1>9
<1> QED BY <1>3, <1>9, <1>10

LEMMA LargestIn ==
  ASSUME NEW keys \in SUBSET Key, keys # {}
  PROVE  Largest(keys) \in keys
<1>1. PICK m \in Nat : \A k \in keys : KeyRank[k] <= m
  BY Bounded
<1>2. \A k \in keys : KeyRank[k] \in Nat
  BY KeyRankAssumption
<1> DEFINE T == {i \in Nat : \E k \in keys : i = m - KeyRank[k]}
<1>3. T # {}
  <2>1. PICK k \in keys : TRUE
    OBVIOUS
  <2>2. m - KeyRank[k] \in T
    BY <1>1, <1>2
  <2> QED BY <2>2
<1>4. PICK i \in T : \A j \in T : i <= j
  BY <1>3, Least
<1>5. PICK k \in keys : i = m - KeyRank[k]
  OBVIOUS
<1>6. \A j \in keys \ {k} : KeyRank[k] > KeyRank[j]
  <2> TAKE j \in keys \ {k}
  <2>1. m - KeyRank[j] \in T
    BY <1>1, <1>2
  <2>2. KeyRank[j] # KeyRank[k]
    BY KeyRankAssumption
  <2> QED BY <1>2, <1>4, <1>5, <2>1, <2>2
<1> QED BY <1>6 DEF Largest, Above
-----------------------------------------------------------------------------
(* f takes one element at a time out of a set until it meets a set of      *)
(* `stop`.                                                                 *)
Drains(f, keys, stop, base, first) ==
  f = [rest \in SUBSET keys |-> IF rest \in stop THEN base[rest]
                                ELSE <<first[rest]>> \o f[rest \ {first[rest]}]]

(* Such a recursive function on a finite set exists: it is built up by     *)
(* cardinality.                                                            *)
LEMMA DrainExists ==
  ASSUME NEW keys, IsFiniteSet(keys), NEW stop, NEW base, NEW first, {} \in stop,
         \A rest \in SUBSET keys : rest \notin stop => first[rest] \in rest
  PROVE  \E f : Drains(f, keys, stop, base, first)
<1> DEFINE Step(f, rest) == IF rest \in stop THEN base[rest]
                            ELSE <<first[rest]>> \o f[rest \ {first[rest]}]
           Solves(f, n) == \A rest \in SUBSET keys : Cardinality(rest) <= n => f[rest] = Step(f, rest)
           T == {n \in Nat : ~ \E f : Solves(f, n)}
<1>0. \A rest \in SUBSET keys : IsFiniteSet(rest) /\ Cardinality(rest) \in Nat
                                 /\ Cardinality(rest) <= Cardinality(keys)
  BY FS_Subset, FS_CardinalityType
<1>1. \A rest \in SUBSET keys : rest \notin stop =>
         /\ rest \ {first[rest]} \in SUBSET keys
         /\ Cardinality(rest \ {first[rest]}) \in Nat
         /\ Cardinality(rest \ {first[rest]}) < Cardinality(rest)
  BY <1>0, OneFewer
<1>2. \E f : Solves(f, 0)
  <2> DEFINE f == [rest \in SUBSET keys |-> base[rest]]
  <2>1. \A rest \in SUBSET keys : Cardinality(rest) <= 0 => rest = {}
    BY <1>0, FS_EmptySet
  <2>2. Solves(f, 0)
    BY <2>1
  <2> HIDE DEF Solves, f
  <2> QED BY <2>2
<1>3. ASSUME NEW n \in Nat, NEW g, Solves(g, n)
      PROVE  \E f : Solves(f, n + 1)
  <2> DEFINE f == [rest \in SUBSET keys |->
                     IF Cardinality(rest) <= n THEN g[rest] ELSE Step(g, rest)]
  <2>1. ASSUME NEW rest \in SUBSET keys, rest \notin stop, Cardinality(rest) <= n + 1
        PROVE  f[rest \ {first[rest]}] = g[rest \ {first[rest]}]
    <3>1. Cardinality(rest \ {first[rest]}) <= n
      BY <1>0, <1>1, <2>1
    <3> QED BY <1>1, <2>1, <3>1
  <2>2. ASSUME NEW rest \in SUBSET keys, Cardinality(rest) <= n + 1
        PROVE  f[rest] = Step(f, rest)
    <3>1. Step(f, rest) = Step(g, rest)
      <4> HIDE DEF f
      <4> QED BY <2>1, <2>2
    <3>2. Cardinality(rest) <= n => g[rest] = Step(g, rest)
      BY <1>3
    <3>3. f[rest] = IF Cardinality(rest) <= n THEN g[rest] ELSE Step(g, rest)
      BY <2>2
    <3> HIDE DEF f, Step
    <3> QED BY <3>1, <3>2, <3>3
  <2>3. Solves(f, n + 1)
    <3> HIDE DEF f, Step
    <3> QED BY <2>2
  <2> HIDE DEF Solves, f
  <2> QED BY <2>3
<1>4. T = {}
  <2> SUFFICES ASSUME T # {} PROVE FALSE
    OBVIOUS
  <2>0. T \in SUBSET Nat
    OBVIOUS
  <2>1. PICK n \in T : \A m \in T : n <= m
    BY <2>0, Least
  <2> HIDE DEF Solves
  <2>2. n # 0 /\ n \in Nat
    BY <1>2
  <2>3. n - 1 \in Nat /\ n - 1 \notin T
    BY <2>1, <2>2
  <2>4. PICK g : Solves(g, n - 1)
    BY <2>3
  <2>5. \E f : Solves(f, (n - 1) + 1)
    BY <1>3, <2>3, <2>4
  <2>6. (n - 1) + 1 = n
    BY <2>2
  <2> QED BY <2>5, <2>6
<1>5. PICK g : Solves(g, Cardinality(keys))
  <2> HIDE DEF Solves
  <2> QED BY <1>0, <1>4
<1>6. \A rest \in SUBSET keys : g[rest] = Step(g, rest)
  <2> HIDE DEF Step
  <2> QED BY <1>0, <1>5
<1> DEFINE f == [rest \in SUBSET keys |-> g[rest]]
<1>7. \A rest \in SUBSET keys : f[rest] = Step(f, rest)
  <2> TAKE rest \in SUBSET keys
  <2>1. Step(f, rest) = Step(g, rest)
    BY <1>1
  <2> HIDE DEF Step
  <2> QED BY <1>6, <2>1
<1>8. f = [rest \in SUBSET keys |-> Step(f, rest)]
  <2> HIDE DEF Step
  <2> QED BY <1>7
<1>9. Drains(f, keys, stop, base, first)
  <2> HIDE DEF f
  <2> QED BY <1>8 DEF Drains
<1> HIDE DEF f
<1> QED BY <1>9

(* The defining equations of the two recursions of Close.                  *)
LEMMA CycleTailEquation ==
  ASSUME NEW keys \in SUBSET Key
  PROVE  \E tail :
           /\ CycleTail(keys) = tail[keys]
           /\ \A rest \in SUBSET keys :
                tail[rest] = IF rest = {} THEN << >>
                             ELSE <<Largest(rest)>> \o tail[rest \ {Largest(rest)}]
<1> DEFINE Body(f) == [rest \in SUBSET keys |->
                         IF rest = {} THEN << >>
                         ELSE <<Largest(rest)>> \o f[rest \ {Largest(rest)}]]
           stop == {{}}
           base == [rest \in SUBSET keys |-> << >>]
           first == [rest \in SUBSET keys |-> Largest(rest)]
           tail == CHOOSE f : f = Body(f)
<1>1. IsFiniteSet(keys)
  BY FinitelyManyKeys, FS_Subset
<1>2. \A rest \in SUBSET keys : rest \notin stop => first[rest] \in rest
  BY LargestIn
<1>3. PICK f : Drains(f, keys, stop, base, first)
  <2>1. {} \in stop
    OBVIOUS
  <2> HIDE DEF stop, base, first
  <2> QED BY <1>1, <1>2, <2>1, DrainExists, Zenon
<1>4. f = Body(f)
  BY <1>3 DEF Drains
<1>5. tail = Body(tail)
  <2> HIDE DEF Body
  <2> QED BY <1>4
<1>6. CycleTail(keys) = tail[keys]
  BY DEF CycleTail
<1> HIDE DEF tail
<1>7. \A rest \in SUBSET keys : tail[rest] = Body(tail)[rest]
  <2> HIDE DEF Body
  <2> QED BY <1>5
<1> QED BY <1>6, <1>7

LEMMA KahnOrderEquation ==
  ASSUME NEW keys \in SUBSET Key, NEW edges
  PROVE  \E order :
           /\ KahnOrder(keys, edges) = order[keys]
           /\ \A rest \in SUBSET keys :
                order[rest] =
                  IF Available(rest, edges) = {} THEN CycleTail(rest)
                  ELSE <<Largest(Available(rest, edges))>>
                         \o order[rest \ {Largest(Available(rest, edges))}]
<1> DEFINE Body(f) == [rest \in SUBSET keys |->
                         IF Available(rest, edges) = {} THEN CycleTail(rest)
                         ELSE <<Largest(Available(rest, edges))>>
                                \o f[rest \ {Largest(Available(rest, edges))}]]
           stop == {rest \in SUBSET keys : Available(rest, edges) = {}}
           base == [rest \in SUBSET keys |-> CycleTail(rest)]
           first == [rest \in SUBSET keys |-> Largest(Available(rest, edges))]
           order == CHOOSE f : f = Body(f)
<1>1. IsFiniteSet(keys)
  BY FinitelyManyKeys, FS_Subset
<1>2. \A rest \in SUBSET keys : rest \notin stop => first[rest] \in rest
  <2> TAKE rest \in SUBSET keys
  <2>1. Available(rest, edges) \subseteq rest /\ Available(rest, edges) \in SUBSET Key
    BY DEF Available
  <2> QED BY <2>1, LargestIn
<1>3. {} \in stop
  BY DEF Available
<1>4. PICK f : Drains(f, keys, stop, base, first)
  <2> HIDE DEF stop, base, first
  <2> QED BY <1>1, <1>2, <1>3, DrainExists, Zenon
<1>5. f = Body(f)
  BY <1>4 DEF Drains
<1>6. order = Body(order)
  <2> HIDE DEF Body
  <2> QED BY <1>5
<1>7. KahnOrder(keys, edges) = order[keys]
  BY DEF KahnOrder, NextOf
<1> HIDE DEF order
<1>8. \A rest \in SUBSET keys : order[rest] = Body(order)[rest]
  <2> HIDE DEF Body
  <2> QED BY <1>6
<1> QED BY <1>7, <1>8
-----------------------------------------------------------------------------
(* s names each member of keys once.                                       *)
Lists(s, keys) ==
  /\ s \in Seq(keys)
  /\ \A k \in keys : \E i \in 1..Len(s) : s[i] = k
  /\ \A i, j \in 1..Len(s) : s[i] = s[j] => i = j

Precedes(s, x, y) == \E i, j \in 1..Len(s) : i < j /\ s[i] = x /\ s[j] = y

LEMMA ListsNothing == Lists(<< >>, {})
BY DEF Lists

LEMMA ListsFirst ==
  ASSUME NEW keys, NEW k \in keys, NEW s, Lists(s, keys \ {k})
  PROVE  /\ Lists(<<k>> \o s, keys)
         /\ \A y \in keys \ {k} : Precedes(<<k>> \o s, k, y)
         /\ \A x, y : Precedes(s, x, y) => Precedes(<<k>> \o s, x, y)
<1> DEFINE t == <<k>> \o s
<1>1. s \in Seq(keys \ {k}) /\ s \in Seq(keys) /\ Len(s) \in Nat
  BY DEF Lists
<1>2. t \in Seq(keys) /\ Len(t) = Len(s) + 1
  BY <1>1
<1>3. t[1] = k /\ \A i \in 1..Len(s) : t[i + 1] = s[i]
  BY <1>1
<1>4. \A i \in 2..Len(t) : i - 1 \in 1..Len(s) /\ t[i] = s[i - 1] /\ t[i] # k
  <2> TAKE i \in 2..Len(t)
  <2>1. i - 1 \in 1..Len(s) /\ (i - 1) + 1 = i
    BY <1>1, <1>2
  <2>2. s[i - 1] \in keys \ {k}
    BY <1>1, <2>1
  <2> HIDE DEF t
  <2> QED BY <1>3, <2>1, <2>2
<1> HIDE DEF t
<1>5. \A y \in keys \ {k} : \E i \in 1..Len(s) : s[i] = y
  BY DEF Lists
<1>6. \A y \in keys \ {k} : \E i \in 2..Len(t) : t[i] = y
  <2> TAKE y \in keys \ {k}
  <2>1. PICK i \in 1..Len(s) : s[i] = y
    BY <1>5
  <2>2. i + 1 \in 2..Len(t)
    BY <1>1, <1>2
  <2> QED BY <1>3, <2>1, <2>2
<1>7. Lists(t, keys)
  <2>1. \A y \in keys : \E i \in 1..Len(t) : t[i] = y
    <3>1. 1 \in 1..Len(t) /\ \A i \in 2..Len(t) : i \in 1..Len(t)
      BY <1>1, <1>2
    <3> QED BY <1>3, <1>6, <3>1
  <2>2. ASSUME NEW i \in 1..Len(t), NEW j \in 1..Len(t), t[i] = t[j] PROVE i = j
    <3>1. i = 1 \/ i \in 2..Len(t)
      BY <1>1, <1>2
    <3>2. j = 1 \/ j \in 2..Len(t)
      BY <1>1, <1>2
    <3>3. CASE i \in 2..Len(t) /\ j \in 2..Len(t)
      <4>1. s[i - 1] = s[j - 1] /\ i - 1 \in 1..Len(s) /\ j - 1 \in 1..Len(s)
        BY <1>4, <2>2, <3>3
      <4>2. i - 1 = j - 1
        BY <4>1 DEF Lists
      <4> QED BY <3>3, <4>2
    <3> QED BY <1>3, <1>4, <2>2, <3>1, <3>2, <3>3
  <2> QED BY <1>2, <2>1, <2>2 DEF Lists
<1>8. ASSUME NEW y \in keys \ {k} PROVE Precedes(t, k, y)
  <2>1. PICK i \in 2..Len(t) : t[i] = y
    BY <1>6
  <2>2. 1 \in 1..Len(t) /\ i \in 1..Len(t) /\ 1 < i
    BY <1>1, <1>2
  <2> QED BY <1>3, <2>1, <2>2 DEF Precedes
<1>9. ASSUME NEW x, NEW y, Precedes(s, x, y) PROVE Precedes(t, x, y)
  <2>1. PICK i \in 1..Len(s), j \in 1..Len(s) : i < j /\ s[i] = x /\ s[j] = y
    BY <1>9 DEF Precedes
  <2>2. i + 1 \in 1..Len(t) /\ j + 1 \in 1..Len(t) /\ i + 1 < j + 1
    BY <1>1, <1>2, <2>1
  <2> QED BY <1>3, <2>1, <2>2 DEF Precedes
<1> QED BY <1>7, <1>8, <1>9 DEF t

(* Sorting what is left on a cycle neither drops nor repeats a key.        *)
LEMMA CycleTailLists ==
  ASSUME NEW keys \in SUBSET Key
  PROVE  Lists(CycleTail(keys), keys)
<1>1. PICK tail :
        /\ CycleTail(keys) = tail[keys]
        /\ \A rest \in SUBSET keys :
             tail[rest] = IF rest = {} THEN << >>
                          ELSE <<Largest(rest)>> \o tail[rest \ {Largest(rest)}]
  BY CycleTailEquation
<1> DEFINE T == {n \in Nat : \E rest \in SUBSET keys : Cardinality(rest) = n
                                                       /\ ~Lists(tail[rest], rest)}
<1>2. \A rest \in SUBSET keys : IsFiniteSet(rest) /\ Cardinality(rest) \in Nat
  BY FinitelyManyKeys, FS_Subset, FS_CardinalityType
<1>3. T = {}
  <2> SUFFICES ASSUME T # {} PROVE FALSE
    OBVIOUS
  <2>1. PICK n \in T : \A m \in T : n <= m
    <3> T \in SUBSET Nat
      OBVIOUS
    <3> HIDE DEF T
    <3> QED BY Least
  <2>2. PICK rest \in SUBSET keys : Cardinality(rest) = n /\ ~Lists(tail[rest], rest)
    OBVIOUS
  <2>3. rest # {}
    BY <1>1, <2>2, ListsNothing
  <2>4. Largest(rest) \in rest
    BY <2>3, LargestIn
  <2>5. Cardinality(rest \ {Largest(rest)}) \in Nat /\ Cardinality(rest \ {Largest(rest)}) < n
    BY <1>2, <2>2, <2>4, OneFewer
  <2>6. Lists(tail[rest \ {Largest(rest)}], rest \ {Largest(rest)})
    <3>1. Cardinality(rest \ {Largest(rest)}) \notin T
      BY <2>1, <2>5
    <3> QED BY <2>5, <3>1
  <2>7. Lists(<<Largest(rest)>> \o tail[rest \ {Largest(rest)}], rest)
    BY <2>4, <2>6, ListsFirst
  <2> QED BY <1>1, <2>2, <2>3, <2>7
<1>4. Lists(tail[keys], keys)
  BY <1>2, <1>3
<1> QED BY <1>1, <1>4

(* Kahn's algorithm lists each key once, cycle or not; and when no set of  *)
(* keys keeps every in-degree above zero, it lists the source of an edge   *)
(* before the target.                                                      *)
LEMMA KahnOrderSorts ==
  ASSUME NEW keys \in SUBSET Key, NEW edges
  PROVE  /\ Lists(KahnOrder(keys, edges), keys)
         /\ ~CycleAmong(keys, edges) =>
              \A x, y \in keys : <<x, y>> \in edges => Precedes(KahnOrder(keys, edges), x, y)
<1> DEFINE ready(rest) == Available(rest, edges)
           Sorted(s, rest) ==
             /\ Lists(s, rest)
             /\ ~CycleAmong(keys, edges) =>
                  \A x, y \in rest : <<x, y>> \in edges => Precedes(s, x, y)
<1>1. PICK order :
        /\ KahnOrder(keys, edges) = order[keys]
        /\ \A rest \in SUBSET keys :
             order[rest] = IF ready(rest) = {} THEN CycleTail(rest)
                           ELSE <<Largest(ready(rest))>> \o order[rest \ {Largest(ready(rest))}]
  BY KahnOrderEquation
<1> DEFINE T == {n \in Nat : \E rest \in SUBSET keys : Cardinality(rest) = n
                                                       /\ ~Sorted(order[rest], rest)}
<1>2. \A rest \in SUBSET keys : IsFiniteSet(rest) /\ Cardinality(rest) \in Nat
  BY FinitelyManyKeys, FS_Subset, FS_CardinalityType
<1>3. T = {}
  <2> SUFFICES ASSUME T # {} PROVE FALSE
    OBVIOUS
  <2>1. PICK n \in T : \A m \in T : n <= m
    <3> T \in SUBSET Nat
      OBVIOUS
    <3> HIDE DEF T
    <3> QED BY Least
  <2>2. PICK rest \in SUBSET keys : Cardinality(rest) = n /\ ~Sorted(order[rest], rest)
    OBVIOUS
  <2>3. CASE ready(rest) = {}
    <3>1. order[rest] = CycleTail(rest) /\ Lists(CycleTail(rest), rest)
      BY <1>1, <2>3, CycleTailLists
    <3>2. rest # {} => CycleAmong(keys, edges)
      BY <2>3 DEF CycleAmong
    <3> QED BY <2>2, <3>1, <3>2
  <2>4. CASE ready(rest) # {}
    <3> DEFINE k == Largest(ready(rest))
               left == rest \ {k}
    <3>1. k \in ready(rest)
      <4>1. ready(rest) \in SUBSET Key
        BY DEF Available
      <4> QED BY <2>4, <4>1, LargestIn
    <3>2. k \in rest /\ \A j \in rest : <<j, k>> \notin edges
      BY <3>1 DEF Available
    <3>3. Cardinality(left) \in Nat /\ Cardinality(left) < n
      BY <1>2, <2>2, <3>2, OneFewer
    <3>4. order[rest] = <<k>> \o order[left]
      BY <1>1, <2>4
    <3> HIDE DEF k, ready
    <3>5. Sorted(order[left], left)
      <4>1. Cardinality(left) \notin T
        BY <2>1, <3>3
      <4> HIDE DEF Sorted
      <4> QED BY <3>3, <4>1
    <3>6. /\ Lists(<<k>> \o order[left], rest)
          /\ \A y \in rest \ {k} : Precedes(<<k>> \o order[left], k, y)
          /\ \A x, y : Precedes(order[left], x, y) => Precedes(<<k>> \o order[left], x, y)
      BY <3>2, <3>5, ListsFirst
    <3>7. ASSUME ~CycleAmong(keys, edges), NEW x \in rest, NEW y \in rest, <<x, y>> \in edges
          PROVE  Precedes(<<k>> \o order[left], x, y)
      <4>1. y # k
        BY <3>2, <3>7
      <4>2. CASE x = k
        BY <3>6, <4>1, <4>2
      <4>3. CASE x # k
        BY <3>5, <3>6, <3>7, <4>1, <4>3
      <4> QED BY <4>2, <4>3
    <3>8. Sorted(order[rest], rest)
      BY <3>4, <3>6, <3>7
    <3> QED BY <2>2, <3>8
  <2> QED BY <2>3, <2>4
<1>4. Sorted(order[keys], keys)
  <2> HIDE DEF Sorted
  <2> QED BY <1>2, <1>3
<1> QED BY <1>1, <1>4
-----------------------------------------------------------------------------
(* The representative of a service is a created service with its instance, *)
(* and one for all the services that share it.                             *)
LEMMA ServiceRepresentatives ==
  ASSUME NEW created \in SUBSET Key, NEW value, NEW hasIdentity, NEW n \in created \cap Name
  PROVE  LET r == ServiceRepresentative(created, value, hasIdentity, n)
         IN  /\ r \in created \cap Name
             /\ SameInstance(value, hasIdentity, r, n)
             /\ \A m \in created \cap Name : SameInstance(value, hasIdentity, m, n) =>
                  ServiceRepresentative(created, value, hasIdentity, m) = r
<1> DEFINE Sharing(m) == {j \in created \cap Name : SameInstance(value, hasIdentity, j, m)}
<1>1. n \in Sharing(n) /\ Sharing(n) \in SUBSET Key
  BY DEF SameInstance
<1>2. Largest(Sharing(n)) \in Sharing(n)
  <2> HIDE DEF Sharing
  <2> QED BY <1>1, LargestIn
<1>3. \A m \in created \cap Name : SameInstance(value, hasIdentity, m, n) => Sharing(m) = Sharing(n)
  BY DEF SameInstance
<1>4. \A m : ServiceRepresentative(created, value, hasIdentity, m) = Largest(Sharing(m))
  BY DEF ServiceRepresentative
<1> QED BY <1>2, <1>3, <1>4

LEMMA BackingServices ==
  ASSUME NEW created, NEW t \in Type, Aliased(created, t)
  PROVE  BackingService(created, t) \in created \cap Name
<1>1. Backing(created, t) \in SUBSET Nat /\ Backing(created, t) # {}
  <2>1. TypeServices[t] \in Seq(Name)
    BY TypeServicesAssumption
  <2> QED BY <2>1 DEF Backing, Aliased
<1>2. Min(Backing(created, t)) \in Backing(created, t)
  BY <1>1, MinIsLeast
<1>3. TypeServices[t] \in Seq(Name)
  BY TypeServicesAssumption
<1>4. \A i \in DOMAIN TypeServices[t] : TypeServices[t][i] \in Name
  BY <1>3
<1> QED BY <1>2, <1>4 DEF Backing, BackingService

(* A type that no created service backs is represented by a service that   *)
(* shares its instance or, when there is none, by such a type.             *)
LEMMA TypeRepresentatives ==
  ASSUME NEW created \in SUBSET Key, NEW value, NEW hasIdentity, NEW t \in created \cap Type
  PROVE  LET r == TypeRepresentative(created, value, hasIdentity, t)
         IN  /\ r \in created
             /\ r \in Name => r = ServiceRepresentative(created, value, hasIdentity, r)
             /\ r \in Type =>
                  /\ ~Aliased(created, r)
                  /\ SameInstance(value, hasIdentity, r, t)
                  /\ \A n \in created \cap Name : ~SameInstance(value, hasIdentity, n, t)
                  /\ \A u \in created \cap Type :
                       SameInstance(value, hasIdentity, u, t)
                         /\ TypeRepresentative(created, value, hasIdentity, u) \in Type =>
                       TypeRepresentative(created, value, hasIdentity, u) = r
<1> DEFINE sameService(u) == {n \in created \cap Name : SameInstance(value, hasIdentity, n, u)}
           sameType(u) == {v \in created \cap Type : /\ ~Aliased(created, v)
                                                     /\ SameInstance(value, hasIdentity, v, u)}
           rep(u) == TypeRepresentative(created, value, hasIdentity, u)
<1>1. \A u : rep(u) = IF Aliased(created, u)
                      THEN ServiceRepresentative(created, value, hasIdentity,
                                                 BackingService(created, u))
                      ELSE IF sameService(u) # {} THEN Largest(sameService(u))
                           ELSE Largest(sameType(u))
  BY DEF TypeRepresentative
<1> HIDE DEF rep
<1>2. \A u : sameService(u) \in SUBSET Key /\ sameType(u) \in SUBSET Key
  OBVIOUS
<1>3. ASSUME NEW u \in created \cap Type
      PROVE  /\ Aliased(created, u) => rep(u) \in created \cap Name
             /\ ~Aliased(created, u) /\ sameService(u) # {} =>
                  rep(u) = Largest(sameService(u)) /\ rep(u) \in sameService(u)
             /\ ~Aliased(created, u) /\ sameService(u) = {} =>
                  rep(u) = Largest(sameType(u)) /\ rep(u) \in sameType(u)
  <2>1. CASE Aliased(created, u)
    <3>1. BackingService(created, u) \in created \cap Name
      BY <2>1, BackingServices
    <3>2. ServiceRepresentative(created, value, hasIdentity, BackingService(created, u))
            \in created \cap Name
      BY <3>1, ServiceRepresentatives
    <3> QED BY <1>1, <2>1, <3>2
  <2>2. CASE ~Aliased(created, u) /\ sameService(u) # {}
    <3> HIDE DEF sameService, sameType
    <3> QED BY <1>1, <1>2, <2>2, LargestIn
  <2>3. CASE ~Aliased(created, u) /\ sameService(u) = {}
    <3>1. u \in sameType(u)
      BY <2>3 DEF SameInstance
    <3> HIDE DEF sameService, sameType
    <3> QED BY <1>1, <1>2, <2>3, <3>1, LargestIn
  <2> QED BY <2>1, <2>2, <2>3
<1>4. rep(t) \in created
  <2>1. t \in created \cap Type
    OBVIOUS
  <2> QED BY <1>3, <2>1
<1>5. ASSUME rep(t) \in Name
      PROVE  rep(t) = ServiceRepresentative(created, value, hasIdentity, rep(t))
  <2>1. CASE Aliased(created, t)
    <3> DEFINE n == BackingService(created, t)
               r == ServiceRepresentative(created, value, hasIdentity, n)
    <3>1. n \in created \cap Name
      BY <2>1, BackingServices
    <3>2. r \in created \cap Name /\ SameInstance(value, hasIdentity, r, n)
          /\ ServiceRepresentative(created, value, hasIdentity, r) = r
      <4> HIDE DEF n
      <4> QED BY <3>1, ServiceRepresentatives
    <3>3. rep(t) = r
      BY <1>1, <2>1
    <3> QED BY <3>2, <3>3
  <2>2. CASE ~Aliased(created, t)
    <3>1. sameService(t) # {} /\ rep(t) = Largest(sameService(t)) /\ rep(t) \in sameService(t)
      BY <1>3, <1>5, <2>2
    <3>2. rep(t) \in created \cap Name /\ SameInstance(value, hasIdentity, rep(t), t)
      BY <3>1
    <3>3. {m \in created \cap Name : SameInstance(value, hasIdentity, m, rep(t))} = sameService(t)
      <4>1. rep(t) # t /\ value[rep(t)] = value[t] /\ value[t] \in hasIdentity
        BY <1>5, <3>2 DEF SameInstance
      <4>2. \A m \in created \cap Name : m # t
        OBVIOUS
      <4> QED BY <4>1, <4>2 DEF SameInstance
    <3> QED BY <3>1, <3>3 DEF ServiceRepresentative
  <2> QED BY <2>1, <2>2
<1>6. ASSUME NEW u \in created \cap Type, rep(u) \in Type
      PROVE  /\ ~Aliased(created, u) /\ sameService(u) = {}
             /\ rep(u) = Largest(sameType(u)) /\ rep(u) \in sameType(u)
  <2>1. rep(u) \notin Name
    BY <1>6
  <2> QED BY <1>3, <2>1
<1>7. ASSUME rep(t) \in Type, NEW u \in created \cap Type,
             SameInstance(value, hasIdentity, u, t), rep(u) \in Type
      PROVE  rep(u) = rep(t)
  <2>1. sameType(u) = sameType(t)
    BY <1>7 DEF SameInstance
  <2>2. t \in created \cap Type
    OBVIOUS
  <2> QED BY <1>6, <1>7, <2>1, <2>2
<1>8. rep(t) \in Type => /\ ~Aliased(created, rep(t))
                         /\ SameInstance(value, hasIdentity, rep(t), t)
                         /\ \A n \in created \cap Name : ~SameInstance(value, hasIdentity, n, t)
  <2>1. t \in created \cap Type
    OBVIOUS
  <2> QED BY <1>6, <2>1
<1> QED BY <1>4, <1>5, <1>7, <1>8 DEF rep

(* What the representatives of the created keys are.                       *)
LEMMA Representatives ==
  ASSUME NEW created \in SUBSET Key, NEW value, NEW hasIdentity
  PROVE  LET rep == Representative(created, value, hasIdentity)
         IN  /\ rep \in [created -> created]
             /\ \A n \in created \cap Name :
                  rep[n] \in Name /\ SameInstance(value, hasIdentity, rep[n], n)
             /\ \A j, k \in created : rep[j] # rep[k] =>
                  ~(value[rep[j]] = value[rep[k]] /\ value[rep[j]] \in hasIdentity)
             /\ \A k \in created : rep[k] \in Type => ~Aliased(created, rep[k])
<1> DEFINE rep == Representative(created, value, hasIdentity)
           Same(j, k) == SameInstance(value, hasIdentity, j, k)
           forName(n) == ServiceRepresentative(created, value, hasIdentity, n)
           forType(t) == TypeRepresentative(created, value, hasIdentity, t)
<1>1. rep = [k \in created |-> IF k \in Name THEN forName(k) ELSE forType(k)]
  BY DEF Representative
<1> HIDE DEF rep
<1>2. \A n \in created \cap Name : rep[n] = forName(n) /\ rep[n] \in created \cap Name
                                   /\ Same(rep[n], n)
  <2> TAKE n \in created \cap Name
  <2>1. rep[n] = forName(n)
    BY <1>1
  <2> QED BY <2>1, ServiceRepresentatives
<1>3. \A t \in created \cap Type : rep[t] = forType(t) /\ rep[t] \in created
  <2> TAKE t \in created \cap Type
  <2>1. rep[t] = forType(t)
    BY <1>1
  <2> HIDE DEF forType
  <2> QED BY <2>1, TypeRepresentatives DEF forType
<1>4. rep \in [created -> created]
  BY <1>1, <1>2, <1>3
<1>5. \A k \in created : rep[k] \in Name => rep[k] = forName(rep[k]) /\ rep[k] \in created \cap Name
  <2> TAKE k \in created
  <2>1. CASE k \in Name
    BY <1>2, <2>1, ServiceRepresentatives
  <2>2. CASE k \in Type
    BY <1>3, <2>2, TypeRepresentatives
  <2> QED BY <2>1, <2>2
<1>6. \A k \in created : rep[k] \in Type =>
        /\ k \in created \cap Type /\ ~Aliased(created, rep[k]) /\ Same(rep[k], k)
        /\ \A n \in created \cap Name : ~Same(n, k)
  <2> TAKE k \in created
  <2>1. CASE k \in Name
    BY <1>2, <2>1
  <2>2. CASE k \in Type
    BY <1>3, <2>2, TypeRepresentatives
  <2> QED BY <2>1, <2>2
<1>7. ASSUME NEW j \in created, NEW k \in created, rep[j] # rep[k],
             value[rep[j]] = value[rep[k]], value[rep[j]] \in hasIdentity
      PROVE  FALSE
  <2>0. Same(rep[j], rep[k]) /\ Same(rep[k], rep[j]) /\ rep[j] \in Key /\ rep[k] \in Key
    BY <1>4, <1>7 DEF SameInstance
  <2>1. CASE rep[j] \in Name /\ rep[k] \in Name
    BY <1>5, <1>7, <2>0, <2>1, ServiceRepresentatives
  <2>2. CASE rep[j] \in Name /\ rep[k] \in Type
    <3>1. Same(rep[k], k) /\ ~Same(rep[j], k)
      BY <1>5, <1>6, <2>2
    <3> QED BY <1>7, <3>1 DEF SameInstance
  <2>3. CASE rep[j] \in Type /\ rep[k] \in Name
    <3>1. Same(rep[j], j) /\ ~Same(rep[k], j)
      BY <1>5, <1>6, <2>3
    <3> QED BY <1>7, <3>1 DEF SameInstance
  <2>4. CASE rep[j] \in Type /\ rep[k] \in Type
    <3>1. Same(rep[j], j) /\ Same(rep[k], k)
      BY <1>6, <2>4
    <3>2. Same(k, j)
      BY <1>7, <3>1 DEF SameInstance
    <3>3. j \in created \cap Type /\ k \in created \cap Type
      BY <1>6, <2>4
    <3>4. forType(k) = forType(j)
      <4>1. forType(j) \in Type /\ forType(k) \in Type
        BY <1>3, <2>4, <3>3
      <4> QED BY <3>2, <3>3, <4>1, TypeRepresentatives
    <3> QED BY <1>3, <1>7, <3>3, <3>4
  <2> QED BY <2>0, <2>1, <2>2, <2>3, <2>4
<1>8. \A j, k \in created : rep[j] # rep[k] =>
        ~(value[rep[j]] = value[rep[k]] /\ value[rep[j]] \in hasIdentity)
  BY <1>7
<1> QED BY <1>2, <1>4, <1>6, <1>8 DEF rep

(* The close order lists each representative once and, without a cycle     *)
(* among them, a dependent before its dependency.                          *)
LEMMA CloseOrderSorts ==
  ASSUME NEW created \in SUBSET Key, NEW value, NEW hasIdentity, NEW graph
  PROVE  LET rep   == Representative(created, value, hasIdentity)
             order == CloseOrder(created, value, hasIdentity, graph)
         IN  /\ Lists(order, Range(rep))
             /\ ~CloseCycle(created, value, hasIdentity, graph) =>
                  \A e \in graph : e[1] \in created /\ e[2] \in created /\ rep[e[1]] # rep[e[2]] =>
                    Precedes(order, rep[e[1]], rep[e[2]])
<1> DEFINE rep == Representative(created, value, hasIdentity)
           edges == CollapsedEdges(rep, graph)
           order == CloseOrder(created, value, hasIdentity, graph)
           cycle == CloseCycle(created, value, hasIdentity, graph)
<1>1. rep \in [created -> created]
  BY Representatives
<1>2. order = KahnOrder(Range(rep), edges) /\ cycle = CycleAmong(Range(rep), edges)
  BY DEF CloseOrder, CloseCycle
<1> HIDE DEF rep, order, cycle
<1>3. Range(rep) \in SUBSET Key /\ \A k \in created : rep[k] \in Range(rep)
  BY <1>1 DEF Range
<1>4. ASSUME NEW e \in graph, e[1] \in created, e[2] \in created, rep[e[1]] # rep[e[2]]
      PROVE  <<rep[e[1]], rep[e[2]]>> \in edges
  BY <1>1, <1>4 DEF CollapsedEdges
<1> HIDE DEF edges
<1>5. /\ Lists(order, Range(rep))
      /\ ~cycle => \A x, y \in Range(rep) : <<x, y>> \in edges => Precedes(order, x, y)
  BY <1>2, <1>3, KahnOrderSorts
<1> QED BY <1>3, <1>4, <1>5 DEF rep, order, cycle
-----------------------------------------------------------------------------
(* Whatever a container holds, Close calls each of its instances once and, *)
(* without a cycle, dependents first.                                      *)
LEMMA AnyOrderHolds ==
  ASSUME heldKeys \in SUBSET Key
  PROVE  CloseOrderHolds
<1> DEFINE rep == representativeOf
           order == closeOrder
<1>1. /\ rep \in [heldKeys -> heldKeys]
      /\ \A n \in heldKeys \cap Name : rep[n] \in Name /\ SameInstance(held, HasIdentity, rep[n], n)
      /\ \A j, k \in heldKeys : rep[j] # rep[k] =>
           ~(held[rep[j]] = held[rep[k]] /\ held[rep[j]] \in HasIdentity)
      /\ \A k \in heldKeys : rep[k] \in Type => ~Aliased(heldKeys, rep[k])
  BY Representatives DEF representativeOf
<1>2. /\ Lists(order, Range(rep))
      /\ ~cycleDetected =>
           \A e \in recorded : e[1] \in heldKeys /\ e[2] \in heldKeys /\ rep[e[1]] # rep[e[2]] =>
             Precedes(order, rep[e[1]], rep[e[2]])
  BY CloseOrderSorts DEF representativeOf, closeOrder, cycleDetected
<1> HIDE DEF rep, order
<1>3. DOMAIN order = 1..Len(order) /\ \A i \in DOMAIN order : order[i] \in Range(rep)
  BY <1>2 DEF Lists
<1>4. \A x \in Range(rep) : \E k \in heldKeys : x = rep[k]
  BY <1>1 DEF Range
<1>5. \A k \in heldKeys : \E i \in DOMAIN order : order[i] = rep[k]
  BY <1>1, <1>2, <1>3 DEF Lists, Range
<1>6. ASSUME NEW n \in heldKeys \cap Name
      PROVE  \E i \in DOMAIN order : held[order[i]] = held[n]
  BY <1>1, <1>5 DEF SameInstance
<1>7. ASSUME NEW i \in DOMAIN order, NEW j \in DOMAIN order, i # j
      PROVE  /\ order[i] # order[j]
             /\ ~(held[order[i]] = held[order[j]] /\ held[order[i]] \in HasIdentity)
             /\ ~(order[i] \in Type /\ order[j] \in Range(TypeServices[order[i]]))
  <2>1. order[i] # order[j]
    BY <1>2, <1>3, <1>7 DEF Lists
  <2>2. PICK x \in heldKeys : order[i] = rep[x]
    BY <1>3, <1>4
  <2>3. PICK y \in heldKeys : order[j] = rep[y]
    BY <1>3, <1>4
  <2>4. ~(order[i] \in Type /\ order[j] \in Range(TypeServices[order[i]]))
    <3> SUFFICES ASSUME order[i] \in Type, order[j] \in Range(TypeServices[order[i]]) PROVE FALSE
      OBVIOUS
    <3>1. PICK p \in DOMAIN TypeServices[order[i]] : TypeServices[order[i]][p] = order[j]
      BY DEF Range
    <3>2. order[j] \in heldKeys
      BY <1>1, <2>3
    <3>3. Aliased(heldKeys, order[i])
      BY <3>1, <3>2 DEF Aliased, Backing
    <3> QED BY <1>1, <2>2, <3>3
  <2> QED BY <1>1, <2>1, <2>2, <2>3, <2>4
<1>8. ClosesEachOnce
  BY <1>6, <1>7 DEF ClosesEachOnce, order
<1>9. ASSUME ~cycleDetected, NEW e \in recorded, e[1] \in heldKeys, e[2] \in heldKeys,
             rep[e[1]] # rep[e[2]]
      PROVE  \E i, j \in DOMAIN order : i < j /\ order[i] = rep[e[1]] /\ order[j] = rep[e[2]]
  BY <1>2, <1>3, <1>9 DEF Precedes
<1>10. DependentsFirst
  BY <1>9 DEF DependentsFirst, order, rep
<1> QED BY <1>8, <1>10 DEF CloseOrderHolds

(* The order in which Close calls the instances has each of them once, and *)
(* dependents before what they depend on (container_close.go).             *)
THEOREM CloseOrderAlwaysHolds == FillSpec => []CloseOrderHolds
<1>1. heldKeys \in SUBSET Key
  BY DEF heldKeys
<1>2. CloseOrderHolds
  BY <1>1, AnyOrderHolds
<1> QED BY <1>2, PTL
-----------------------------------------------------------------------------
(* Close and the creations it races.  An instance is closed once because a *)
(* provider's is either stored, and then a candidate, or returned too      *)
(* late, and then closed by its creator.                                   *)
ClosingTypes ==
  /\ isClosed \in BOOLEAN
  /\ produced \subseteq Name \X Ctx
  /\ closeLog \in Seq(Value) /\ toClose \in Seq(Value)

(* What a context made and the container holds, a provider returned.       *)
StoredWereProduced ==
  /\ \A n \in Name : instances[n] # NoValue /\ instances[n][2] \in Ctx => instances[n] \in produced
  /\ \A t \in Type :
       typeInstances[t] # NoValue /\ typeInstances[t][2] \in Ctx => typeInstances[t] \in produced

(* The providers still at work, all but one that returned too late, have   *)
(* not returned the instance they are to make.                             *)
AtWork ==
  \A c \in Ctx : \A i \in DOMAIN stack[c] :
    i # 1 \/ pc[c] # "late" => <<stack[c][i].guard, c>> \notin produced

(* Before Close nothing is closed, and what was returned keeps its place.  *)
UntilClosed ==
  ~isClosed => /\ closeLog = << >> /\ toClose = << >>
               /\ \A v \in produced : instances[v[1]] # NoValue

CandidatesOnce ==
  /\ IsInjective(closeLog) /\ IsInjective(toClose)
  /\ Range(closeLog) \cap Range(toClose) = {}
  /\ \A v \in Range(closeLog) \cup Range(toClose) :
       v[2] \notin Scope /\ (v[2] \in Ctx => v \in produced)

NoneLeftOpen ==
  isClosed => \A v \in produced :
                v \in Range(closeLog) \cup Range(toClose) \/ instances[v[1]] # v

ClosingInv == /\ ClosingTypes /\ StoredWereProduced /\ AtWork
              /\ UntilClosed /\ CandidatesOnce /\ NoneLeftOpen

LEMMA ClosingInit == Init => ClosingInv
<1> SUFFICES ASSUME Init PROVE ClosingInv
  OBVIOUS
<1>1. /\ closeLog = << >> /\ toClose = << >> /\ produced = {} /\ isClosed = FALSE
      /\ \A n \in Name : instances[n] = NoValue
      /\ \A t \in Type : typeInstances[t] = NoValue
      /\ \A c \in Ctx : stack[c] = << >>
  BY DEF Init
<1>2. Range(<< >>) = {} /\ IsInjective(<< >>)
  BY DEF Range, IsInjective
<1>3. ClosingTypes
  <2>1. isClosed \in BOOLEAN
    BY DEF Init
  <2>2. << >> \in Seq(Value)
    OBVIOUS
  <2> QED BY <1>1, <2>1, <2>2 DEF ClosingTypes
<1>4. StoredWereProduced /\ AtWork
  BY <1>1 DEF StoredWereProduced, AtWork
<1>5. UntilClosed /\ CandidatesOnce /\ NoneLeftOpen
  BY <1>1, <1>2 DEF UntilClosed, CandidatesOnce, NoneLeftOpen
<1> QED BY <1>3, <1>4, <1>5 DEF ClosingInv

(* What CloseBegin leaves to close: the instance of every service, and     *)
(* none twice.                                                             *)
LEMMA CandidatesOfClose ==
  ASSUME ResolverTypeOK, NEW x, CloseBegin(x)
  PROVE  /\ toClose' \in Seq(Value) /\ IsInjective(toClose')
         /\ \A n \in Name : instances[n] # NoValue => instances[n] \in Range(toClose')
         /\ \A v \in Range(toClose') : \E k \in CreatedKeys : v = NodeValue[k]
<1> DEFINE order == CloseOrder(CreatedKeys, NodeValue, Value, dependencyGraph)
           rep == Representative(CreatedKeys, NodeValue, Value)
<1>1. CreatedKeys \in SUBSET Key /\ \A k \in CreatedKeys : NodeValue[k] \in Value
  BY DEF CreatedKeys, NodeValue, ResolverTypeOK
<1>2. /\ rep \in [CreatedKeys -> CreatedKeys]
      /\ \A n \in CreatedKeys \cap Name : SameInstance(NodeValue, Value, rep[n], n)
      /\ \A j, k \in CreatedKeys : rep[j] # rep[k] =>
           ~(NodeValue[rep[j]] = NodeValue[rep[k]] /\ NodeValue[rep[j]] \in Value)
  BY <1>1, Representatives
<1>3. Lists(order, Range(rep))
  BY <1>1, CloseOrderSorts
<1>4. toClose' = [i \in DOMAIN order |-> NodeValue[order[i]]]
  BY DEF CloseBegin
<1> HIDE DEF order, rep
<1>5. DOMAIN order = 1 .. Len(order) /\ Len(order) \in Nat
  BY <1>3 DEF Lists
<1>6. \A i \in DOMAIN order : order[i] \in CreatedKeys /\ \E k \in CreatedKeys : order[i] = rep[k]
  BY <1>2, <1>3, <1>5 DEF Lists, Range
<1>7. toClose' \in Seq(Value)
  BY <1>1, <1>4, <1>5, <1>6
<1>8. \A v \in Range(toClose') : \E k \in CreatedKeys : v = NodeValue[k]
  BY <1>4, <1>6 DEF Range
<1>9. IsInjective(toClose')
  <2> SUFFICES ASSUME NEW i \in DOMAIN order, NEW j \in DOMAIN order, i # j,
                      NodeValue[order[i]] = NodeValue[order[j]]
               PROVE  FALSE
    BY <1>4 DEF IsInjective
  <2>1. order[i] # order[j]
    BY <1>3, <1>5 DEF Lists
  <2>2. NodeValue[order[i]] \in Value
    BY <1>1, <1>6
  <2> QED BY <1>2, <1>6, <2>1, <2>2
<1>10. ASSUME NEW n \in Name, instances[n] # NoValue PROVE instances[n] \in Range(toClose')
  <2>1. n \in CreatedKeys \cap Name /\ NodeValue[n] = instances[n]
    BY <1>10 DEF CreatedKeys, NodeValue
  <2>2. NodeValue[rep[n]] = NodeValue[n]
    BY <1>2, <2>1 DEF SameInstance
  <2>3. rep[n] \in Range(rep)
    BY <1>2, <2>1 DEF Range
  <2>4. PICK i \in DOMAIN order : order[i] = rep[n]
    BY <1>3, <1>5, <2>3 DEF Lists
  <2> QED BY <1>4, <2>1, <2>2, <2>4 DEF Range
<1> QED BY <1>7, <1>8, <1>9, <1>10

(* An action that changes nothing of what the invariant says but the type  *)
(* instances, among those stored already.                                  *)
LEMMA ClosingKept ==
  ASSUME ClosingInv, UNCHANGED <<instances, isClosed, produced, closeLog, toClose>>,
         \A t \in Type : typeInstances'[t] = typeInstances[t]
                         \/ (typeInstances'[t] # NoValue /\ typeInstances'[t][2] \in Ctx =>
                               typeInstances'[t] \in produced),
         AtWork'
  PROVE  ClosingInv'
<1>1. ClosingTypes'
  BY DEF ClosingInv, ClosingTypes
<1>2. StoredWereProduced'
  BY DEF ClosingInv, StoredWereProduced
<1>3. UntilClosed' /\ CandidatesOnce' /\ NoneLeftOpen'
  BY DEF ClosingInv, UntilClosed, CandidatesOnce, NoneLeftOpen
<1> QED BY <1>1, <1>2, <1>3 DEF ClosingInv

(* The frames keep their guards and their depth.                           *)
LEMMA SameDepth ==
  ASSUME AtWork, produced' = produced,
         \A c \in Ctx : /\ pc[c] = "late" => pc'[c] = "late"
                        /\ \A i \in DOMAIN stack'[c] :
                             i \in DOMAIN stack[c] /\ stack'[c][i].guard = stack[c][i].guard
  PROVE  AtWork'
BY DEF AtWork

LEMMA NewHead ==
  ASSUME NEW s \in Seq(Frame), s # << >>, NEW f
  PROVE  LET t == <<f>> \o Tail(s)
         IN  /\ DOMAIN t = DOMAIN s /\ s[1] = Head(s) /\ t[1] = f
             /\ \A i \in DOMAIN s : i # 1 => t[i] = s[i]
<1> DEFINE t == <<f>> \o Tail(s)
<1>1. /\ DOMAIN s = 1 .. Len(s) /\ DOMAIN t = 1 .. Len(s) /\ Len(s) \in Nat \ {0}
      /\ Head(s) = s[1] /\ t[1] = f /\ \A i \in 2 .. Len(s) : t[i] = s[i]
  OBVIOUS
<1> HIDE DEF t
<1>2. /\ DOMAIN t = DOMAIN s /\ s[1] = Head(s) /\ t[1] = f
      /\ \A i \in DOMAIN s : i # 1 => t[i] = s[i]
  BY <1>1
<1> QED BY <1>2 DEF t

LEMMA AnswerDepth ==
  ASSUME ResolverTypeOK, NEW c \in Ctx, NEW outer \in Seq(Frame), NEW woken, NEW value,
         NEW error, \A d \in woken : pc[d] = "waiting", Answer(c, outer, woken, value, error)
  PROVE  /\ \A d \in Ctx : d # c => stack'[d] = stack[d] /\ (pc[d] = "late" => pc'[d] = "late")
         /\ \A i \in DOMAIN stack'[c] : i \in DOMAIN outer /\ stack'[c][i].guard = outer[i].guard
<1>1. \A d \in Ctx : d # c => stack'[d] = stack[d] /\ (pc[d] = "late" => pc'[d] = "late")
  BY DEF Answer, NextPc, ResolverTypeOK
<1>2. CASE outer = << >>
  BY <1>1, <1>2 DEF Answer, ResolverTypeOK
<1>3. CASE outer # << >>
  <2> DEFINE f == Received(Head(outer), value, error)
  <2>1. stack'[c] = <<f>> \o Tail(outer)
    BY <1>3 DEF Answer, ResolverTypeOK
  <2>2. f.guard = Head(outer).guard
    BY <1>3, ReceivedFrame
  <2> HIDE DEF f
  <2>3. /\ DOMAIN stack'[c] = DOMAIN outer /\ stack'[c][1] = f /\ outer[1] = Head(outer)
        /\ \A i \in DOMAIN outer : i # 1 => stack'[c][i] = outer[i]
    BY <1>3, <2>1
  <2> QED BY <1>1, <2>2, <2>3
<1> QED BY <1>2, <1>3

(* The innermost frame of c goes; what it was to make has been returned, or *)
(* never will be.                                                          *)
LEMMA PopDepth ==
  ASSUME WaitInv, Kept, AtWork, NEW c \in Ctx, stack[c] # << >>, NEW value, NEW error,
         FinishCreation(c, value, error),
         produced' = produced \/ produced' = produced \cup {<<Head(stack[c]).guard, c>>}
  PROVE  AtWork'
<1> DEFINE s == stack[c]
           g == Head(s).guard
<1>1. ResolverTypeOK /\ s \in Seq(Frame) /\ Keeps(s, c, creating)
  BY DEF WaitInv, Kept, StacksKept, ResolverTypeOK
<1>2. Answer(c, Tail(s), WaitingFor(g), value, error) /\ Tail(s) \in Seq(Frame)
  BY <1>1, FrameStack DEF FinishCreation
<1>3. \A d \in WaitingFor(g) : pc[d] = "waiting"
  BY DEF WaitingFor
<1>4. /\ \A d \in Ctx : d # c => stack'[d] = stack[d] /\ (pc[d] = "late" => pc'[d] = "late")
      /\ \A i \in DOMAIN stack'[c] : i \in DOMAIN Tail(s) /\ stack'[c][i].guard = Tail(s)[i].guard
  <2> DEFINE outer == Tail(s)
             woken == WaitingFor(g)
  <2>1. /\ ResolverTypeOK /\ outer \in Seq(Frame) /\ Answer(c, outer, woken, value, error)
        /\ \A d \in woken : pc[d] = "waiting"
    BY <1>1, <1>2, <1>3
  <2> HIDE DEF outer, woken, s, g
  <2>2. /\ \A d \in Ctx : d # c => stack'[d] = stack[d] /\ (pc[d] = "late" => pc'[d] = "late")
        /\ \A i \in DOMAIN stack'[c] : i \in DOMAIN outer /\ stack'[c][i].guard = outer[i].guard
    BY <2>1, AnswerDepth
  <2> QED BY <2>2 DEF outer
<1>5. \A i \in DOMAIN Tail(s) : i + 1 \in DOMAIN s /\ Tail(s)[i] = s[i + 1] /\ i + 1 # 1
  BY <1>1
<1>6. 1 \in DOMAIN s /\ g = s[1].guard
  BY <1>1
<1> HIDE DEF s, g
<1>7. ASSUME NEW i \in DOMAIN stack'[c] PROVE <<stack'[c][i].guard, c>> \notin produced'
  <2>1. stack'[c][i].guard = s[i + 1].guard /\ i + 1 \in DOMAIN s /\ i + 1 # 1
    BY <1>4, <1>5, <1>7
  <2>2. s[i + 1].guard # g
    BY <1>1, <1>6, <2>1 DEF Keeps
  <2>3. <<s[i + 1].guard, c>> \notin produced
    BY <2>1 DEF AtWork, s
  <2> QED BY <2>1, <2>2, <2>3 DEF g, s
<1>8. ASSUME NEW d \in Ctx, d # c, NEW i \in DOMAIN stack'[d], i # 1 \/ pc'[d] # "late"
      PROVE  <<stack'[d][i].guard, d>> \notin produced'
  <2>1. <<stack[d][i].guard, d>> \notin produced
    BY <1>4, <1>8 DEF AtWork
  <2> QED BY <1>4, <1>8, <2>1
<1> QED BY <1>7, <1>8 DEF AtWork

LEMMA ClosingStep == WaitInv /\ Kept /\ ClosingInv /\ [Next]_vars => ClosingInv'
<1> SUFFICES ASSUME WaitInv, Kept, ClosingInv, [Next]_vars PROVE ClosingInv'
  OBVIOUS
<1> USE DEF registryVars, resolverVars, scopeVars, closeVars, historyVars
<1>0. /\ ResolverTypeOK /\ PcConsistent /\ StacksKept /\ ValuesKept /\ AtWork
      /\ stack \in [Ctx -> Seq(Frame)]
      /\ ClosingTypes /\ StoredWereProduced /\ UntilClosed /\ CandidatesOnce /\ NoneLeftOpen
  BY DEF WaitInv, Kept, ClosingInv, ResolverTypeOK
<1> DEFINE Untouched == UNCHANGED <<instances, isClosed, produced, closeLog, toClose>>
<1>1. ASSUME Untouched, UNCHANGED <<typeInstances, stack, pc>> PROVE ClosingInv'
  <2>1. AtWork'
    BY <1>0, <1>1 DEF AtWork
  <2> QED BY <1>1, <2>1, ClosingKept
<1>2. ASSUME NEW c \in Ctx, NEW value, NEW error, Answer(c, stack[c], {}, value, error),
             pc[c] # "late", produced' = produced
      PROVE  AtWork'
  <2>1. /\ \A d \in Ctx : d # c => stack'[d] = stack[d] /\ (pc[d] = "late" => pc'[d] = "late")
        /\ \A i \in DOMAIN stack'[c] : i \in DOMAIN stack[c]
                                       /\ stack'[c][i].guard = stack[c][i].guard
    BY <1>0, <1>2, AnswerDepth
  <2>2. \A d \in Ctx : /\ pc[d] = "late" => pc'[d] = "late"
                       /\ \A i \in DOMAIN stack'[d] :
                            i \in DOMAIN stack[d] /\ stack'[d][i].guard = stack[d][i].guard
    BY <1>2, <2>1
  <2> QED BY <1>0, <1>2, <2>2, SameDepth
<1>3. ASSUME NEW c \in Ctx, NEW k, Request(c, k) \/ ResolveWait(c) PROVE ClosingInv'
  <2>1. Untouched /\ UNCHANGED <<typeInstances, stack>>
    BY <1>3 DEF Request, Enter, ResolveWait
  <2>2. \A d \in Ctx : pc[d] = "late" => pc'[d] = "late"
    BY <1>0, <1>3 DEF Request, Enter, ResolveWait, Missing, ResolverTypeOK
  <2>3. AtWork'
    BY <1>0, <2>1, <2>2, SameDepth
  <2> QED BY <2>1, <2>3, ClosingKept
<1>4. ASSUME NEW c \in Ctx, NEW k \in Key, ProviderGet(c, k) \/ ProviderGetCircular(c, k)
      PROVE  ClosingInv'
  <2>1. stack[c] # << >> /\ Head(stack[c]) \in Frame /\ pc[c] = "running"
    BY <1>0, <1>4, FrameStack DEF ProviderGet, ProviderGetCircular, PcConsistent
  <2>2. PICK f : /\ f.guard = Head(stack[c]).guard
                 /\ stack' = [stack EXCEPT ![c] = <<f>> \o Tail(stack[c])]
    <3>1. Without(Head(stack[c]), k) \in Frame
          /\ Without(Head(stack[c]), k).guard = Head(stack[c]).guard
      BY <2>1 DEF Without, Frame
    <3>2. Received(Without(Head(stack[c]), k), NoValue, "circular").guard = Head(stack[c]).guard
      BY <3>1, ReceivedFrame
    <3> QED BY <1>4, <3>1, <3>2 DEF ProviderGet, ProviderGetCircular
  <2>3. Untouched /\ UNCHANGED typeInstances
    BY <1>4 DEF ProviderGet, ProviderGetCircular, Enter
  <2>4. \A d \in Ctx : pc[d] = "late" => pc'[d] = "late"
    BY <1>0, <1>4, <2>1 DEF ProviderGet, ProviderGetCircular, Enter, ResolverTypeOK
  <2>5. /\ DOMAIN stack'[c] = DOMAIN stack[c] /\ stack[c][1] = Head(stack[c]) /\ stack'[c][1] = f
        /\ \A i \in DOMAIN stack[c] : i # 1 => stack'[c][i] = stack[c][i]
    <3>1. stack'[c] = <<f>> \o Tail(stack[c]) /\ stack[c] \in Seq(Frame)
      BY <1>0, <2>2
    <3> QED BY <2>1, <3>1, NewHead
  <2>6. \A d \in Ctx : d # c => stack'[d] = stack[d]
    BY <1>0, <2>2
  <2>7. AtWork'
    <3>1. \A d \in Ctx : \A i \in DOMAIN stack'[d] :
            i \in DOMAIN stack[d] /\ stack'[d][i].guard = stack[d][i].guard
      BY <2>2, <2>5, <2>6
    <3> QED BY <1>0, <2>3, <2>4, <3>1, SameDepth
  <2> QED BY <2>3, <2>7, ClosingKept
<1>5. ASSUME NEW c \in Ctx, LookupScope(c) PROVE ClosingInv'
  <2>1. Untouched /\ UNCHANGED typeInstances /\ pc[c] = "entered"
    BY <1>5 DEF LookupScope
  <2>2. \/ \E value, error : Answer(c, stack[c], {}, value, error)
        \/ pc' = [pc EXCEPT ![c] = "locking"] /\ UNCHANGED stack
    BY <1>5 DEF LookupScope
  <2>3. AtWork'
    <3>1. CASE \E value, error : Answer(c, stack[c], {}, value, error)
      BY <1>2, <2>1, <3>1
    <3>2. CASE pc' = [pc EXCEPT ![c] = "locking"] /\ UNCHANGED stack
      <4>1. \A d \in Ctx : pc[d] = "late" => pc'[d] = "late"
        BY <1>0, <2>1, <3>2 DEF ResolverTypeOK
      <4> QED BY <1>0, <2>1, <3>2, <4>1, SameDepth
    <3> QED BY <2>2, <3>1, <3>2
  <2> QED BY <2>1, <2>3, ClosingKept
<1>6. ASSUME NEW c \in Ctx, \/ ResolveAmbiguous(c) \/ ResolveCircular(c)
                            \/ ResolveClosed(c) \/ Resume(c)
      PROVE  ClosingInv'
  <2>1. Untouched /\ UNCHANGED typeInstances /\ pc[c] # "late"
    BY <1>6 DEF ResolveAmbiguous, ResolveCircular, ResolveClosed, Resume, Missing
  <2>2. \E value, error : Answer(c, stack[c], {}, value, error)
    BY <1>6 DEF ResolveAmbiguous, ResolveCircular, ResolveClosed, Resume
  <2>3. AtWork'
    BY <1>2, <2>1, <2>2
  <2> QED BY <2>1, <2>3, ClosingKept
<1>7. ASSUME NEW c \in Ctx, ResolveHit(c) PROVE ClosingInv'
  <2> DEFINE value == Cached(Guard(asked[c]))
  <2>1. Untouched /\ pc[c] = "locking" /\ value # NoValue /\ asked[c] \in Key
    BY <1>0, <1>7 DEF ResolveHit, PcConsistent
  <2>2. Answer(c, stack[c], {}, value, "none")
    BY <1>7 DEF ResolveHit
  <2>3. value[2] \in Ctx => value \in produced
    BY <1>0, <2>1, GuardType DEF Cached, StoredWereProduced
  <2>4. \A t \in Type : typeInstances'[t] = typeInstances[t] \/ typeInstances'[t] = value
    BY <1>0, <1>7 DEF ResolveHit, ResolverTypeOK
  <2> HIDE DEF value
  <2>5. AtWork'
    BY <1>2, <2>1, <2>2
  <2> QED BY <2>1, <2>3, <2>4, <2>5, ClosingKept
<1>8. ASSUME NEW c \in Ctx, ResolveCreate(c) PROVE ClosingInv'
  <2> DEFINE g == Guard(asked[c])
             f == NewFrame(asked[c])
  <2>1. Untouched /\ UNCHANGED typeInstances /\ ~isClosed /\ pc[c] = "locking"
        /\ asked[c] \in Key /\ Cached(g) = NoValue
    BY <1>0, <1>8 DEF ResolveCreate, Missing, PcConsistent
  <2>2. stack' = [stack EXCEPT ![c] = <<f>> \o stack[c]] /\ f.guard = g
    BY <1>8 DEF ResolveCreate, NewFrame
  <2>3. pc' = [pc EXCEPT ![c] = "running"]
    BY <1>8 DEF ResolveCreate
  <2>4. <<g, c>> \notin produced
    <3> SUFFICES ASSUME <<g, c>> \in produced PROVE FALSE
      OBVIOUS
    <3>1. g \in Name /\ instances[g] # NoValue
      BY <1>0, <2>1 DEF ClosingTypes, UntilClosed
    <3> QED BY <2>1, <3>1 DEF Cached
  <2> HIDE DEF f, g
  <2>5. ASSUME NEW i \in DOMAIN stack'[c] PROVE <<stack'[c][i].guard, c>> \notin produced
    <3>1. stack'[c] = <<f>> \o stack[c] /\ stack[c] \in Seq(Frame)
      BY <1>0, <2>2
    <3>2. stack'[c][i] = f \/ (i - 1 \in DOMAIN stack[c] /\ stack'[c][i] = stack[c][i - 1])
      BY <2>5, <3>1
    <3>3. \A j \in DOMAIN stack[c] : <<stack[c][j].guard, c>> \notin produced
      BY <1>0, <2>1 DEF AtWork
    <3> QED BY <2>2, <2>4, <3>2, <3>3
  <2>6. \A d \in Ctx : d # c => stack'[d] = stack[d] /\ pc'[d] = pc[d]
    BY <1>0, <2>2, <2>3 DEF ResolverTypeOK
  <2>7. AtWork'
    BY <1>0, <2>1, <2>5, <2>6 DEF AtWork
  <2> QED BY <2>1, <2>7, ClosingKept
<1>9. ASSUME NEW c \in Ctx, ProviderStores(c) PROVE ClosingInv'
  <2> DEFINE g == Head(stack[c]).guard
             value == <<g, c>>
  <2>1. stack[c] # << >> /\ g \in Name /\ ~isClosed /\ value \in Value
    BY <1>0, <1>9 DEF ProviderStores, Produce, TooLate, PcConsistent, Registered, Value
  <2>2. produced' = produced \cup {value} /\ FinishCreation(c, value, "none")
        /\ UNCHANGED <<isClosed, closeLog, toClose>>
    BY <1>9 DEF ProviderStores, Produce
  <2>3. /\ instances' = [instances EXCEPT ![g] = value]
        /\ \A t \in Type : typeInstances'[t] = typeInstances[t] \/ typeInstances'[t] = value
    BY <1>0, <1>9 DEF ProviderStores, StoredInstances, ResolverTypeOK
  <2>4. AtWork'
    BY <1>0, <2>1, <2>2, PopDepth
  <2>5. value # NoValue
    BY <2>1, ResolverAssumption DEF Value
  <2> HIDE DEF g, value
  <2>6. StoredWereProduced'
    BY <1>0, <2>1, <2>2, <2>3 DEF StoredWereProduced, ResolverTypeOK
  <2>7. UntilClosed'
    <3>1. value[1] = g
      BY DEF value
    <3> QED BY <1>0, <2>1, <2>2, <2>3, <2>5, <3>1 DEF UntilClosed, ResolverTypeOK
  <2>8. ClosingTypes' /\ NoneLeftOpen'
    BY <1>0, <2>1, <2>2 DEF ClosingTypes, NoneLeftOpen, value
  <2>9. CandidatesOnce'
    BY <1>0, <2>2 DEF CandidatesOnce
  <2> QED BY <2>4, <2>6, <2>7, <2>8, <2>9 DEF ClosingInv
<1>10. ASSUME NEW c \in Ctx, ProviderTooLate(c) PROVE ClosingInv'
  <2> DEFINE g == Head(stack[c]).guard
             value == <<g, c>>
  <2>1. /\ stack[c] # << >> /\ g \in Name /\ isClosed /\ value \in Value /\ value[2] \in Ctx
        /\ pc[c] = "running" /\ stack[c] \in Seq(Frame)
    BY <1>0, <1>10 DEF ProviderTooLate, Produce, TooLate, PcConsistent, Registered, Value
  <2>2. /\ produced' = produced \cup {value} /\ closeLog' = Append(closeLog, value)
        /\ pc' = [pc EXCEPT ![c] = "late"]
        /\ UNCHANGED <<instances, typeInstances, isClosed, toClose, stack>>
    BY <1>10 DEF ProviderTooLate, Produce
  <2>3. 1 \in DOMAIN stack[c] /\ g = stack[c][1].guard
    BY <2>1
  <2>4. value \notin produced
    BY <1>0, <2>1, <2>3 DEF AtWork
  <2>5. value \notin Range(closeLog) \cup Range(toClose)
    BY <1>0, <2>1, <2>4 DEF CandidatesOnce
  <2>6. AtWork'
    <3> SUFFICES ASSUME NEW d \in Ctx, NEW i \in DOMAIN stack[d], i # 1 \/ pc'[d] # "late"
                 PROVE  <<stack[d][i].guard, d>> \notin produced'
      BY <2>2 DEF AtWork
    <3>1. pc'[d] = IF d = c THEN "late" ELSE pc[d]
      BY <1>0, <2>2 DEF ResolverTypeOK
    <3>2. <<stack[d][i].guard, d>> \notin produced
      BY <1>0, <2>1, <3>1 DEF AtWork
    <3>3. d = c => stack[d][i].guard # g
      BY <1>0, <2>3, <3>1 DEF StacksKept, Keeps
    <3> QED BY <2>2, <3>2, <3>3
  <2> HIDE DEF g, value
  <2>7. Range(closeLog') = Range(closeLog) \cup {value} /\ IsInjective(closeLog')
    <3>1. /\ DOMAIN closeLog' = DOMAIN closeLog \cup {Len(closeLog) + 1}
          /\ Len(closeLog) + 1 \notin DOMAIN closeLog
          /\ closeLog'[Len(closeLog) + 1] = value
          /\ \A i \in DOMAIN closeLog : closeLog'[i] = closeLog[i]
      BY <1>0, <2>2 DEF ClosingTypes
    <3> QED BY <1>0, <2>5, <3>1 DEF CandidatesOnce, IsInjective, Range
  <2>8. ClosingTypes'
    <3>1. value \in Name \X Ctx
      BY <2>1 DEF value
    <3> QED BY <1>0, <2>1, <2>2, <3>1 DEF ClosingTypes
  <2>9. CandidatesOnce'
    <3>1. value[2] \notin Scope
      BY <2>1, ResolverAssumption
    <3> QED BY <1>0, <2>2, <2>5, <2>7, <3>1 DEF CandidatesOnce
  <2>10. NoneLeftOpen' /\ StoredWereProduced' /\ UntilClosed'
    BY <1>0, <2>1, <2>2, <2>7 DEF NoneLeftOpen, StoredWereProduced, UntilClosed
  <2> QED BY <2>6, <2>8, <2>9, <2>10 DEF ClosingInv
<1>11. ASSUME NEW c \in Ctx, RelockLate(c) \/ ProviderFails(c) PROVE ClosingInv'
  <2>1. stack[c] # << >> /\ \E error : FinishCreation(c, NoValue, error)
    BY <1>0, <1>11 DEF RelockLate, ProviderFails, PcConsistent
  <2>2. Untouched /\ UNCHANGED typeInstances
    BY <1>11 DEF RelockLate, ProviderFails
  <2>3. AtWork'
    BY <1>0, <2>1, <2>2, PopDepth
  <2> QED BY <2>2, <2>3, ClosingKept
<1>12. ASSUME NEW n \in Name, NEW t, OverrideInstance(n, t) PROVE ClosingInv'
  <2> DEFINE value == <<n, Override>>
  <2>1. /\ instances' = [instances EXCEPT ![n] = value]
        /\ \A u \in Type : typeInstances'[u] = typeInstances[u] \/ typeInstances'[u] = value
        /\ UNCHANGED <<isClosed, produced, closeLog, toClose, stack, pc>>
    BY <1>0, <1>12 DEF OverrideInstance, ResolverTypeOK
  <2>2. value[2] \notin Ctx /\ value # NoValue
    BY ResolverAssumption
  <2> HIDE DEF value
  <2>3. StoredWereProduced'
    BY <1>0, <2>1, <2>2 DEF StoredWereProduced, ResolverTypeOK
  <2>4. UntilClosed'
    BY <1>0, <2>1, <2>2 DEF UntilClosed, ResolverTypeOK
  <2>5. NoneLeftOpen'
    <3>1. \A v \in produced : v[1] \in Name /\ v[2] \in Ctx
      BY <1>0 DEF ClosingTypes
    <3> QED BY <1>0, <2>1, <2>2, <3>1 DEF NoneLeftOpen, ResolverTypeOK
  <2>6. ClosingTypes' /\ CandidatesOnce' /\ AtWork'
    BY <1>0, <2>1 DEF ClosingTypes, CandidatesOnce, AtWork
  <2> QED BY <2>3, <2>4, <2>5, <2>6 DEF ClosingInv
<1>13. ASSUME NEW s, NEW n, NEW t, ScopeOverrideInstance(s, n, t) \/ ScopeClose(s)
       PROVE  ClosingInv'
  BY <1>1, <1>13 DEF ScopeOverrideInstance, ScopeClose
<1>14. ASSUME NEW x, CloseBegin(x) PROVE ClosingInv'
  <2>1. /\ toClose' \in Seq(Value) /\ IsInjective(toClose')
        /\ \A n \in Name : instances[n] # NoValue => instances[n] \in Range(toClose')
        /\ \A v \in Range(toClose') : \E k \in CreatedKeys : v = NodeValue[k]
    BY <1>0, <1>14, CandidatesOfClose
  <2>2. /\ isClosed' = TRUE /\ ~isClosed
        /\ UNCHANGED <<instances, typeInstances, produced, closeLog, stack, pc>>
    BY <1>14 DEF CloseBegin, FirstClose
  <2>3. closeLog = << >> /\ Range(closeLog) = {}
    BY <1>0, <2>2 DEF UntilClosed, Range
  <2>4. ASSUME NEW v \in Range(toClose') PROVE v[2] \notin Scope /\ (v[2] \in Ctx => v \in produced)
    <3>1. PICK k \in CreatedKeys : v = NodeValue[k]
      BY <2>1
    <3>2. CASE k \in Name
      <4>1. v = instances[k] /\ v # NoValue
        BY <3>1, <3>2 DEF CreatedKeys, NodeValue
      <4> QED BY <1>0, <3>2, <4>1 DEF ValuesKept, StoredWereProduced
    <3>3. CASE k \in Type
      <4>1. v = typeInstances[k] /\ v # NoValue
        BY <3>1, <3>3 DEF CreatedKeys, NodeValue
      <4> QED BY <1>0, <3>3, <4>1 DEF ValuesKept, StoredWereProduced
    <3> QED BY <3>2, <3>3 DEF CreatedKeys
  <2>5. ClosingTypes' /\ StoredWereProduced' /\ AtWork'
    BY <1>0, <2>1, <2>2 DEF ClosingTypes, StoredWereProduced, AtWork
  <2>6. UntilClosed'
    BY <2>2 DEF UntilClosed
  <2>7. CandidatesOnce'
    BY <1>0, <2>1, <2>2, <2>3, <2>4 DEF CandidatesOnce
  <2>8. NoneLeftOpen'
    <3> SUFFICES ASSUME NEW v \in produced, instances[v[1]] = v PROVE v \in Range(toClose')
      BY <2>2 DEF NoneLeftOpen
    <3>1. v[1] \in Name
      BY <1>0 DEF ClosingTypes
    <3>2. instances[v[1]] # NoValue
      BY <1>0, <2>2 DEF UntilClosed
    <3> QED BY <2>1, <3>1, <3>2
  <2> QED BY <2>5, <2>6, <2>7, <2>8 DEF ClosingInv
<1>15. ASSUME NEW x, CloseValue(x) PROVE ClosingInv'
  <2> DEFINE v == Head(toClose)
  <2>1. /\ toClose # << >> /\ toClose' = Tail(toClose) /\ closeLog' = Append(closeLog, v)
        /\ UNCHANGED <<instances, typeInstances, isClosed, produced, stack, pc>>
    BY <1>15 DEF CloseValue
  <2>2. isClosed
    BY <1>0, <2>1 DEF UntilClosed
  <2>3. closeLog \in Seq(Value) /\ toClose \in Seq(Value)
    BY <1>0 DEF ClosingTypes
  <2>4. /\ DOMAIN closeLog' = DOMAIN closeLog \cup {Len(closeLog) + 1}
        /\ Len(closeLog) + 1 \notin DOMAIN closeLog
        /\ closeLog'[Len(closeLog) + 1] = v
        /\ \A i \in DOMAIN closeLog : closeLog'[i] = closeLog[i]
    BY <2>1, <2>3
  <2>5. /\ 1 \in DOMAIN toClose /\ v = toClose[1] /\ v \in Value
        /\ \A i \in DOMAIN toClose' : i + 1 \in DOMAIN toClose /\ toClose'[i] = toClose[i + 1]
                                      /\ i \in Nat /\ i + 1 # 1
        /\ \A i \in DOMAIN toClose : i # 1 => /\ i - 1 \in DOMAIN toClose'
                                              /\ toClose'[i - 1] = toClose[i]
    BY <2>1, <2>3
  <2> HIDE DEF v
  <2>6. Range(closeLog') = Range(closeLog) \cup {v} /\ v \in Range(toClose)
    BY <2>4, <2>5 DEF Range
  <2>7. Range(toClose') = Range(toClose) \ {v} /\ IsInjective(toClose')
    <3>1. IsInjective(toClose)
      BY <1>0 DEF CandidatesOnce
    <3>2. \A i \in DOMAIN toClose' : toClose'[i] \in Range(toClose) \ {v}
      BY <2>5, <3>1 DEF IsInjective, Range
    <3>3. \A w \in Range(toClose) \ {v} : w \in Range(toClose')
      BY <2>5 DEF Range
    <3>4. ASSUME NEW i \in DOMAIN toClose', NEW j \in DOMAIN toClose', toClose'[i] = toClose'[j]
          PROVE  i = j
      <4>1. i + 1 = j + 1
        BY <2>5, <3>1, <3>4 DEF IsInjective
      <4> QED BY <2>5, <4>1
    <3>5. Range(toClose') \subseteq Range(toClose) \ {v}
      BY <3>2 DEF Range
    <3> QED BY <3>3, <3>4, <3>5 DEF IsInjective
  <2>8. IsInjective(closeLog')
    BY <1>0, <2>4, <2>6 DEF CandidatesOnce, IsInjective, Range
  <2>9. ClosingTypes'
    BY <1>0, <2>1, <2>3, <2>5 DEF ClosingTypes
  <2>10. CandidatesOnce'
    BY <1>0, <2>1, <2>6, <2>7, <2>8 DEF CandidatesOnce
  <2>11. NoneLeftOpen' /\ UntilClosed' /\ StoredWereProduced' /\ AtWork'
    BY <1>0, <2>1, <2>2, <2>6, <2>7
       DEF NoneLeftOpen, UntilClosed, StoredWereProduced, AtWork
  <2> QED BY <2>9, <2>10, <2>11 DEF ClosingInv
<1>16. ASSUME NEW x, CloseAgain(x) \/ CloseEnd(x) \/ UNCHANGED vars PROVE ClosingInv'
  BY <1>1, <1>16 DEF CloseAgain, CloseEnd, vars
<1> HIDE DEF Untouched
<1> QED BY <1>3, <1>4, <1>5, <1>6, <1>7, <1>8, <1>9, <1>10, <1>11, <1>12, <1>13, <1>14, <1>15,
        <1>16 DEF Next, Resolve, Close, Done

THEOREM ClosingInvariance == Spec => []ClosingInv
<1>1. WaitInv /\ Kept /\ ClosingInv /\ [Next]_vars => ClosingInv'
  BY ClosingStep
<1> QED BY ClosingInit, WaitInvariance, KeptInvariance, <1>1, PTL DEF Spec

(* Close, another Close and the creations they race close an instance once *)
(* and leave none open, for any number of contexts and callers of Close    *)
(* (container_close.go, container_resolver.go).                            *)
THEOREM ClosedExactlyOnceHolds == Spec => []ClosedExactlyOnce
<1>1. ClosingInv => ClosedExactlyOnce
  <2> SUFFICES ASSUME ClosingInv PROVE ClosedExactlyOnce
    OBVIOUS
  <2>1. toClose = << >> => Range(toClose) = {}
    BY DEF Range
  <2> QED BY <2>1 DEF ClosingInv, CandidatesOnce, NoneLeftOpen, ClosedExactlyOnce
<1> QED BY ClosingInvariance, <1>1, PTL
-----------------------------------------------------------------------------
(* When dependents are closed first: providers resolve by name, what they  *)
(* need is acyclic, and no override puts its instance under a type that    *)
(* stands for another service.                                             *)
ResolvesByName == \A n \in Name : Deps[n] \subseteq Name

AcyclicDeps ==
  \A S \in SUBSET Name : S # {} => \E n \in S : \A m \in S : n \notin Deps[m]

OverridesKeepTypes ==
  \A n \in Overridable, t \in Type : TypeServices[t] # << >> => Guard(t) = n

(* A type is cached only beside the service it stands for.                 *)
TypesBacked ==
  \A t \in Type :
    typeInstances[t] # NoValue => Guard(t) \in Name /\ instances[Guard(t)] # NoValue

NeededBy(guard) == IF guard \in Name THEN Deps[guard] ELSE {}

EdgesAreNeeds == \A e \in dependencyGraph : e[2] \in NeededBy(Guard(e[1]))

(* v was obtained as a dependency of key: from a scope, or with an edge.   *)
Obtained(key, v, graph, made) ==
  /\ v[2] \in Scope \/ <<key, v[1]>> \in graph
  /\ v[2] \in Ctx => v \in made

(* A provider asks for what its service needs, what it was given came with *)
(* an edge, and so does the creation it waits for.                         *)
Traced(s, graph, made) ==
  \A i \in DOMAIN s :
    /\ s[i].todo \subseteq NeededBy(s[i].guard)
    /\ \A v \in s[i].got : Obtained(s[i].key, v, graph, made)
    /\ i # 1 => <<s[i].key, s[i - 1].key>> \in graph

StacksTraced == \A c \in Ctx : Traced(stack[c], dependencyGraph, produced)

AskedAreNeeds ==
  \A c \in Ctx :
    /\ pc[c] = "idle" => stack[c] = << >>
    /\ stack[c] # << >> /\ asked[c] # NoKey => asked[c] \in NeededBy(Head(stack[c]).guard)
    /\ stack[c] # << >> /\ pc[c] \in {"waiting", "woken"} =>
         <<Head(stack[c]).key, asked[c]>> \in dependencyGraph

(* An instance that is stored was made under a key that Close finds.       *)
HoldsTraced ==
  \A h \in holds :
    /\ h[1] \in produced
    /\ \E k \in Key : /\ Guard(k) = h[1][1] /\ Obtained(k, h[2], dependencyGraph, produced)
                      /\ instances[h[1][1]] = h[1] /\ k \in Type => typeInstances[k] # NoValue

OrderKept ==
  \A h \in holds : instances[h[1][1]] = h[1] =>
    /\ h[2] \in Range(closeLog) => h[1] \in Range(closeLog)
    /\ \A j \in DOMAIN toClose : toClose[j] = h[2] =>
         h[1] \in Range(closeLog) \/ \E i \in DOMAIN toClose : i < j /\ toClose[i] = h[1]

DependencyInv == /\ TypesBacked /\ EdgesAreNeeds /\ StacksTraced /\ AskedAreNeeds
                 /\ HoldsTraced /\ OrderKept

LEMMA DependencyInit == Init => DependencyInv
<1> SUFFICES ASSUME Init PROVE DependencyInv
  OBVIOUS
<1>1. /\ closeLog = << >> /\ toClose = << >> /\ produced = {} /\ holds = {}
      /\ dependencyGraph = {} /\ \A t \in Type : typeInstances[t] = NoValue
      /\ \A c \in Ctx : stack[c] = << >>
  BY DEF Init
<1>2. TypesBacked /\ EdgesAreNeeds /\ HoldsTraced /\ OrderKept
  BY <1>1 DEF TypesBacked, EdgesAreNeeds, HoldsTraced, OrderKept
<1>3. StacksTraced /\ AskedAreNeeds
  BY <1>1 DEF StacksTraced, AskedAreNeeds, Traced
<1> QED BY <1>2, <1>3 DEF DependencyInv

(* What the trace of a stack says under a push, a pop, a change of the     *)
(* innermost frame, and more edges.                                        *)
LEMMA TracedGrows ==
  ASSUME NEW s, NEW graph, NEW made, NEW graph2, NEW made2, graph \subseteq graph2,
         made \subseteq made2, Traced(s, graph, made)
  PROVE  Traced(s, graph2, made2)
BY DEF Traced, Obtained

LEMMA TracedPush ==
  ASSUME NEW s \in Seq(Frame), NEW graph, NEW made, Traced(s, graph, made), NEW f,
         f.todo \subseteq NeededBy(f.guard), f.got = {},
         s # << >> => <<Head(s).key, f.key>> \in graph
  PROVE  Traced(<<f>> \o s, graph, made)
<1> DEFINE t == <<f>> \o s
<1>1. /\ DOMAIN s = 1 .. Len(s) /\ DOMAIN t = 1 .. Len(s) + 1 /\ Len(s) \in Nat
      /\ t[1] = f /\ \A i \in 2 .. Len(s) + 1 : t[i] = s[i - 1]
  OBVIOUS
<1>2. s # << >> => Head(s) = s[1]
  OBVIOUS
<1> HIDE DEF t
<1>3. ASSUME NEW i \in DOMAIN t
      PROVE  /\ t[i].todo \subseteq NeededBy(t[i].guard)
             /\ \A v \in t[i].got : Obtained(t[i].key, v, graph, made)
             /\ i # 1 => <<t[i].key, t[i - 1].key>> \in graph
  <2>1. CASE i = 1
    BY <1>1, <2>1
  <2>2. CASE i = 2
    <3>1. t[2] = s[1] /\ 1 \in DOMAIN s /\ s # << >> /\ t[2 - 1] = f /\ Head(s) = s[1]
      BY <1>1, <1>2, <2>2
    <3>2. /\ s[1].todo \subseteq NeededBy(s[1].guard)
          /\ \A v \in s[1].got : Obtained(s[1].key, v, graph, made)
      BY <3>1 DEF Traced
    <3> HIDE DEF t
    <3> QED BY <2>2, <3>1, <3>2
  <2>3. CASE i # 1 /\ i # 2
    <3>1. t[i] = s[i - 1] /\ i - 1 \in DOMAIN s /\ t[i - 1] = s[(i - 1) - 1] /\ i - 1 # 1
      BY <1>1, <2>3
    <3> QED BY <3>1 DEF Traced
  <2> QED BY <2>1, <2>2, <2>3
<1> QED BY <1>3 DEF Traced, t

LEMMA TracedPop ==
  ASSUME NEW s \in Seq(Frame), s # << >>, NEW graph, NEW made, Traced(s, graph, made)
  PROVE  Traced(Tail(s), graph, made)
<1> DEFINE t == Tail(s)
<1>1. \A i \in DOMAIN t : /\ i + 1 # 1 /\ i + 1 \in DOMAIN s /\ t[i] = s[i + 1]
                          /\ i # 1 => t[i - 1] = s[i] /\ s[i] = s[(i + 1) - 1]
  OBVIOUS
<1> HIDE DEF t
<1>2. ASSUME NEW i \in DOMAIN t
      PROVE  /\ t[i].todo \subseteq NeededBy(t[i].guard)
             /\ \A v \in t[i].got : Obtained(t[i].key, v, graph, made)
             /\ i # 1 => <<t[i].key, t[i - 1].key>> \in graph
  <2>1. /\ i + 1 \in DOMAIN s /\ t[i] = s[i + 1] /\ i + 1 # 1
        /\ i # 1 => t[i - 1] = s[(i + 1) - 1]
    BY <1>1
  <2>2. /\ s[i + 1].todo \subseteq NeededBy(s[i + 1].guard)
        /\ \A v \in s[i + 1].got : Obtained(s[i + 1].key, v, graph, made)
        /\ <<s[i + 1].key, s[(i + 1) - 1].key>> \in graph
    BY <2>1 DEF Traced
  <2> QED BY <2>1, <2>2
<1> QED BY <1>2 DEF Traced, t

LEMMA TracedChange ==
  ASSUME NEW s \in Seq(Frame), s # << >>, NEW graph, NEW made, Traced(s, graph, made), NEW f,
         f.key = Head(s).key, f.guard = Head(s).guard, f.todo \subseteq Head(s).todo,
         \A v \in f.got : v \in Head(s).got \/ Obtained(f.key, v, graph, made)
  PROVE  Traced(<<f>> \o Tail(s), graph, made)
<1> DEFINE t == <<f>> \o Tail(s)
<1>1. /\ DOMAIN t = DOMAIN s /\ s[1] = Head(s) /\ t[1] = f
      /\ \A i \in DOMAIN s : i # 1 => t[i] = s[i]
  BY NewHead
<1>2. \A i \in DOMAIN s : i \in Nat /\ (i # 1 => i - 1 \in DOMAIN s)
  OBVIOUS
<1> HIDE DEF t
<1>3. ASSUME NEW i \in DOMAIN t
      PROVE  /\ t[i].todo \subseteq NeededBy(t[i].guard)
             /\ \A v \in t[i].got : Obtained(t[i].key, v, graph, made)
             /\ i # 1 => <<t[i].key, t[i - 1].key>> \in graph
  <2>1. CASE i = 1
    BY <1>1, <2>1 DEF Traced
  <2>2. CASE i # 1
    <3>1. t[i] = s[i] /\ t[i - 1].key = s[i - 1].key /\ i \in DOMAIN s
      BY <1>1, <1>2, <2>2
    <3> QED BY <2>2, <3>1 DEF Traced
  <2> QED BY <2>1, <2>2
<1> QED BY <1>3 DEF Traced, t

(* What an answer leaves: the other contexts as they were, but for those   *)
(* it wakes, and the innermost provider with what it was given.            *)
LEMMA AnswerTraced ==
  ASSUME ResolverTypeOK, StacksTraced, AskedAreNeeds, NEW c \in Ctx, NEW outer \in Seq(Frame),
         NEW woken, \A d \in woken : pc[d] = "waiting", NEW value, NEW error,
         Answer(c, outer, woken, value, error),
         dependencyGraph \subseteq dependencyGraph', produced \subseteq produced',
         Traced(outer, dependencyGraph', produced'),
         outer # << >> /\ error = "none" =>
           Obtained(Head(outer).key, value, dependencyGraph', produced')
  PROVE  StacksTraced' /\ AskedAreNeeds'
<1>1. \A d \in Ctx : d # c => stack'[d] = stack[d] /\ asked'[d] = asked[d]
                              /\ (pc'[d] = pc[d] \/ (pc[d] = "waiting" /\ pc'[d] = "woken"))
  BY DEF Answer, NextPc, ResolverTypeOK
<1>2. asked'[c] = NoKey /\ pc'[c] \in {"done", "running"}
  BY DEF Answer, NextPc, ResolverTypeOK
<1>3. Traced(stack'[c], dependencyGraph', produced')
  <2>1. CASE outer = << >>
    BY <2>1 DEF Answer, ResolverTypeOK
  <2>2. CASE outer # << >>
    <3> DEFINE f == Received(Head(outer), value, error)
    <3>1. Head(outer) \in Frame
      BY <2>2, FrameStack
    <3>2. /\ f.key = Head(outer).key /\ f.guard = Head(outer).guard /\ f.todo = Head(outer).todo
          /\ \A v \in f.got : v \in Head(outer).got \/ (error = "none" /\ v = value)
      BY <3>1 DEF Received, Frame
    <3>3. stack'[c] = <<f>> \o Tail(outer)
      BY <2>2 DEF Answer, ResolverTypeOK
    <3> HIDE DEF f
    <3>4. \A v \in f.got : v \in Head(outer).got
                           \/ Obtained(f.key, v, dependencyGraph', produced')
      BY <2>2, <3>2
    <3> QED BY <2>2, <3>2, <3>3, <3>4, TracedChange
  <2> QED BY <2>1, <2>2
<1>4. StacksTraced'
  <2>1. \A d \in Ctx : d # c => Traced(stack'[d], dependencyGraph', produced')
    BY <1>1, TracedGrows DEF StacksTraced
  <2> QED BY <1>3, <2>1 DEF StacksTraced
<1>5. AskedAreNeeds'
  BY <1>1, <1>2 DEF AskedAreNeeds
<1> QED BY <1>4, <1>5

(* What Close goes through when every type is backed: the services stored, *)
(* and a service before one that was obtained for it.                      *)
LEMMA StandsForItself ==
  ASSUME ResolverTypeOK, ValuesKept, TypesBacked, NEW k \in CreatedKeys
  PROVE  /\ Guard(k) \in CreatedKeys \cap Name
         /\ Representative(CreatedKeys, NodeValue, Value)[k] = Guard(k)
<1> DEFINE rep == Representative(CreatedKeys, NodeValue, Value)
<1>1. CreatedKeys \in SUBSET Key
  BY DEF CreatedKeys
<1>2. \A n \in CreatedKeys \cap Name : NodeValue[n] = instances[n] /\ instances[n][1] = n
  BY DEF CreatedKeys, NodeValue, ValuesKept
<1>3. ASSUME NEW n \in CreatedKeys \cap Name
      PROVE  ServiceRepresentative(CreatedKeys, NodeValue, Value, n) = n
  <2>1. ServiceRepresentative(CreatedKeys, NodeValue, Value, n) \in CreatedKeys \cap Name
        /\ SameInstance(NodeValue, Value, ServiceRepresentative(CreatedKeys, NodeValue, Value, n), n)
    BY <1>1, ServiceRepresentatives
  <2> QED BY <1>2, <2>1 DEF SameInstance
<1>4. CASE k \in Name
  BY <1>3, <1>4 DEF Representative, Guard
<1>5. CASE k \notin Name
  <2>1. k \in Type /\ typeInstances[k] # NoValue
    BY <1>5 DEF CreatedKeys, NodeValue
  <2>2. Guard(k) \in Name /\ instances[Guard(k)] # NoValue
    BY <2>1 DEF TypesBacked
  <2>3. Guard(k) \in CreatedKeys \cap Name
    BY <2>2 DEF CreatedKeys, NodeValue
  <2>4. Len(TypeServices[k]) = 1 /\ Guard(k) = TypeServices[k][1]
    BY <2>1, <2>2 DEF Guard
  <2>5. Backing(CreatedKeys, k) = {1}
    <3>1. TypeServices[k] \in Seq(Name)
      BY <2>1, TypeServicesAssumption
    <3>2. DOMAIN TypeServices[k] = {1}
      BY <2>4, <3>1
    <3> QED BY <2>3, <2>4, <3>2 DEF Backing
  <2>6. Aliased(CreatedKeys, k) /\ BackingService(CreatedKeys, k) = Guard(k)
    <3>1. Min({1}) = 1
      BY MinIsLeast
    <3> QED BY <2>4, <2>5, <3>1 DEF Aliased, BackingService
  <2>7. rep[k] = ServiceRepresentative(CreatedKeys, NodeValue, Value, Guard(k))
    BY <1>5, <2>6 DEF Representative, TypeRepresentative
  <2> QED BY <1>3, <2>3, <2>7
<1> QED BY <1>4, <1>5

LEMMA OrderBegins ==
  ASSUME ResolvesByName, AcyclicDeps, ResolverTypeOK, ValuesKept, TypesBacked, EdgesAreNeeds,
         NEW x, CloseBegin(x), IsInjective(toClose'),
         NEW k \in CreatedKeys, NEW v \in Value, <<k, v[1]>> \in dependencyGraph,
         NEW j \in DOMAIN toClose', toClose'[j] = v
  PROVE  \E i \in DOMAIN toClose' : i < j /\ toClose'[i] = instances[Guard(k)]
<1> DEFINE order == CloseOrder(CreatedKeys, NodeValue, Value, dependencyGraph)
           cycle == CloseCycle(CreatedKeys, NodeValue, Value, dependencyGraph)
           rep == Representative(CreatedKeys, NodeValue, Value)
           edges == CollapsedEdges(rep, dependencyGraph)
<1>1. CreatedKeys \in SUBSET Key
  BY DEF CreatedKeys
<1>2. /\ Lists(order, Range(rep))
      /\ ~cycle => \A e \in dependencyGraph :
           e[1] \in CreatedKeys /\ e[2] \in CreatedKeys /\ rep[e[1]] # rep[e[2]] =>
             Precedes(order, rep[e[1]], rep[e[2]])
  BY <1>1, CloseOrderSorts
<1>3. /\ rep \in [CreatedKeys -> CreatedKeys]
      /\ \A m \in CreatedKeys : Guard(m) \in CreatedKeys \cap Name /\ rep[m] = Guard(m)
  BY <1>1, Representatives, StandsForItself
<1>4. ~cycle
  <2> SUFFICES ASSUME NEW S \in SUBSET Range(rep), S # {}, Available(S, edges) = {} PROVE FALSE
    BY DEF CloseCycle, CycleAmong
  <2>1. S \in SUBSET Name
    BY <1>3 DEF Range
  <2>2. PICK n \in S : \A m \in S : n \notin Deps[m]
    BY <2>1 DEF AcyclicDeps
  <2>3. PICK m \in S : <<m, n>> \in edges
    BY <2>2 DEF Available
  <2>4. PICK e \in dependencyGraph : /\ e[1] \in CreatedKeys /\ e[2] \in CreatedKeys
                                     /\ rep[e[1]] = m /\ rep[e[2]] = n
    BY <1>3, <2>3 DEF CollapsedEdges
  <2>5. m \in Name /\ e[2] \in Deps[m] /\ e[2] \in Name
    BY <1>3, <2>1, <2>4 DEF EdgesAreNeeds, NeededBy, ResolvesByName
  <2>6. n = e[2]
    BY <1>3, <2>4, <2>5 DEF Guard
  <2> QED BY <2>2, <2>5, <2>6
<1>5. toClose' = [i \in DOMAIN order |-> NodeValue[order[i]]]
  BY DEF CloseBegin
<1> HIDE DEF order, cycle, rep, edges
<1>6. /\ DOMAIN order = 1 .. Len(order) /\ Len(order) \in Nat
      /\ \A i \in DOMAIN order : order[i] \in CreatedKeys \cap Name
  BY <1>2, <1>3 DEF Lists, Range
<1>7. v[1] = order[j] /\ v[1] \in CreatedKeys \cap Name
  <2>1. v = instances[order[j]] /\ v # NoValue /\ order[j] \in CreatedKeys \cap Name
    BY <1>5, <1>6 DEF NodeValue, CreatedKeys
  <2> QED BY <2>1 DEF ValuesKept
<1>8. v[1] \in Deps[Guard(k)] /\ v[1] # Guard(k)
  <2>1. v[1] \in Deps[Guard(k)] /\ Guard(k) \in Name
    BY <1>3 DEF EdgesAreNeeds, NeededBy
  <2>2. {Guard(k)} \in SUBSET Name /\ {Guard(k)} # {}
    BY <2>1
  <2>3. \E n \in {Guard(k)} : \A m \in {Guard(k)} : n \notin Deps[m]
    BY <2>2 DEF AcyclicDeps
  <2> QED BY <2>1, <2>3
<1>9. rep[k] = Guard(k) /\ rep[v[1]] = v[1]
  BY <1>3, <1>7 DEF Guard
<1>10. Precedes(order, Guard(k), v[1])
  BY <1>2, <1>4, <1>7, <1>8, <1>9
<1>11. PICK i \in DOMAIN order, l \in DOMAIN order : i < l /\ order[i] = Guard(k) /\ order[l] = v[1]
  BY <1>6, <1>10 DEF Precedes
<1>12. l = j
  BY <1>2, <1>5, <1>6, <1>7, <1>11 DEF Lists
<1>13. toClose'[i] = instances[Guard(k)]
  BY <1>3, <1>5, <1>11 DEF NodeValue
<1> QED BY <1>5, <1>11, <1>12, <1>13

-----------------------------------------------------------------------------
(* An action that stores and closes nothing.                               *)
LEMMA DependencyKept ==
  ASSUME DependencyInv, UNCHANGED <<instances, produced, holds, closeLog, toClose>>,
         dependencyGraph \subseteq dependencyGraph',
         \A t \in Type :
           \/ typeInstances'[t] = typeInstances[t]
           \/ typeInstances'[t] # NoValue /\ Guard(t) \in Name /\ instances[Guard(t)] # NoValue,
         EdgesAreNeeds', StacksTraced', AskedAreNeeds'
  PROVE  DependencyInv'
<1>1. TypesBacked'
  BY DEF DependencyInv, TypesBacked
<1>2. OrderKept'
  BY DEF DependencyInv, OrderKept
<1>3. HoldsTraced'
  <2> SUFFICES ASSUME NEW h \in holds
               PROVE  /\ h[1] \in produced
                      /\ \E k \in Key :
                           /\ Guard(k) = h[1][1] /\ Obtained(k, h[2], dependencyGraph', produced)
                           /\ instances[h[1][1]] = h[1] /\ k \in Type => typeInstances'[k] # NoValue
    BY DEF HoldsTraced
  <2>1. PICK k \in Key : /\ Guard(k) = h[1][1] /\ Obtained(k, h[2], dependencyGraph, produced)
                         /\ instances[h[1][1]] = h[1] /\ k \in Type => typeInstances[k] # NoValue
    BY DEF DependencyInv, HoldsTraced
  <2>2. Obtained(k, h[2], dependencyGraph', produced)
    BY <2>1 DEF Obtained
  <2> QED BY <2>1, <2>2 DEF DependencyInv, HoldsTraced
<1> QED BY <1>1, <1>2, <1>3 DEF DependencyInv

(* The edge a Get records.                                                 *)
LEMMA EdgeNeeded ==
  ASSUME ResolverTypeOK, StacksKept, EdgesAreNeeds, AskedAreNeeds, NEW c \in Ctx,
         asked[c] # NoKey, RegisterDependency(c)
  PROVE  /\ dependencyGraph \subseteq dependencyGraph' /\ EdgesAreNeeds'
         /\ stack[c] # << >> => <<Head(stack[c]).key, asked[c]>> \in dependencyGraph'
<1>1. CASE stack[c] = << >>
  BY <1>1 DEF RegisterDependency, EdgesAreNeeds
<1>2. CASE stack[c] # << >>
  <2>1. dependencyGraph' = dependencyGraph \cup {<<Head(stack[c]).key, asked[c]>>}
    BY <1>2 DEF RegisterDependency
  <2>2. Head(stack[c]).guard = Guard(Head(stack[c]).key)
    <3>1. stack[c] \in Seq(Frame)
      BY DEF ResolverTypeOK
    <3>2. 1 \in DOMAIN stack[c] /\ Head(stack[c]) = stack[c][1]
      BY <1>2, <3>1
    <3> QED BY <3>2 DEF StacksKept, Keeps
  <2>3. asked[c] \in NeededBy(Guard(Head(stack[c]).key))
    BY <1>2, <2>2 DEF AskedAreNeeds
  <2> QED BY <2>1, <2>3 DEF EdgesAreNeeds
<1> QED BY <1>1, <1>2

(* A provider that asks by name is given an instance of what it asked for. *)
LEMMA CachedObtained ==
  ASSUME ResolvesByName, ValuesKept, StoredWereProduced, AskedAreNeeds, NEW c \in Ctx,
         stack[c] # << >>, asked[c] # NoKey, Cached(Guard(asked[c])) # NoValue,
         NEW graph, <<Head(stack[c]).key, asked[c]>> \in graph
  PROVE  Obtained(Head(stack[c]).key, Cached(Guard(asked[c])), graph, produced)
<1>1. asked[c] \in Name
  BY DEF AskedAreNeeds, NeededBy, ResolvesByName
<1>2. Cached(Guard(asked[c])) = instances[asked[c]]
  BY <1>1 DEF Cached, Guard
<1> QED BY <1>1, <1>2 DEF Obtained, ValuesKept, StoredWereProduced

(* An action that only answers the innermost Get of c.                     *)
LEMMA AnswerKeepsOrder ==
  ASSUME ResolverTypeOK, DependencyInv, NEW c \in Ctx, NEW value, NEW error,
         Answer(c, stack[c], {}, value, error),
         UNCHANGED <<instances, produced, holds, closeLog, toClose>>,
         dependencyGraph \subseteq dependencyGraph', EdgesAreNeeds',
         \A t \in Type :
           \/ typeInstances'[t] = typeInstances[t]
           \/ typeInstances'[t] # NoValue /\ Guard(t) \in Name /\ instances[Guard(t)] # NoValue,
         stack[c] # << >> /\ error = "none" =>
           Obtained(Head(stack[c]).key, value, dependencyGraph', produced)
  PROVE  DependencyInv'
<1>1. StacksTraced /\ AskedAreNeeds /\ stack[c] \in Seq(Frame)
  BY DEF DependencyInv, ResolverTypeOK
<1>2. Traced(stack[c], dependencyGraph', produced')
  BY <1>1, TracedGrows DEF StacksTraced
<1>3. StacksTraced' /\ AskedAreNeeds'
  BY <1>1, <1>2, AnswerTraced
<1> QED BY <1>3, DependencyKept

LEMMA DependencyStep ==
  ASSUME ResolvesByName, AcyclicDeps, OverridesKeepTypes
  PROVE  WaitInv /\ Kept /\ ClosingInv /\ DependencyInv /\ [Next]_vars => DependencyInv'
<1> SUFFICES ASSUME WaitInv, Kept, ClosingInv, DependencyInv, [Next]_vars PROVE DependencyInv'
  OBVIOUS
<1> USE DEF registryVars, resolverVars, scopeVars, closeVars, historyVars
<1>0. /\ ResolverTypeOK /\ PcConsistent /\ StacksKept /\ ValuesKept
      /\ ClosingTypes /\ StoredWereProduced /\ AtWork /\ UntilClosed /\ CandidatesOnce
      /\ TypesBacked /\ EdgesAreNeeds /\ StacksTraced /\ AskedAreNeeds /\ HoldsTraced /\ OrderKept
      /\ stack \in [Ctx -> Seq(Frame)]
  BY DEF WaitInv, Kept, ClosingInv, DependencyInv, ResolverTypeOK
<1> DEFINE Untouched == UNCHANGED <<instances, produced, holds, closeLog, toClose>>
           NoneStored == UNCHANGED <<instances, typeInstances, produced, holds, closeLog, toClose>>
<1>1. ASSUME NEW c \in Ctx, NEW k, Request(c, k) PROVE DependencyInv'
  <2>1. NoneStored /\ UNCHANGED <<dependencyGraph, stack>> /\ stack[c] = << >>
    BY <1>0, <1>1 DEF Request, Enter, AskedAreNeeds
  <2>2. \A d \in Ctx : IF d = c THEN pc'[d] \in {"locking", "entered"}
                       ELSE pc'[d] = pc[d] /\ asked'[d] = asked[d]
    BY <1>0, <1>1 DEF Request, Enter, ResolverTypeOK
  <2>3. AskedAreNeeds'
    BY <1>0, <2>1, <2>2 DEF AskedAreNeeds
  <2>4. StacksTraced' /\ EdgesAreNeeds'
    BY <1>0, <2>1 DEF StacksTraced, EdgesAreNeeds
  <2> QED BY <2>1, <2>3, <2>4, DependencyKept
<1>2. ASSUME NEW c \in Ctx, NEW k \in Key, ProviderGet(c, k) \/ ProviderGetCircular(c, k)
      PROVE  DependencyInv'
  <2> DEFINE f0 == Head(stack[c])
  <2>1. stack[c] # << >> /\ f0 \in Frame /\ pc[c] = "running" /\ k \in f0.todo
        /\ stack[c] \in Seq(Frame)
    BY <1>0, <1>2, FrameStack DEF ProviderGet, ProviderGetCircular, PcConsistent
  <2>2. PICK f : /\ f.key = f0.key /\ f.guard = f0.guard /\ f.todo \subseteq f0.todo /\ f.got = f0.got
                 /\ stack' = [stack EXCEPT ![c] = <<f>> \o Tail(stack[c])]
    <3>1. /\ Without(f0, k) \in Frame /\ Without(f0, k).key = f0.key
          /\ Without(f0, k).guard = f0.guard /\ Without(f0, k).todo \subseteq f0.todo
          /\ Without(f0, k).got = f0.got
      BY <2>1 DEF Without, Frame
    <3> DEFINE w == Without(f0, k)
               r == Received(w, NoValue, "circular")
    <3>2. /\ r.key = w.key /\ r.guard = w.guard /\ r.todo = w.todo /\ r.got = w.got
      <4> HIDE DEF w
      <4> QED BY <3>1 DEF Received, Frame, w
    <3> QED BY <1>2, <3>1, <3>2 DEF ProviderGet, ProviderGetCircular
  <2>3. NoneStored /\ UNCHANGED dependencyGraph
    BY <1>2 DEF ProviderGet, ProviderGetCircular, Enter
  <2>4. \A d \in Ctx : d # c => stack'[d] = stack[d] /\ pc'[d] = pc[d] /\ asked'[d] = asked[d]
    BY <1>0, <1>2, <2>2 DEF ProviderGet, ProviderGetCircular, Enter, ResolverTypeOK
  <2>5. /\ pc'[c] \in {"locking", "entered", "running"}
        /\ asked'[c] = k \/ asked'[c] = asked[c]
    BY <1>0, <1>2, <2>1 DEF ProviderGet, ProviderGetCircular, Enter, ResolverTypeOK
  <2>6. stack'[c] = <<f>> \o Tail(stack[c]) /\ Head(stack'[c]) = f
    BY <1>0, <2>1, <2>2
  <2>7. Traced(stack'[c], dependencyGraph, produced)
    <3>1. Traced(stack[c], dependencyGraph, produced)
      BY <1>0 DEF StacksTraced
    <3> QED BY <2>1, <2>2, <2>6, <3>1, TracedChange
  <2>8. f0.todo \subseteq NeededBy(f0.guard)
    <3>1. 1 \in DOMAIN stack[c] /\ f0 = stack[c][1]
      BY <2>1
    <3> QED BY <1>0, <3>1 DEF StacksTraced, Traced
  <2>9. AskedAreNeeds'
    <3>1. \A d \in Ctx : d # c =>
            /\ pc'[d] = "idle" => stack'[d] = << >>
            /\ stack'[d] # << >> /\ asked'[d] # NoKey => asked'[d] \in NeededBy(Head(stack'[d]).guard)
            /\ stack'[d] # << >> /\ pc'[d] \in {"waiting", "woken"} =>
                 <<Head(stack'[d]).key, asked'[d]>> \in dependencyGraph
      BY <1>0, <2>4 DEF AskedAreNeeds
    <3>2. asked'[c] # NoKey => asked'[c] \in NeededBy(f.guard)
      BY <1>0, <2>1, <2>2, <2>5, <2>8 DEF AskedAreNeeds
    <3> QED BY <2>3, <2>5, <2>6, <3>1, <3>2 DEF AskedAreNeeds
  <2>10. StacksTraced' /\ EdgesAreNeeds'
    BY <1>0, <2>3, <2>4, <2>7 DEF StacksTraced, EdgesAreNeeds
  <2> QED BY <2>3, <2>9, <2>10, DependencyKept
<1>3. ASSUME NEW c \in Ctx, LookupScope(c) PROVE DependencyInv'
  <2> DEFINE s == ScopeOf[c]
             found == scopeInstances[s][asked[c]]
  <2>1. NoneStored /\ UNCHANGED dependencyGraph /\ EdgesAreNeeds' /\ s \in Scope /\ asked[c] \in Key
        /\ pc[c] = "entered"
    BY <1>0, <1>3 DEF LookupScope, EdgesAreNeeds, PcConsistent
  <2>2. CASE Answer(c, stack[c], {}, NoValue, "scopeClosed")
    BY <1>0, <2>1, <2>2, AnswerKeepsOrder
  <2>3. CASE found # NoValue /\ Answer(c, stack[c], {}, found, "none")
    <3>1. found[2] \in Scope /\ found[2] \notin Ctx
      BY <1>0, <2>1, <2>3, ResolverAssumption DEF ValuesKept
    <3> HIDE DEF found
    <3>2. Obtained(Head(stack[c]).key, found, dependencyGraph', produced')
      BY <3>1 DEF Obtained
    <3> QED BY <1>0, <2>1, <2>3, <3>2, AnswerKeepsOrder
  <2>4. CASE pc' = [pc EXCEPT ![c] = "locking"] /\ UNCHANGED <<stack, asked>>
    <3>1. \A d \in Ctx : pc'[d] = pc[d] \/ (d = c /\ pc'[d] = "locking")
      BY <1>0, <2>4 DEF ResolverTypeOK
    <3>2. AskedAreNeeds' /\ StacksTraced'
      BY <1>0, <2>1, <2>4, <3>1 DEF AskedAreNeeds, StacksTraced
    <3> QED BY <1>0, <2>1, <3>2, DependencyKept
  <2> QED BY <1>3, <2>2, <2>3, <2>4 DEF LookupScope
<1>4. ASSUME NEW c \in Ctx, ResolveAmbiguous(c) \/ ResolveCircular(c) \/ ResolveClosed(c)
      PROVE  DependencyInv'
  <2>1. NoneStored /\ RegisterDependency(c) /\ asked[c] # NoKey
        /\ \E error : error # "none" /\ Answer(c, stack[c], {}, NoValue, error)
    BY <1>0, <1>4, ResolverAssumption
       DEF ResolveAmbiguous, ResolveCircular, ResolveClosed, Missing, PcConsistent
  <2>2. dependencyGraph \subseteq dependencyGraph' /\ EdgesAreNeeds'
    BY <1>0, <2>1, EdgeNeeded
  <2> QED BY <1>0, <2>1, <2>2, AnswerKeepsOrder
<1>5. ASSUME NEW c \in Ctx, ResolveHit(c) PROVE DependencyInv'
  <2> DEFINE k == asked[c]
             value == Cached(Guard(k))
  <2>1. Untouched /\ RegisterDependency(c) /\ k \in Key /\ k # NoKey /\ value # NoValue
        /\ Answer(c, stack[c], {}, value, "none")
    BY <1>0, <1>5, ResolverAssumption DEF ResolveHit, PcConsistent
  <2>2. /\ dependencyGraph \subseteq dependencyGraph' /\ EdgesAreNeeds'
        /\ stack[c] # << >> => <<Head(stack[c]).key, k>> \in dependencyGraph'
    BY <1>0, <2>1, EdgeNeeded
  <2>3. stack[c] # << >> => Obtained(Head(stack[c]).key, value, dependencyGraph', produced')
    <3> SUFFICES ASSUME stack[c] # << >>
                 PROVE  Obtained(Head(stack[c]).key, value, dependencyGraph', produced)
      BY <2>1
    <3> QED BY <1>0, <2>1, <2>2, CachedObtained
  <2>4. ASSUME NEW t \in Type
        PROVE  \/ typeInstances'[t] = typeInstances[t]
               \/ typeInstances'[t] # NoValue /\ Guard(t) \in Name /\ instances[Guard(t)] # NoValue
    <3>1. CASE t # k
      BY <1>0, <1>5, <3>1 DEF ResolveHit, ResolverTypeOK
    <3>2. CASE t = k /\ Guard(t) \in Name
      BY <1>0, <1>5, <2>1, <3>2 DEF ResolveHit, ResolverTypeOK, Cached
    <3>3. CASE t = k /\ Guard(t) \notin Name
      <4>1. Guard(t) = t
        <5>1. TypeServices[t] \in Seq(Name)
          BY TypeServicesAssumption
        <5> QED BY <3>3, <5>1 DEF Guard
      <4>2. value = typeInstances[t]
        BY <3>3, <4>1 DEF Cached
      <4> QED BY <1>0, <2>1, <3>3, <4>2 DEF TypesBacked
    <3> QED BY <3>1, <3>2, <3>3
  <2> HIDE DEF value
  <2> QED BY <1>0, <2>1, <2>2, <2>3, <2>4, AnswerKeepsOrder
<1>6. ASSUME NEW c \in Ctx, ResolveWait(c) PROVE DependencyInv'
  <2>1. NoneStored /\ RegisterDependency(c) /\ asked[c] # NoKey /\ UNCHANGED <<stack, asked>>
        /\ pc' = [pc EXCEPT ![c] = "waiting"]
    BY <1>0, <1>6, ResolverAssumption DEF ResolveWait, Missing, PcConsistent
  <2>2. /\ dependencyGraph \subseteq dependencyGraph' /\ EdgesAreNeeds'
        /\ stack[c] # << >> => <<Head(stack[c]).key, asked[c]>> \in dependencyGraph'
    BY <1>0, <2>1, EdgeNeeded
  <2>3. StacksTraced'
    BY <1>0, <2>1, <2>2, TracedGrows DEF StacksTraced
  <2>4. \A d \in Ctx : pc'[d] = IF d = c THEN "waiting" ELSE pc[d]
    BY <1>0, <2>1 DEF ResolverTypeOK
  <2>5. AskedAreNeeds'
    <3> SUFFICES ASSUME NEW d \in Ctx
                 PROVE  /\ pc'[d] = "idle" => stack[d] = << >>
                        /\ stack[d] # << >> /\ asked[d] # NoKey =>
                             asked[d] \in NeededBy(Head(stack[d]).guard)
                        /\ stack[d] # << >> /\ pc'[d] \in {"waiting", "woken"} =>
                             <<Head(stack[d]).key, asked[d]>> \in dependencyGraph'
      BY <2>1 DEF AskedAreNeeds
    <3>1. CASE d = c
      BY <1>0, <2>2, <2>4, <3>1 DEF AskedAreNeeds
    <3>2. CASE d # c
      BY <1>0, <2>2, <2>4, <3>2 DEF AskedAreNeeds
    <3> QED BY <3>1, <3>2
  <2> QED BY <2>1, <2>2, <2>3, <2>5, DependencyKept
<1>7. ASSUME NEW c \in Ctx, ResolveCreate(c) PROVE DependencyInv'
  <2> DEFINE f == NewFrame(asked[c])
  <2>1. NoneStored /\ RegisterDependency(c) /\ asked[c] \in Key /\ asked[c] # NoKey
        /\ stack' = [stack EXCEPT ![c] = <<f>> \o stack[c]] /\ asked' = [asked EXCEPT ![c] = NoKey]
        /\ pc' = [pc EXCEPT ![c] = "running"]
    BY <1>0, <1>7, ResolverAssumption DEF ResolveCreate, Missing, PcConsistent
  <2>2. /\ dependencyGraph \subseteq dependencyGraph' /\ EdgesAreNeeds'
        /\ stack[c] # << >> => <<Head(stack[c]).key, asked[c]>> \in dependencyGraph'
    BY <1>0, <2>1, EdgeNeeded
  <2>3. f.todo \subseteq NeededBy(f.guard) /\ f.got = {} /\ f.key = asked[c]
    BY DEF NewFrame, NeededBy, Registered
  <2> HIDE DEF f
  <2>4. /\ stack'[c] = <<f>> \o stack[c] /\ stack[c] \in Seq(Frame) /\ asked'[c] = NoKey
        /\ pc'[c] = "running"
        /\ \A d \in Ctx : d # c => stack'[d] = stack[d] /\ asked'[d] = asked[d] /\ pc'[d] = pc[d]
    BY <1>0, <2>1 DEF ResolverTypeOK
  <2>5. Traced(stack'[c], dependencyGraph', produced)
    <3>1. Traced(stack[c], dependencyGraph', produced)
      BY <1>0, <2>2, TracedGrows DEF StacksTraced
    <3> QED BY <2>2, <2>3, <2>4, <3>1, TracedPush
  <2>6. StacksTraced'
    BY <1>0, <2>1, <2>2, <2>4, <2>5, TracedGrows DEF StacksTraced
  <2>7. AskedAreNeeds'
    BY <1>0, <2>2, <2>4 DEF AskedAreNeeds
  <2> QED BY <2>1, <2>2, <2>6, <2>7, DependencyKept
<1>8. ASSUME NEW c \in Ctx, Resume(c) PROVE DependencyInv'
  <2> DEFINE value == Cached(Guard(asked[c]))
  <2>1. NoneStored /\ UNCHANGED dependencyGraph /\ EdgesAreNeeds' /\ pc[c] = "woken"
        /\ asked[c] # NoKey
    BY <1>0, <1>8, ResolverAssumption DEF Resume, EdgesAreNeeds, PcConsistent
  <2>2. PICK v, error : Answer(c, stack[c], {}, v, error)
                        /\ (error = "none" => v = value /\ value # NoValue)
    BY <1>8 DEF Resume
  <2>3. stack[c] # << >> /\ error = "none" =>
          Obtained(Head(stack[c]).key, v, dependencyGraph', produced')
    <3> SUFFICES ASSUME stack[c] # << >>, error = "none"
                 PROVE  Obtained(Head(stack[c]).key, value, dependencyGraph, produced)
      BY <2>1, <2>2
    <3>1. <<Head(stack[c]).key, asked[c]>> \in dependencyGraph
      BY <1>0, <2>1 DEF AskedAreNeeds
    <3> QED BY <1>0, <2>1, <2>2, <3>1, CachedObtained
  <2> HIDE DEF value
  <2> QED BY <1>0, <2>1, <2>2, <2>3, AnswerKeepsOrder
<1>9. ASSUME NEW c \in Ctx, stack[c] # << >>
      PROVE  LET f == Head(stack[c])
             IN  /\ f = stack[c][1] /\ 1 \in DOMAIN stack[c] /\ f.guard = Guard(f.key) /\ f.key \in Key
                 /\ f.got \subseteq Value
                 /\ \A v \in f.got : Obtained(f.key, v, dependencyGraph, produced)
                 /\ Tail(stack[c]) \in Seq(Frame) /\ Traced(Tail(stack[c]), dependencyGraph, produced)
                 /\ Tail(stack[c]) # << >> =>
                      <<Head(Tail(stack[c])).key, f.key>> \in dependencyGraph
  <2> DEFINE s == stack[c]
             f == Head(s)
  <2>1. /\ s \in Seq(Frame) /\ f \in Frame /\ Tail(s) \in Seq(Frame)
        /\ 1 \in DOMAIN s /\ f = s[1]
        /\ Tail(s) # << >> => 2 \in DOMAIN s /\ Head(Tail(s)) = s[2]
    BY <1>0, <1>9, FrameStack
  <2>2. Traced(s, dependencyGraph, produced) /\ Keeps(s, c, creating)
    BY <1>0 DEF StacksTraced, StacksKept
  <2>3. Traced(Tail(s), dependencyGraph, produced)
    BY <1>9, <2>1, <2>2, TracedPop
  <2>4. f.key \in Key /\ f.got \subseteq Value
    BY <2>1 DEF Frame
  <2> HIDE DEF s
  <2>5. /\ f.guard = Guard(f.key)
        /\ \A v \in f.got : Obtained(f.key, v, dependencyGraph, produced)
    BY <2>1, <2>2 DEF Traced, Keeps
  <2>6. Tail(s) # << >> => <<Head(Tail(s)).key, f.key>> \in dependencyGraph
    <3> SUFFICES ASSUME Tail(s) # << >> PROVE <<Head(Tail(s)).key, f.key>> \in dependencyGraph
      OBVIOUS
    <3>1. 2 \in DOMAIN s /\ 2 # 1 /\ s[2 - 1] = f /\ Head(Tail(s)) = s[2]
      BY <2>1
    <3>2. <<s[2].key, s[2 - 1].key>> \in dependencyGraph
      BY <2>2, <3>1 DEF Traced
    <3> QED BY <3>1, <3>2
  <2> QED BY <2>1, <2>3, <2>4, <2>5, <2>6 DEF s
<1>10. ASSUME NEW c \in Ctx, ProviderStores(c) PROVE DependencyInv'
  <2> DEFINE f == Head(stack[c])
             value == <<f.guard, c>>
  <2>1. /\ stack[c] # << >> /\ f.guard \in Name /\ ~isClosed /\ pc[c] = "running"
        /\ FinishCreation(c, value, "none")
        /\ produced' = produced \cup {value} /\ holds' = holds \cup {<<value, v>> : v \in f.got}
        /\ instances' = [instances EXCEPT ![f.guard] = value]
        /\ UNCHANGED <<dependencyGraph, closeLog, toClose>>
    BY <1>0, <1>10 DEF ProviderStores, Produce, TooLate, PcConsistent, Registered, StoredInstances
  <2>2. \A t \in Type : typeInstances'[t] = IF t = f.key THEN value ELSE typeInstances[t]
    BY <1>0, <1>10 DEF ProviderStores, ResolverTypeOK
  <2>3. value # NoValue /\ value \notin produced /\ value[1] = f.guard
    <3>1. value \in Value
      BY <2>1 DEF Value
    <3>2. value \notin produced
      BY <1>0, <1>9, <2>1 DEF AtWork
    <3> QED BY <3>1, <3>2, ResolverAssumption DEF Value
  <2>4. StacksTraced' /\ AskedAreNeeds'
    <3> DEFINE outer == Tail(stack[c])
    <3>1. /\ outer \in Seq(Frame) /\ Traced(outer, dependencyGraph, produced)
          /\ f.guard = Guard(f.key)
          /\ outer # << >> => <<Head(outer).key, f.key>> \in dependencyGraph
      BY <1>9, <2>1
    <3>2. outer # << >> => <<Head(outer).key, value[1]>> \in dependencyGraph
      <4>1. ASSUME outer # << >> PROVE f.key \in Name
        BY <1>0, <3>1, <4>1 DEF EdgesAreNeeds, NeededBy, ResolvesByName
      <4> QED BY <3>1, <4>1 DEF Guard
    <3>3. Answer(c, outer, WaitingFor(f.guard), value, "none")
          /\ \A d \in WaitingFor(f.guard) : pc[d] = "waiting"
      BY <2>1 DEF FinishCreation, WaitingFor
    <3> HIDE DEF outer, value, f
    <3>4. Traced(outer, dependencyGraph', produced')
      BY <2>1, <3>1, TracedGrows
    <3>5. outer # << >> => Obtained(Head(outer).key, value, dependencyGraph', produced')
      BY <2>1, <3>2 DEF Obtained
    <3>6. dependencyGraph \subseteq dependencyGraph' /\ produced \subseteq produced'
      BY <2>1
    <3> QED BY <1>0, <3>1, <3>3, <3>4, <3>5, <3>6, AnswerTraced
  <2>5. /\ f.guard = Guard(f.key) /\ f.key \in Key
        /\ \A v \in f.got : Obtained(f.key, v, dependencyGraph, produced)
    BY <1>9, <2>1
  <2> HIDE DEF value, f
  <2>6. \A n \in Name : instances'[n] = IF n = f.guard THEN value ELSE instances[n]
    BY <1>0, <2>1 DEF ResolverTypeOK
  <2>7. TypesBacked' /\ EdgesAreNeeds'
    BY <1>0, <2>1, <2>2, <2>3, <2>5, <2>6 DEF TypesBacked, EdgesAreNeeds
  <2>8. OrderKept'
    <3>1. Range(closeLog') = {} /\ DOMAIN toClose' = {}
      BY <1>0, <2>1 DEF UntilClosed, Range
    <3> QED BY <3>1 DEF OrderKept
  <2>9. HoldsTraced'
    <3> SUFFICES ASSUME NEW h \in holds'
                 PROVE  /\ h[1] \in produced'
                        /\ \E k \in Key :
                             /\ Guard(k) = h[1][1] /\ Obtained(k, h[2], dependencyGraph', produced')
                             /\ instances'[h[1][1]] = h[1] /\ k \in Type => typeInstances'[k] # NoValue
      BY DEF HoldsTraced
    <3>1. CASE h \in holds
      <4>1. PICK k \in Key : /\ Guard(k) = h[1][1] /\ Obtained(k, h[2], dependencyGraph, produced)
                             /\ instances[h[1][1]] = h[1] /\ k \in Type => typeInstances[k] # NoValue
        BY <1>0, <3>1 DEF HoldsTraced
      <4>2. Obtained(k, h[2], dependencyGraph', produced')
        BY <2>1, <4>1 DEF Obtained
      <4>3. h[1] \in produced /\ h[1][1] \in Name
        BY <1>0, <3>1 DEF HoldsTraced, ClosingTypes
      <4>4. instances'[h[1][1]] = h[1] => instances[h[1][1]] = h[1]
        BY <2>3, <2>6, <4>3
      <4>5. k \in Type /\ typeInstances[k] # NoValue => typeInstances'[k] # NoValue
        BY <2>2, <2>3
      <4> QED BY <2>1, <4>1, <4>2, <4>3, <4>4, <4>5
    <3>2. CASE h \notin holds
      <4>1. PICK v \in f.got : h = <<value, v>>
        BY <2>1, <3>2
      <4>2. Obtained(f.key, v, dependencyGraph', produced')
        BY <2>1, <2>5 DEF Obtained
      <4> QED BY <2>1, <2>2, <2>3, <2>5, <4>1, <4>2
    <3> QED BY <3>1, <3>2
  <2> QED BY <2>4, <2>7, <2>8, <2>9 DEF DependencyInv
<1>11. ASSUME NEW c \in Ctx, ProviderTooLate(c) PROVE DependencyInv'
  <2> DEFINE f == Head(stack[c])
             value == <<f.guard, c>>
  <2>1. /\ stack[c] # << >> /\ f.guard \in Name /\ pc[c] = "running"
        /\ produced' = produced \cup {value} /\ holds' = holds \cup {<<value, v>> : v \in f.got}
        /\ closeLog' = Append(closeLog, value) /\ pc' = [pc EXCEPT ![c] = "late"]
        /\ UNCHANGED <<instances, typeInstances, dependencyGraph, toClose, stack, asked>>
    BY <1>0, <1>11 DEF ProviderTooLate, Produce, PcConsistent, Registered
  <2>2. /\ value # NoValue /\ value \notin produced /\ value[1] = f.guard /\ value[2] \in Ctx
        /\ value[2] \notin Scope
    <3>1. value \in Value
      BY <2>1 DEF Value
    <3>2. value \notin produced
      BY <1>0, <1>9, <2>1 DEF AtWork
    <3> QED BY <3>1, <3>2, ResolverAssumption DEF Value
  <2>3. /\ f.guard = Guard(f.key) /\ f.key \in Key
        /\ \A v \in f.got : Obtained(f.key, v, dependencyGraph, produced)
    BY <1>9, <2>1
  <2> HIDE DEF value, f
  <2>4. Range(closeLog') = Range(closeLog) \cup {value}
    <3>1. /\ DOMAIN closeLog' = DOMAIN closeLog \cup {Len(closeLog) + 1}
          /\ closeLog'[Len(closeLog) + 1] = value
          /\ \A i \in DOMAIN closeLog : closeLog'[i] = closeLog[i]
      BY <1>0, <2>1 DEF ClosingTypes
    <3> QED BY <3>1 DEF Range
  <2>5. instances[value[1]] # value
    BY <1>0, <2>1, <2>2 DEF StoredWereProduced
  <2>6. TypesBacked' /\ EdgesAreNeeds' /\ StacksTraced'
    BY <1>0, <2>1, TracedGrows DEF TypesBacked, EdgesAreNeeds, StacksTraced
  <2>7. AskedAreNeeds'
    <3>1. \A d \in Ctx : pc'[d] = IF d = c THEN "late" ELSE pc[d]
      BY <1>0, <2>1 DEF ResolverTypeOK
    <3> QED BY <1>0, <2>1, <3>1 DEF AskedAreNeeds
  <2>8. OrderKept'
    <3> SUFFICES ASSUME NEW h \in holds', instances[h[1][1]] = h[1]
                 PROVE  /\ h[2] \in Range(closeLog') => h[1] \in Range(closeLog')
                        /\ \A j \in DOMAIN toClose : toClose[j] = h[2] =>
                             h[1] \in Range(closeLog')
                             \/ \E i \in DOMAIN toClose : i < j /\ toClose[i] = h[1]
      BY <2>1 DEF OrderKept
    <3>1. h \in holds
      BY <2>1, <2>5
    <3>2. h[2] # value
      BY <1>0, <2>2, <3>1 DEF HoldsTraced, Obtained
    <3> QED BY <1>0, <2>4, <3>1, <3>2 DEF OrderKept
  <2>9. HoldsTraced'
    <3> SUFFICES ASSUME NEW h \in holds'
                 PROVE  /\ h[1] \in produced'
                        /\ \E k \in Key :
                             /\ Guard(k) = h[1][1] /\ Obtained(k, h[2], dependencyGraph, produced')
                             /\ instances[h[1][1]] = h[1] /\ k \in Type => typeInstances[k] # NoValue
      BY <2>1 DEF HoldsTraced
    <3>1. CASE h \in holds
      <4>1. PICK k \in Key : /\ Guard(k) = h[1][1] /\ Obtained(k, h[2], dependencyGraph, produced)
                             /\ instances[h[1][1]] = h[1] /\ k \in Type => typeInstances[k] # NoValue
        BY <1>0, <3>1 DEF HoldsTraced
      <4>2. Obtained(k, h[2], dependencyGraph, produced')
        BY <2>1, <4>1 DEF Obtained
      <4> QED BY <1>0, <2>1, <3>1, <4>1, <4>2 DEF HoldsTraced
    <3>2. CASE h \notin holds
      <4>1. PICK v \in f.got : h = <<value, v>>
        BY <2>1, <3>2
      <4>2. Obtained(f.key, v, dependencyGraph, produced')
        BY <2>1, <2>3 DEF Obtained
      <4> QED BY <2>1, <2>2, <2>3, <2>5, <4>1, <4>2
    <3> QED BY <3>1, <3>2
  <2> QED BY <2>6, <2>7, <2>8, <2>9 DEF DependencyInv
<1>12. ASSUME NEW c \in Ctx, RelockLate(c) \/ ProviderFails(c) PROVE DependencyInv'
  <2>1. stack[c] # << >> /\ NoneStored /\ UNCHANGED dependencyGraph
    BY <1>0, <1>12 DEF RelockLate, ProviderFails, PcConsistent
  <2>2. PICK error : error # "none" /\ FinishCreation(c, NoValue, error)
    BY <1>12 DEF RelockLate, ProviderFails
  <2> DEFINE outer == Tail(stack[c])
             g == Head(stack[c]).guard
  <2>3. outer \in Seq(Frame) /\ Traced(outer, dependencyGraph, produced)
    BY <1>9, <2>1
  <2>4. Answer(c, outer, WaitingFor(g), NoValue, error)
        /\ \A d \in WaitingFor(g) : pc[d] = "waiting"
    BY <2>2 DEF FinishCreation, WaitingFor
  <2> HIDE DEF outer, g
  <2>5. StacksTraced' /\ AskedAreNeeds'
    BY <1>0, <2>1, <2>2, <2>3, <2>4, AnswerTraced
  <2>6. EdgesAreNeeds'
    BY <1>0, <2>1 DEF EdgesAreNeeds
  <2> QED BY <2>1, <2>5, <2>6, DependencyKept
<1>13. ASSUME NEW n \in Name, NEW t, OverrideInstance(n, t) PROVE DependencyInv'
  <2> DEFINE value == <<n, Override>>
  <2>1. /\ n \in Overridable /\ \A m \in Name : instances'[m] = IF m = n THEN value ELSE instances[m]
        /\ UNCHANGED <<dependencyGraph, produced, holds, closeLog, toClose, stack, pc, asked>>
    BY <1>0, <1>13 DEF OverrideInstance, ResolverTypeOK
  <2>2. value # NoValue /\ value \notin produced
    BY <1>0, ResolverAssumption DEF ClosingTypes
  <2>3. \A u \in Type : typeInstances'[u] = typeInstances[u]
                        \/ (typeInstances'[u] = value /\ TypeServices[u] # << >>)
    BY <1>0, <1>13, TypeServicesAssumption DEF OverrideInstance, RegisteredUnder, ResolverTypeOK
  <2> HIDE DEF value
  <2>4. TypesBacked'
    <3> SUFFICES ASSUME NEW u \in Type, typeInstances'[u] # NoValue
                 PROVE  Guard(u) \in Name /\ instances'[Guard(u)] # NoValue
      BY DEF TypesBacked
    <3>1. CASE typeInstances'[u] = typeInstances[u]
      BY <1>0, <2>1, <2>2, <3>1 DEF TypesBacked
    <3>2. CASE TypeServices[u] # << >>
      BY <2>1, <2>2, <3>2 DEF OverridesKeepTypes
    <3> QED BY <2>3, <3>1, <3>2
  <2>5. \A h \in holds : instances'[h[1][1]] = h[1] => instances[h[1][1]] = h[1]
    BY <1>0, <2>1, <2>2 DEF HoldsTraced, ClosingTypes
  <2>6. OrderKept'
    BY <1>0, <2>1, <2>5 DEF OrderKept
  <2>7. HoldsTraced'
    <3> SUFFICES ASSUME NEW h \in holds
                 PROVE  /\ h[1] \in produced
                        /\ \E k \in Key :
                             /\ Guard(k) = h[1][1] /\ Obtained(k, h[2], dependencyGraph, produced)
                             /\ instances'[h[1][1]] = h[1] /\ k \in Type => typeInstances'[k] # NoValue
      BY <2>1 DEF HoldsTraced
    <3>1. PICK k \in Key : /\ Guard(k) = h[1][1] /\ Obtained(k, h[2], dependencyGraph, produced)
                           /\ instances[h[1][1]] = h[1] /\ k \in Type => typeInstances[k] # NoValue
      BY <1>0 DEF HoldsTraced
    <3>2. k \in Type /\ typeInstances[k] # NoValue => typeInstances'[k] # NoValue
      BY <2>2, <2>3
    <3> QED BY <1>0, <2>5, <3>1, <3>2 DEF HoldsTraced
  <2>8. EdgesAreNeeds' /\ StacksTraced' /\ AskedAreNeeds'
    BY <1>0, <2>1 DEF EdgesAreNeeds, StacksTraced, AskedAreNeeds
  <2> QED BY <2>4, <2>6, <2>7, <2>8 DEF DependencyInv
<1>14. ASSUME NoneStored, UNCHANGED <<dependencyGraph, stack, pc, asked>> PROVE DependencyInv'
  <2>1. EdgesAreNeeds' /\ StacksTraced' /\ AskedAreNeeds'
    BY <1>0, <1>14 DEF EdgesAreNeeds, StacksTraced, AskedAreNeeds
  <2> QED BY <1>14, <2>1, DependencyKept
<1>15. ASSUME OrderKept', UNCHANGED <<instances, typeInstances, produced, holds, dependencyGraph,
                                      stack, pc, asked>>
       PROVE  DependencyInv'
  <2>1. TypesBacked' /\ EdgesAreNeeds' /\ StacksTraced' /\ AskedAreNeeds' /\ HoldsTraced'
    BY <1>0, <1>15 DEF TypesBacked, EdgesAreNeeds, StacksTraced, AskedAreNeeds, HoldsTraced
  <2> QED BY <1>15, <2>1 DEF DependencyInv
<1>16. ASSUME NEW x, CloseBegin(x) PROVE DependencyInv'
  <2>1. /\ ~isClosed
        /\ UNCHANGED <<instances, typeInstances, produced, holds, dependencyGraph, closeLog,
                       stack, pc, asked>>
    BY <1>16 DEF CloseBegin, FirstClose
  <2>2. /\ toClose' \in Seq(Value) /\ IsInjective(toClose')
        /\ \A v \in Range(toClose') : \E k \in CreatedKeys : v = NodeValue[k]
    BY <1>0, <1>16, CandidatesOfClose
  <2>3. Range(closeLog) = {}
    BY <1>0, <2>1 DEF UntilClosed, Range
  <2>4. ASSUME NEW h \in holds, instances[h[1][1]] = h[1],
               NEW j \in DOMAIN toClose', toClose'[j] = h[2]
        PROVE  \E i \in DOMAIN toClose' : i < j /\ toClose'[i] = h[1]
    <3>1. PICK k \in Key : /\ Guard(k) = h[1][1] /\ Obtained(k, h[2], dependencyGraph, produced)
                           /\ k \in Type => typeInstances[k] # NoValue
      BY <1>0, <2>4 DEF HoldsTraced
    <3>2. h[1] \in produced
      BY <1>0 DEF HoldsTraced
    <3>3. h[1][1] \in Name /\ h[1] # NoValue
      BY <1>0, <2>1, <2>4, <3>2 DEF ClosingTypes, UntilClosed
    <3>4. k \in CreatedKeys
      <4>1. CASE k \in Type
        BY <3>1, <4>1 DEF CreatedKeys, NodeValue
      <4>2. CASE k \in Name
        BY <2>4, <3>1, <3>3, <4>2 DEF CreatedKeys, NodeValue, Guard
      <4> QED BY <4>1, <4>2
    <3>5. h[2] \in Value
      BY <2>2, <2>4
    <3>6. <<k, h[2][1]>> \in dependencyGraph
      <4>1. h[2] \in Range(toClose')
        BY <2>4 DEF Range
      <4>2. PICK m \in CreatedKeys : h[2] = NodeValue[m]
        BY <2>2, <4>1
      <4>3. h[2][2] \notin Scope
        BY <1>0, <4>2 DEF CreatedKeys, NodeValue, ValuesKept
      <4> QED BY <3>1, <4>3 DEF Obtained
    <3>7. \E i \in DOMAIN toClose' : i < j /\ toClose'[i] = instances[Guard(k)]
      BY <1>0, <1>16, <2>2, <2>4, <3>4, <3>5, <3>6, OrderBegins
    <3> QED BY <2>4, <3>1, <3>7
  <2>5. OrderKept'
    BY <2>1, <2>3, <2>4 DEF OrderKept
  <2> QED BY <1>15, <2>1, <2>5
<1>17. ASSUME NEW x, CloseValue(x) PROVE DependencyInv'
  <2> DEFINE v == Head(toClose)
  <2>1. /\ toClose # << >> /\ toClose' = Tail(toClose) /\ closeLog' = Append(closeLog, v)
        /\ UNCHANGED <<instances, typeInstances, produced, holds, dependencyGraph,
                       stack, pc, asked>>
    BY <1>17 DEF CloseValue
  <2>2. closeLog \in Seq(Value) /\ toClose \in Seq(Value)
    BY <1>0 DEF ClosingTypes
  <2>3. /\ DOMAIN closeLog' = DOMAIN closeLog \cup {Len(closeLog) + 1}
        /\ closeLog'[Len(closeLog) + 1] = v
        /\ \A i \in DOMAIN closeLog : closeLog'[i] = closeLog[i]
    BY <2>1, <2>2
  <2>4. /\ 1 \in DOMAIN toClose /\ v = toClose[1] /\ ~(\E i \in DOMAIN toClose : i < 1)
        /\ \A i \in DOMAIN toClose' : i + 1 \in DOMAIN toClose /\ toClose'[i] = toClose[i + 1]
        /\ \A i \in DOMAIN toClose : i # 1 => /\ i - 1 \in DOMAIN toClose'
                                              /\ toClose'[i - 1] = toClose[i]
        /\ \A i \in DOMAIN toClose, j \in DOMAIN toClose' : i < j + 1 /\ i # 1 => i - 1 < j
    BY <2>1, <2>2
  <2> HIDE DEF v
  <2>5. Range(closeLog') = Range(closeLog) \cup {v}
    BY <2>3 DEF Range
  <2>6. ASSUME NEW h \in holds, instances[h[1][1]] = h[1]
        PROVE  /\ h[2] \in Range(closeLog') => h[1] \in Range(closeLog')
               /\ \A j \in DOMAIN toClose' : toClose'[j] = h[2] =>
                    h[1] \in Range(closeLog')
                    \/ \E i \in DOMAIN toClose' : i < j /\ toClose'[i] = h[1]
    <3>1. h[2] = v => h[1] \in Range(closeLog)
      BY <1>0, <2>4, <2>6 DEF OrderKept
    <3>2. h[2] \in Range(closeLog) => h[1] \in Range(closeLog)
      BY <1>0, <2>6 DEF OrderKept
    <3>3. ASSUME NEW j \in DOMAIN toClose', toClose'[j] = h[2], h[1] \notin Range(closeLog')
          PROVE  \E i \in DOMAIN toClose' : i < j /\ toClose'[i] = h[1]
      <4>1. j + 1 \in DOMAIN toClose /\ toClose[j + 1] = h[2] /\ h[1] \notin Range(closeLog)
        BY <2>4, <2>5, <3>3
      <4>2. PICK i \in DOMAIN toClose : i < j + 1 /\ toClose[i] = h[1]
        BY <1>0, <2>6, <4>1 DEF OrderKept
      <4>3. i # 1
        BY <2>4, <2>5, <3>3, <4>2
      <4>4. i - 1 \in DOMAIN toClose' /\ toClose'[i - 1] = h[1] /\ i - 1 < j
        BY <2>4, <4>2, <4>3
      <4> QED BY <4>4
    <3> QED BY <2>5, <3>1, <3>2, <3>3
  <2>7. OrderKept'
    BY <2>1, <2>6 DEF OrderKept
  <2> QED BY <1>15, <2>1, <2>7
<1>18. ASSUME NEW s, NEW n, NEW t, ScopeOverrideInstance(s, n, t) \/ ScopeClose(s)
       PROVE  DependencyInv'
  BY <1>14, <1>18 DEF ScopeOverrideInstance, ScopeClose
<1>19. ASSUME NEW x, CloseAgain(x) \/ CloseEnd(x) \/ UNCHANGED vars PROVE DependencyInv'
  BY <1>14, <1>19 DEF CloseAgain, CloseEnd, vars
<1> HIDE DEF Untouched, NoneStored
<1> QED BY <1>1, <1>2, <1>3, <1>4, <1>5, <1>6, <1>7, <1>8, <1>10, <1>11, <1>12, <1>13, <1>16,
        <1>17, <1>18, <1>19 DEF Next, Resolve, Close, Done

(* Close never closes a dependency before what was built with it, however  *)
(* creations, waits, scopes and overrides interleave: for acyclic services *)
(* that resolve one another by name.                                       *)
THEOREM DependentsClosedFirstHolds ==
  ASSUME ResolvesByName, AcyclicDeps, OverridesKeepTypes
  PROVE  Spec => []DependentsClosedFirst
<1>1. WaitInv /\ Kept /\ ClosingInv /\ DependencyInv /\ [Next]_vars => DependencyInv'
  BY DependencyStep
<1>2. DependencyInv => DependentsClosedFirst
  BY DEF DependencyInv, OrderKept, DependentsClosedFirst
<1> QED BY DependencyInit, WaitInvariance, KeptInvariance, ClosingInvariance, <1>1, <1>2, PTL
        DEF Spec
====
