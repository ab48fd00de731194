--------------------------- MODULE PromiseProofs ---------------------------
(***************************************************************************)
(* Theorems about Promises, for every policy of promises about services    *)
(* and packages, however long, any number of passes and any number of      *)
(* changes that others make.                                               *)
(***************************************************************************)
EXTENDS Promises, TLAPS

\* What the arguments below use of a promise of the policy.
LEMMA PromiseFacts ==
  ASSUME NEW p \in PromiseType
  PROVE  /\ p.module \in ServiceModules \cup PackageModules /\ p.subject \in Subjects
         /\ p.guarded \in BOOLEAN /\ p.update \in BOOLEAN
         /\ IsService(p) => p.func \in RunFuncs \cup BootFuncs
         /\ ~ IsService(p) => p.func \in {"present", "absent"}
         /\ Fact(p) \in Facts
  BY DEF PromiseType, IsService, Fact, Facts, ServiceAspect, RunFuncs, BootFuncs

LEMMA ReportsTyped ==
  /\ \A t : Result(t) \in Reports
  /\ \A m, f, md, c : ServiceReport(m, f, md, c) \in Reports
  /\ \A m, f, md, u, w : ServiceLook(m, f, md, u, w) \in {"act", "kept", "failed"}
  /\ \A m, f, n, u, i, w : PackageLook(m, f, n, u, i, w) \in {"act", "kept", "crash"}
  BY DEF Result, ServiceReport, IfZero, IfZeroOrTest, ServiceLook, SystemdLook, OpenrcLook,
         PackageLook, Reports

(***************************************************************************)
(* Every variable keeps its type: the agent stays inside its policy, and   *)
(* each promise reports one of the five outcomes.                          *)
(***************************************************************************)
THEOREM TypeCorrect == Spec => []TypeOK
<1>1. Init => TypeOK
  <2> SUFFICES ASSUME Init PROVE TypeOK
    OBVIOUS
  <2>1. policy \in Seq(PromiseType) /\ policy # << >>
    BY PromisesAssumption DEF Init
  <2>2. 1 \in DOMAIN policy /\ \A n \in DOMAIN policy : policy[n] \in PromiseType
    BY <2>1
  <2>3. \A n \in DOMAIN policy : Fact(policy[n]) \in Facts
    BY <2>2, PromiseFacts
  <2>4. host \subseteq Facts
    BY <2>3 DEF Init
  <2>5. pass \in 1..MaxPasses /\ drift \in 0..MaxDrift
    BY PromisesAssumption DEF Init
  <2>6. /\ report \in [DOMAIN policy -> Reports \cup {"none"}]
        /\ before \in [DOMAIN policy -> Reports \cup {"none"}]
        /\ steady \in [DOMAIN policy -> BOOLEAN]
    BY DEF Init
  <2> QED BY <2>2, <2>4, <2>5, <2>6 DEF Init, TypeOK
<1>2. TypeOK /\ [Next]_vars => TypeOK'
  <2> SUFFICES ASSUME TypeOK, [Next]_vars PROVE TypeOK'
    OBVIOUS
  <2>1. policy \in Seq(PromiseType) /\ k \in DOMAIN policy
    BY PromisesAssumption DEF TypeOK
  <2>2. \A n \in DOMAIN policy : policy[n] \in PromiseType
    BY <2>1
  <2>3. \A n \in DOMAIN policy : Fact(policy[n]) \in Facts
    BY <2>2, PromiseFacts
  <2>4. Fact(P) \in Facts
    BY <2>1, <2>3 DEF P
  <2>a. ASSUME NEW r \in Reports, Tell(r)
        PROVE  /\ report' \in [DOMAIN policy -> Reports \cup {"none"}]
               /\ before' \in [DOMAIN policy -> Reports \cup {"none"}]
               /\ stage' \in {"told", "over"}
    BY <2>1, <2>a DEF Tell, TypeOK
  <2>5. CASE Begin
    <3>1. "kept" \in Reports
      BY DEF Reports
    <3>2. /\ report' \in [DOMAIN policy -> Reports \cup {"none"}]
          /\ before' \in [DOMAIN policy -> Reports \cup {"none"}]
          /\ stage' \in {"look", "told", "over"}
      BY <2>5, <2>a, <3>1 DEF Begin, Quiet, TypeOK
    <3> QED BY <2>5, <3>2 DEF Begin, TypeOK
  <2>6. CASE RefreshFails
    <3>1. "failed" \in Reports
      BY DEF Reports
    <3> QED BY <2>6, <2>a, <3>1 DEF RefreshFails, TypeOK
  <2>7. CASE Look
    <3>1. PICK fails \in BOOLEAN, seen \in {"act"} \cup Reports :
            /\ IF seen = "act" THEN stage' = "act" /\ Quiet ELSE Tell(seen)
            /\ raced' = (raced \/ fails)
            /\ steady' = [steady EXCEPT ![k] = @ /\ ~ fails]
      <4>1. PICK fails \in IF IsService(P) THEN BOOLEAN ELSE QueryFails(P.module) :
              LET seen == IF IsService(P)
                          THEN ServiceLook(P.module, P.func, mode, Up, ~ fails)
                          ELSE PackageLook(P.module, P.func, P.name, P.update, Up, ~ fails)
              IN  /\ IF seen = "act" THEN stage' = "act" /\ Quiet ELSE Tell(seen)
                  /\ raced' = (raced \/ fails)
                  /\ steady' = [steady EXCEPT ![k] = @ /\ ~ fails]
        BY <2>7 DEF Look
      <4>2. fails \in BOOLEAN
        BY DEF QueryFails
      <4>3. (IF IsService(P) THEN ServiceLook(P.module, P.func, mode, Up, ~ fails)
             ELSE PackageLook(P.module, P.func, P.name, P.update, Up, ~ fails)) \in {"act"} \cup Reports
        BY ReportsTyped DEF Reports
      <4> QED BY <4>1, <4>2, <4>3
    <3>2. /\ report' \in [DOMAIN policy -> Reports \cup {"none"}]
          /\ before' \in [DOMAIN policy -> Reports \cup {"none"}]
          /\ stage' \in {"act", "told", "over"}
      BY <2>a, <3>1 DEF Quiet, TypeOK
    <3>3. raced' \in BOOLEAN /\ steady' \in [DOMAIN policy -> BOOLEAN]
      BY <3>1 DEF TypeOK
    <3> QED BY <2>7, <3>2, <3>3 DEF Look, TypeOK
  <2>8. CASE Act
    <3>1. PICK code \in {"zero", "nil"} :
            /\ host' \in IF Run(mode, code) = "true" THEN {host}
                         ELSE IF code = "zero" THEN {Wanted} ELSE {host, Wanted}
            /\ Tell(IF IsService(P) THEN ServiceReport(P.module, P.func, mode, code)
                    ELSE Result(Run(mode, code)))
      BY <2>8 DEF Act
    <3>2. host' \subseteq Facts
      BY <2>4, <3>1 DEF Wanted, TypeOK
    <3>3. (IF IsService(P) THEN ServiceReport(P.module, P.func, mode, code)
           ELSE Result(Run(mode, code))) \in Reports
      BY ReportsTyped
    <3>4. steady' \in [DOMAIN policy -> BOOLEAN]
      BY <2>8 DEF Act, TypeOK
    <3> QED BY <2>8, <2>a, <3>1, <3>2, <3>3, <3>4 DEF Act, TypeOK
  <2>9. CASE Advance
    <3>1. Len(policy) \in Nat /\ DOMAIN policy = 1..Len(policy)
      BY <2>1
    <3>2. k' \in DOMAIN policy /\ pass' \in 1..MaxPasses /\ stage' \in {"start", "over"}
      BY <2>9, <2>1, <3>1, PromisesAssumption DEF Advance, TypeOK
    <3> QED BY <2>9, <3>2 DEF Advance, TypeOK
  <2>10. CASE Drift
    <3>1. PICK n \in DOMAIN policy :
            /\ host' = IF Fact(policy[n]) \in host THEN host \ {Fact(policy[n])}
                       ELSE host \cup {Fact(policy[n])}
            /\ steady' = [m \in DOMAIN policy |-> steady[m] /\ Fact(policy[m]) # Fact(policy[n])]
            /\ raced' = (raced \/ Fact(P) = Fact(policy[n]))
      BY <2>10 DEF Drift
    <3>2. host' \subseteq Facts /\ steady' \in [DOMAIN policy -> BOOLEAN] /\ raced' \in BOOLEAN
      BY <2>3, <3>1 DEF TypeOK
    <3>3. drift' \in 0..MaxDrift
      BY <2>10, PromisesAssumption DEF Drift, TypeOK
    <3> QED BY <2>10, <3>2, <3>3 DEF Drift, TypeOK
  <2>11. CASE UNCHANGED vars
    BY <2>11 DEF vars, TypeOK
  <2> QED BY <2>5, <2>6, <2>7, <2>8, <2>9, <2>10, <2>11 DEF Next, Terminated
<1> QED BY <1>1, <1>2, PTL DEF Spec

(***************************************************************************)
(* The look tells the truth: with a query that works, a name it can see    *)
(* and no -t, a promise that is found kept holds; and one that holds and   *)
(* claims a state is found kept.                                           *)
(***************************************************************************)
Seen(works) ==
  IF IsService(P) THEN ServiceLook(P.module, P.func, mode, Up, works)
                  ELSE PackageLook(P.module, P.func, P.name, P.update, Up, works)

LEMMA LookIsTrue ==
  ASSUME TypeOK, mode # "t", ~ Upgrades(P), P.name = "plain"
  PROVE  /\ Seen(TRUE) = "kept" => Kept(P)
         /\ Kept(P) /\ P.func \notin {"restart", "reload"} => Seen(TRUE) = "kept"
<1>1. P \in PromiseType
  BY PromisesAssumption DEF TypeOK, P
<1>2. CASE IsService(P)
  <2>1. P.func \in RunFuncs \cup BootFuncs /\ P.module \in {"systemd", "openrc"}
    BY <1>1, <1>2, PromiseFacts DEF IsService, ServiceModules
  <2>2. CASE P.module = "systemd"
    <3>1. Seen(TRUE) = SystemdLook(P.func, mode, Up, TRUE)
      BY <1>2, <2>2 DEF Seen, ServiceLook
    <3> QED BY <2>1, <3>1
        DEF SystemdLook, Run, Kept, Up, WantsUp, WantsDown, RunFuncs, BootFuncs
  <2>3. CASE P.module = "openrc"
    <3>1. Seen(TRUE) = OpenrcLook(P.func, mode, Up, TRUE)
      BY <1>2, <2>3 DEF Seen, ServiceLook
    <3> QED BY <2>1, <3>1
        DEF OpenrcLook, Run, Kept, Up, WantsUp, WantsDown, RunFuncs, BootFuncs
  <2> QED BY <2>1, <2>2, <2>3
<1>3. CASE ~ IsService(P)
  <2>1. P.func \in {"present", "absent"}
    BY <1>1, <1>3, PromiseFacts
  <2> QED BY <1>3, <2>1
      DEF Seen, PackageLook, Found, Kept, Up, WantsUp, WantsDown, Upgrades
<1> QED BY <1>2, <1>3

(***************************************************************************)
(* What a command that is reported to have repaired made of the host.      *)
(***************************************************************************)
LEMMA ActIsTrue ==
  ASSUME TypeOK, mode # "t", ~ Upgrades(P), Act, report'[k] \in {"kept", "repaired"}
  PROVE  Kept(P)'
<1>1. P \in PromiseType /\ P' = P
  BY PromisesAssumption DEF TypeOK, P, Act
<1>2. P.func \in RunFuncs \cup BootFuncs \cup {"present", "absent"}
  BY <1>1, PromiseFacts
<1>3. PICK code \in {"zero", "nil"} :
        /\ host' \in IF Run(mode, code) = "true" THEN {host}
                     ELSE IF code = "zero" THEN {Wanted} ELSE {host, Wanted}
        /\ Tell(IF IsService(P) THEN ServiceReport(P.module, P.func, mode, code)
                ELSE Result(Run(mode, code)))
  BY DEF Act
<1>4. report'[k] = IF IsService(P) THEN ServiceReport(P.module, P.func, mode, code)
                   ELSE Result(Run(mode, code))
  BY <1>3 DEF Tell, TypeOK
<1>5. code = "zero"
  BY <1>3, <1>4 DEF ServiceReport, Result, Run, IfZero, IfZeroOrTest
<1>6. host' = Wanted
  BY <1>3, <1>5 DEF Run
<1> QED BY <1>1, <1>2, <1>6
    DEF Wanted, Kept, WantsUp, WantsDown, RunFuncs, BootFuncs

(***************************************************************************)
(* The invariant of convergence.  A promise is trusted when it was last    *)
(* reported kept or repaired and its fact was left alone since.  Whoever   *)
(* is trusted holds, except that the promise being processed is trusted on *)
(* the strength of its earlier report; if it has come to act it was not.   *)
(***************************************************************************)
HoldsIn(p, h) ==
  IF p.func \in WantsUp \cup {"present"} THEN Fact(p) \in h
  ELSE p.func \in WantsDown \cup {"absent"} => Fact(p) \notin h

Claims(n) == mode # "t" /\ ~ policy[n].guarded /\ Convergent(policy[n])
Trusted(n) == report[n] \in {"kept", "repaired"} /\ steady[n] /\ Claims(n)

ConvergeInv ==
  /\ \A n \in DOMAIN policy :
       (n # k \/ stage \in {"start", "look"}) /\ Trusted(n) => HoldsIn(policy[n], host)
  /\ stage = "act" => ~ Trusted(k)
  /\ ReportIsTrue
  /\ Converges

LEMMA KeptIsHoldsIn ==
  /\ \A p : Kept(p) <=> HoldsIn(p, host)
  /\ \A p : Kept(p)' <=> HoldsIn(p, host')
  BY DEF Kept, HoldsIn

\* Whether a promise holds depends on its own fact alone.
LEMMA HoldingFollowsFact ==
  ASSUME NEW p, NEW g, NEW h, (Fact(p) \in g) <=> (Fact(p) \in h)
  PROVE  HoldsIn(p, g) <=> HoldsIn(p, h)
  BY DEF HoldsIn

\* What Tell leaves of the other promises.
LEMMA TellKeepsOthers ==
  ASSUME TypeOK, NEW r, Tell(r)
  PROVE  /\ report'[k] = r /\ before'[k] = report[k]
         /\ \A n \in DOMAIN policy : n # k => report'[n] = report[n]
         /\ stage' \in {"told", "over"}
  BY DEF Tell, TypeOK

LEMMA ConvergeInvInductive ==
  /\ Init => ConvergeInv
  /\ TypeOK /\ ConvergeInv /\ [Next]_vars => ConvergeInv'
<1>1. Init => ConvergeInv
  BY DEF Init, ConvergeInv, Trusted, ReportIsTrue, Converges
<1>2. TypeOK /\ ConvergeInv /\ [Next]_vars => ConvergeInv'
  <2> SUFFICES ASSUME TypeOK, ConvergeInv, [Next]_vars PROVE ConvergeInv'
    OBVIOUS
  <2>0. /\ k \in DOMAIN policy /\ steady \in [DOMAIN policy -> BOOLEAN] /\ P = policy[k]
        /\ raced \in BOOLEAN
    BY DEF TypeOK, P
  <2>t. \A n \in DOMAIN policy :
          (n # k \/ stage \in {"start", "look"}) /\ Trusted(n) => HoldsIn(policy[n], host)
    BY DEF ConvergeInv
  <2>1. CASE Begin
    <3>1. UNCHANGED <<policy, mode, host, k, steady>> /\ stage = "start"
      BY <2>1 DEF Begin
    <3>2. CASE stage' = "look" /\ Quiet
      BY <2>t, <3>1, <3>2 DEF Quiet, ConvergeInv, Trusted, Claims, ReportIsTrue, Converges
    <3>3. CASE P.guarded /\ Tell("kept")
      <4>1. \A n \in DOMAIN policy : n # k => report'[n] = report[n]
        BY <3>3, TellKeepsOthers
      <4>2. stage' \in {"told", "over"} /\ P' = P
        BY <3>1, <3>3, TellKeepsOthers DEF P
      <4> QED BY <2>t, <3>1, <3>3, <4>1, <4>2
          DEF ConvergeInv, Trusted, Claims, ReportIsTrue, Converges
    <3> QED BY <2>1, <3>2, <3>3 DEF Begin
  <2>2. CASE RefreshFails
    <3>1. /\ UNCHANGED <<policy, mode, host, k, steady>> /\ Tell("failed") /\ P' = P
          /\ ~ Convergent(P)
      BY <2>2 DEF RefreshFails, Convergent, P
    <3>2. /\ \A n \in DOMAIN policy : n # k => report'[n] = report[n]
          /\ stage' \in {"told", "over"} /\ report'[k] = "failed"
      BY <3>1, TellKeepsOthers
    <3> QED BY <2>t, <3>1, <3>2 DEF ConvergeInv, Trusted, Claims, ReportIsTrue, Converges
  <2>3. CASE Look
    <3>1. PICK fails \in IF IsService(P) THEN BOOLEAN ELSE QueryFails(P.module) :
            LET seen == IF IsService(P)
                        THEN ServiceLook(P.module, P.func, mode, Up, ~ fails)
                        ELSE PackageLook(P.module, P.func, P.name, P.update, Up, ~ fails)
            IN  /\ IF seen = "act" THEN stage' = "act" /\ Quiet ELSE Tell(seen)
                /\ raced' = (raced \/ fails)
                /\ steady' = [steady EXCEPT ![k] = @ /\ ~ fails]
      BY <2>3 DEF Look
    <3> DEFINE seen == Seen(~ fails)
    <3>2. /\ UNCHANGED <<policy, mode, host, k>> /\ P' = P /\ stage = "look"
          /\ fails \in BOOLEAN /\ seen \in {"act", "kept", "failed", "crash"}
      <4>1. UNCHANGED <<policy, mode, host, k>> /\ P' = P /\ stage = "look"
        BY <2>3 DEF Look, P
      <4>2. fails \in BOOLEAN
        BY DEF QueryFails
      <4>3. seen \in {"act", "kept", "failed", "crash"}
        BY ReportsTyped DEF Seen
      <4> QED BY <4>1, <4>2, <4>3
    <3>3. /\ IF seen = "act" THEN stage' = "act" /\ Quiet ELSE Tell(seen)
          /\ raced' = (raced \/ fails)
          /\ steady'[k] = (steady[k] /\ ~ fails)
          /\ \A n \in DOMAIN policy : n # k => steady'[n] = steady[n]
      BY <2>0, <3>1 DEF Seen
    <3>4. ~ fails /\ mode # "t" /\ ~ Upgrades(P) /\ P.name = "plain" =>
            /\ seen = "kept" => HoldsIn(P, host)
            /\ HoldsIn(P, host) /\ P.func \notin {"restart", "reload"} => seen = "kept"
      <4> SUFFICES ASSUME ~ fails, mode # "t", ~ Upgrades(P), P.name = "plain"
                   PROVE  /\ seen = "kept" => HoldsIn(P, host)
                          /\ HoldsIn(P, host) /\ P.func \notin {"restart", "reload"} => seen = "kept"
        OBVIOUS
      <4>1. seen = Seen(TRUE)
        BY <3>2
      <4> HIDE DEF seen
      <4>2. /\ seen = "kept" => Kept(P)
            /\ Kept(P) /\ P.func \notin {"restart", "reload"} => seen = "kept"
        BY <4>1, LookIsTrue
      <4>3. Kept(P) <=> HoldsIn(P, host)
        BY KeptIsHoldsIn
      <4> QED BY <4>2, <4>3
    <3> HIDE DEF seen
    <3>5. Trusted(k) /\ ~ fails => seen = "kept"
      BY <2>0, <2>t, <3>2, <3>4 DEF Trusted, Claims, Convergent
    <3>6. CASE seen = "act"
      <4>1. stage' = "act" /\ UNCHANGED report
        BY <3>3, <3>6 DEF Quiet
      <4>2. ~ Trusted(k)'
        BY <2>0, <3>2, <3>3, <3>5, <3>6, <4>1 DEF Trusted, Claims
      <4>3. \A n \in DOMAIN policy : n # k /\ Trusted(n)' => Trusted(n)
        BY <3>2, <3>3, <4>1 DEF Trusted, Claims
      <4> QED BY <2>t, <3>2, <4>1, <4>2, <4>3 DEF ConvergeInv, ReportIsTrue, Converges
    <3>7. CASE seen # "act"
      <4>1. /\ \A n \in DOMAIN policy : n # k => report'[n] = report[n]
            /\ stage' \in {"told", "over"} /\ report'[k] = seen /\ before'[k] = report[k]
        BY <3>3, <3>7, TellKeepsOthers
      <4>2. \A n \in DOMAIN policy : n # k /\ Trusted(n)' => Trusted(n)
        BY <3>2, <3>3, <4>1 DEF Trusted, Claims
      <4>3. Converges'
        <5>1. SUFFICES ASSUME report[k] \in {"kept", "repaired"}, steady[k], ~ fails, mode # "t",
                              ~ P.guarded, Convergent(P)
                       PROVE  seen = "kept"
          BY <3>2, <3>3, <4>1 DEF Converges, Convergent, Upgrades
        <5> QED BY <2>0, <3>5, <5>1 DEF Trusted, Claims
      <4>4. ReportIsTrue'
        <5>1. SUFFICES ASSUME seen = "kept", ~ fails, mode # "t", ~ Upgrades(P), P.name = "plain"
                       PROVE  HoldsIn(P, host)
          <6>1. Kept(P)' <=> HoldsIn(P, host)
            BY <3>2, KeptIsHoldsIn DEF Kept, HoldsIn, Fact
          <6>2. seen # "repaired"
            BY <3>2
          <6> QED BY <3>2, <3>3, <4>1, <6>1, <6>2 DEF ReportIsTrue, Upgrades
        <5> QED BY <3>4, <5>1
      <4> QED BY <2>t, <3>2, <4>1, <4>2, <4>3, <4>4 DEF ConvergeInv
    <3> QED BY <3>6, <3>7
  <2>4. CASE Act
    <3>1. PICK r : Tell(r)
      BY <2>4 DEF Act
    <3>2. /\ \A n \in DOMAIN policy : n # k => report'[n] = report[n]
          /\ stage' \in {"told", "over"} /\ before'[k] = report[k]
      BY <3>1, TellKeepsOthers
    <3>3. /\ UNCHANGED <<policy, mode, k, raced>> /\ P' = P /\ stage = "act"
          /\ \A n \in DOMAIN policy :
               steady'[n] = (steady[n] /\ (n = k \/ host' = host \/ Fact(policy[n]) # Fact(P)))
          /\ host' \in {host, Wanted}
      BY <2>4 DEF Act, P, Run
    <3>4. \A c : c # Fact(P) => (c \in host' <=> c \in host)
      BY <3>3 DEF Wanted
    <3>5. ASSUME NEW n \in DOMAIN policy, n # k, Trusted(n)' PROVE HoldsIn(policy[n], host')
      <4>1. Trusted(n) /\ (host' = host \/ Fact(policy[n]) # Fact(P))
        BY <3>2, <3>3, <3>5 DEF Trusted, Claims
      <4>2. (Fact(policy[n]) \in host) <=> (Fact(policy[n]) \in host')
        BY <3>4, <4>1
      <4> QED BY <2>t, <3>5, <4>1, <4>2, HoldingFollowsFact
    <3>6. Converges'
      <4>1. ~ (report[k] \in {"kept", "repaired"} /\ steady[k] /\ Claims(k))
        BY <3>3 DEF ConvergeInv, Trusted
      <4> QED BY <2>0, <3>2, <3>3, <4>1 DEF Converges, Claims, Convergent, Upgrades
    <3>7. ReportIsTrue'
      <4>1. mode # "t" /\ ~ Upgrades(P) /\ report'[k] \in {"kept", "repaired"} => Kept(P)'
        BY <2>4, ActIsTrue
      <4> QED BY <3>3, <4>1 DEF ReportIsTrue, Upgrades
    <3> QED BY <3>2, <3>3, <3>5, <3>6, <3>7 DEF ConvergeInv
  <2>5. CASE Advance
    <3>1. /\ UNCHANGED <<policy, mode, host, report>> /\ stage = "told"
          /\ stage' \in {"start", "over"}
          /\ steady'[k] = ~ raced
          /\ \A n \in DOMAIN policy : n # k => steady'[n] = steady[n]
      BY <2>0, <2>5 DEF Advance
    <3>2. ASSUME NEW n \in DOMAIN policy, Trusted(n)' PROVE HoldsIn(policy[n], host)
      <4>1. CASE n = k
        <5>1. /\ report[k] \in {"kept", "repaired"} /\ ~ raced /\ mode # "t" /\ ~ P.guarded
              /\ ~ Upgrades(P) /\ P.name = "plain"
          BY <2>0, <3>1, <3>2, <4>1 DEF Trusted, Claims, Convergent
        <5>2. Kept(P)
          BY <3>1, <5>1 DEF ConvergeInv, ReportIsTrue
        <5> QED BY <2>0, <4>1, <5>2, KeptIsHoldsIn
      <4>2. CASE n # k
        BY <2>t, <3>1, <3>2, <4>2 DEF Trusted, Claims
      <4> QED BY <4>1, <4>2
    <3> QED BY <3>1, <3>2 DEF ConvergeInv, ReportIsTrue, Converges
  <2>6. CASE Drift
    <3>1. PICK n \in DOMAIN policy :
            /\ host' = IF Fact(policy[n]) \in host THEN host \ {Fact(policy[n])}
                       ELSE host \cup {Fact(policy[n])}
            /\ steady' = [m \in DOMAIN policy |-> steady[m] /\ Fact(policy[m]) # Fact(policy[n])]
            /\ raced' = (raced \/ Fact(P) = Fact(policy[n]))
      BY <2>6 DEF Drift
    <3>2. UNCHANGED <<policy, mode, k, stage, report, before>> /\ P' = P
      BY <2>6 DEF Drift, P
    <3>3. \A p : Fact(p) # Fact(policy[n]) => (HoldsIn(p, host) <=> HoldsIn(p, host'))
      <4>1. \A p : Fact(p) # Fact(policy[n]) => (Fact(p) \in host <=> Fact(p) \in host')
        BY <3>1
      <4> QED BY <4>1, HoldingFollowsFact
    <3>4. \A m \in DOMAIN policy :
            (steady'[m] => steady[m]) /\ (Trusted(m)' => Trusted(m) /\ Fact(policy[m]) # Fact(policy[n]))
      BY <3>1, <3>2 DEF Trusted, Claims
    <3>5. ASSUME NEW m \in DOMAIN policy, m # k \/ stage \in {"start", "look"}, Trusted(m)'
          PROVE  HoldsIn(policy[m], host')
      BY <2>t, <3>3, <3>4, <3>5
    <3>6. Converges'
      BY <2>0, <3>2, <3>4 DEF ConvergeInv, Converges, Convergent, Upgrades
    <3>7. ReportIsTrue'
      <4>1. Kept(P) <=> HoldsIn(P, host)
        BY KeptIsHoldsIn
      <4>2. Kept(P)' <=> HoldsIn(P, host')
        BY <3>2, KeptIsHoldsIn DEF Kept, HoldsIn, Fact
      <4> QED BY <3>1, <3>2, <3>3, <4>1, <4>2 DEF ConvergeInv, ReportIsTrue, Upgrades
    <3> QED BY <2>0, <3>2, <3>4, <3>5, <3>6, <3>7 DEF ConvergeInv
  <2>7. CASE UNCHANGED vars
    BY <2>7 DEF vars, ConvergeInv, Trusted, Claims, ReportIsTrue, Converges, Kept, P
  <2> QED BY <2>1, <2>2, <2>3, <2>4, <2>5, <2>6, <2>7 DEF Next, Terminated
<1> QED BY <1>1, <1>2

(***************************************************************************)
(* A report of kept or repaired is true of the host (systemd.lua, openrc   *)
(* .lua and the package modules), for any policy and however the host      *)
(* changes meanwhile.                                                      *)
(***************************************************************************)
THEOREM ReportsTrue == Spec => []ReportIsTrue
<1>1. ConvergeInv => ReportIsTrue
  BY DEF ConvergeInv
<1> QED BY <1>1, ConvergeInvInductive, TypeCorrect, PTL DEF Spec

(***************************************************************************)
(* A promise that was kept or repaired and whose fact nobody touched is    *)
(* reported kept the next time, whatever other promises do in between.     *)
(***************************************************************************)
THEOREM Convergence == Spec => []Converges
<1>1. ConvergeInv => Converges
  BY DEF ConvergeInv
<1> QED BY <1>1, ConvergeInvInductive, TypeCorrect, PTL DEF Spec
=============================================================================
