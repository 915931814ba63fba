------------------------ MODULE ClusterInstallProofs ------------------------
(***************************************************************************)
(* That a cluster can be installed over and over, that a run which says    *)
(* it is done has brought about what it was asked for, and that its steps  *)
(* do nothing out of order: for any nodes, roles, configurations and       *)
(* accidents.                                                              *)
(*                                                                         *)
(* The pipelines are long, and a step rests on what others, far before     *)
(* it, have made or found out. So the proof goes by the rank of a step,    *)
(* which says what comes before it, and by two accounts of each step:      *)
(* what a run has learned by having gone through it (Learned) and what     *)
(* has been brought about by then (Brought). Each step is then shown to    *)
(* find what it rests on and to leave both accounts true of all the        *)
(* others.                                                                 *)
(***************************************************************************)
EXTENDS ClusterInstall, SequenceTheorems, WellFoundedInduction, TLAPS

-----------------------------------------------------------------------------
(* The order the steps of the pipelines come in                            *)

Steps == Prompt \cup Applied \cup UNION {RolesOf(c) : c \in Configs}

\* Asked for twice by an installation, which makes no difference.
Repeated == "check-gateway-interfaces"

\* Where a step comes; a role's after those of the roles before it.
Base(s) ==
    CASE s = "check-cluster-online" -> 0
      [] s = "find-network-once" -> 1
      [] s = "list-roles-once" -> 2
      [] s = "verify-nebula-roles" -> 3
      [] s = "check-nebula-enrollment" -> 4
      [] s = "find-nebula-network" -> 5
      [] s = "list-nebula-roles" -> 6
      [] s = "find-nebula-host" -> 7
      [] s = "create-nebula-host" -> 8
      [] s = "create-nebula-enrollment-code" -> 9
      [] s = "add-nebula-ipv4-address" -> 10
      [] s = "install-dnclient" -> 11
      [] s = "enroll-nebula-host" -> 12
      [] s = "refresh-nebula-config" -> 13
      [] s = "verify-nebula-host" -> 14
      [] s = "check-k3s-service" -> 15
      [] s = "write-registries-config" -> 16
      [] s = "restart-k3s" -> 17
      [] s = "verify-registry-access" -> 18
      [] s = "find-node-ip" -> 19
      [] s = "write-authentication-config" -> 20
      [] s = "verify-authentication-config" -> 21
      [] s = "install-k3s-server" -> 22
      [] s = "install-k3s-agent" -> 23
      [] s = "wait-for-k3s" -> 24
      [] s = "verify-k3s" -> 25
      [] s = "verify-node-ip" -> 26
      [] s = "check-cluster-access" -> 27
      [] s = "apply-node-labels" -> 28
      [] s = "verify-node-labels" -> 29
      [] s = "install-gateway-api" -> 30
      [] s = "install-cilium" -> 31
      [] s = "wait-for-cilium" -> 32
      [] s = "verify-cilium" -> 33
      [] s = "check-gateway-support" -> 35
      [] s = "label-gateway-nodes" -> 36
      [] s = "apply-lb-ip-pool" -> 37
      [] s = "apply-l2-announcement" -> 38
      [] s = "verify-gateway" -> 39
      [] s = "apply-cluster-gateway" -> 40
      [] s = "verify-cluster-gateway" -> 41
      [] s = "install-nvidia-container-toolkit" -> 42
      [] s = "check-k3s-nvidia-runtime" -> 43
      [] s = "restart-k3s-for-nvidia" -> 44
      [] s = "check-nvidia-driver" -> 45
      [] s = "label-nvidia-driver" -> 46
      [] s = "verify-nvidia-runtime" -> 47
      [] s = "write-cluster-config" -> 48
      [] s = "verify-cluster-config" -> 49
      [] s = "verify-node-ready" -> 50
      [] s = "check-gateway-interfaces" -> 51

Rank(c, s) ==
    IF s \in RolesOf(c) THEN 2 + (CHOOSE i \in DOMAIN c.roles : c.roles[i].name = s)
    ELSE IF Base(s) < 3 THEN Base(s) ELSE Base(s) + Len(c.roles)

\* Sequence s goes up from at least lo to below hi.
Climbs(c, s, lo, hi) ==
    /\ \A i \in DOMAIN s : s[i] # Repeated => lo <= Rank(c, s[i]) /\ Rank(c, s[i]) < hi
    /\ \A i, j \in DOMAIN s :
          i < j /\ s[i] # Repeated /\ s[j] # Repeated => Rank(c, s[i]) < Rank(c, s[j])

(* Where each step comes.                                                  *)
LEMMA Bases ==
    /\ Base("check-cluster-online") = 0
    /\ Base("find-network-once") = 1
    /\ Base("list-roles-once") = 2
    /\ Base("verify-nebula-roles") = 3
    /\ Base("check-nebula-enrollment") = 4
    /\ Base("find-nebula-network") = 5
    /\ Base("list-nebula-roles") = 6
    /\ Base("find-nebula-host") = 7
    /\ Base("create-nebula-host") = 8
    /\ Base("create-nebula-enrollment-code") = 9
    /\ Base("add-nebula-ipv4-address") = 10
    /\ Base("install-dnclient") = 11
    /\ Base("enroll-nebula-host") = 12
    /\ Base("refresh-nebula-config") = 13
    /\ Base("verify-nebula-host") = 14
    /\ Base("check-k3s-service") = 15
    /\ Base("write-registries-config") = 16
    /\ Base("restart-k3s") = 17
    /\ Base("verify-registry-access") = 18
    /\ Base("find-node-ip") = 19
    /\ Base("write-authentication-config") = 20
    /\ Base("verify-authentication-config") = 21
    /\ Base("install-k3s-server") = 22
    /\ Base("install-k3s-agent") = 23
    /\ Base("wait-for-k3s") = 24
    /\ Base("verify-k3s") = 25
    /\ Base("verify-node-ip") = 26
    /\ Base("check-cluster-access") = 27
    /\ Base("apply-node-labels") = 28
    /\ Base("verify-node-labels") = 29
    /\ Base("install-gateway-api") = 30
    /\ Base("install-cilium") = 31
    /\ Base("wait-for-cilium") = 32
    /\ Base("verify-cilium") = 33
    /\ Base("check-gateway-support") = 35
    /\ Base("label-gateway-nodes") = 36
    /\ Base("apply-lb-ip-pool") = 37
    /\ Base("apply-l2-announcement") = 38
    /\ Base("verify-gateway") = 39
    /\ Base("apply-cluster-gateway") = 40
    /\ Base("verify-cluster-gateway") = 41
    /\ Base("install-nvidia-container-toolkit") = 42
    /\ Base("check-k3s-nvidia-runtime") = 43
    /\ Base("restart-k3s-for-nvidia") = 44
    /\ Base("check-nvidia-driver") = 45
    /\ Base("label-nvidia-driver") = 46
    /\ Base("verify-nvidia-runtime") = 47
    /\ Base("write-cluster-config") = 48
    /\ Base("verify-cluster-config") = 49
    /\ Base("verify-node-ready") = 50
    /\ Base("check-gateway-interfaces") = 51
<1>1. Base("check-cluster-online") = 0
  BY Zenon DEF Base
<1>2. Base("find-network-once") = 1
  BY Zenon DEF Base
<1>3. Base("list-roles-once") = 2
  BY Zenon DEF Base
<1>4. Base("verify-nebula-roles") = 3
  BY Zenon DEF Base
<1>5. Base("check-nebula-enrollment") = 4
  BY Zenon DEF Base
<1>6. Base("find-nebula-network") = 5
  BY Zenon DEF Base
<1>7. Base("list-nebula-roles") = 6
  BY Zenon DEF Base
<1>8. Base("find-nebula-host") = 7
  BY Zenon DEF Base
<1>9. Base("create-nebula-host") = 8
  BY Zenon DEF Base
<1>10. Base("create-nebula-enrollment-code") = 9
  BY Zenon DEF Base
<1>11. Base("add-nebula-ipv4-address") = 10
  BY Zenon DEF Base
<1>12. Base("install-dnclient") = 11
  BY Zenon DEF Base
<1>13. Base("enroll-nebula-host") = 12
  BY Zenon DEF Base
<1>14. Base("refresh-nebula-config") = 13
  BY Zenon DEF Base
<1>15. Base("verify-nebula-host") = 14
  BY Zenon DEF Base
<1>16. Base("check-k3s-service") = 15
  BY Zenon DEF Base
<1>17. Base("write-registries-config") = 16
  BY Zenon DEF Base
<1>18. Base("restart-k3s") = 17
  BY Zenon DEF Base
<1>19. Base("verify-registry-access") = 18
  BY Zenon DEF Base
<1>20. Base("find-node-ip") = 19
  BY Zenon DEF Base
<1>21. Base("write-authentication-config") = 20
  BY Zenon DEF Base
<1>22. Base("verify-authentication-config") = 21
  BY Zenon DEF Base
<1>23. Base("install-k3s-server") = 22
  BY Zenon DEF Base
<1>24. Base("install-k3s-agent") = 23
  BY Zenon DEF Base
<1>25. Base("wait-for-k3s") = 24
  BY Zenon DEF Base
<1>26. Base("verify-k3s") = 25
  BY Zenon DEF Base
<1>27. Base("verify-node-ip") = 26
  BY Zenon DEF Base
<1>28. Base("check-cluster-access") = 27
  BY Zenon DEF Base
<1>29. Base("apply-node-labels") = 28
  BY Zenon DEF Base
<1>30. Base("verify-node-labels") = 29
  BY Zenon DEF Base
<1>31. Base("install-gateway-api") = 30
  BY Zenon DEF Base
<1>32. Base("install-cilium") = 31
  BY Zenon DEF Base
<1>33. Base("wait-for-cilium") = 32
  BY Zenon DEF Base
<1>34. Base("verify-cilium") = 33
  BY Zenon DEF Base
<1>35. Base("check-gateway-support") = 35
  BY Zenon DEF Base
<1>36. Base("label-gateway-nodes") = 36
  BY Zenon DEF Base
<1>37. Base("apply-lb-ip-pool") = 37
  BY Zenon DEF Base
<1>38. Base("apply-l2-announcement") = 38
  BY Zenon DEF Base
<1>39. Base("verify-gateway") = 39
  BY Zenon DEF Base
<1>40. Base("apply-cluster-gateway") = 40
  BY Zenon DEF Base
<1>41. Base("verify-cluster-gateway") = 41
  BY Zenon DEF Base
<1>42. Base("install-nvidia-container-toolkit") = 42
  BY Zenon DEF Base
<1>43. Base("check-k3s-nvidia-runtime") = 43
  BY Zenon DEF Base
<1>44. Base("restart-k3s-for-nvidia") = 44
  BY Zenon DEF Base
<1>45. Base("check-nvidia-driver") = 45
  BY Zenon DEF Base
<1>46. Base("label-nvidia-driver") = 46
  BY Zenon DEF Base
<1>47. Base("verify-nvidia-runtime") = 47
  BY Zenon DEF Base
<1>48. Base("write-cluster-config") = 48
  BY Zenon DEF Base
<1>49. Base("verify-cluster-config") = 49
  BY Zenon DEF Base
<1>50. Base("verify-node-ready") = 50
  BY Zenon DEF Base
<1>51. Base("check-gateway-interfaces") = 51
  BY Zenon DEF Base
<1> QED
  BY <1>1, <1>2, <1>3, <1>4, <1>5, <1>6, <1>7, <1>8, <1>9, <1>10, <1>11, <1>12, <1>13, <1>14,
     <1>15, <1>16, <1>17, <1>18, <1>19, <1>20, <1>21, <1>22, <1>23, <1>24, <1>25, <1>26, <1>27,
     <1>28, <1>29, <1>30, <1>31, <1>32, <1>33, <1>34, <1>35, <1>36, <1>37, <1>38, <1>39, <1>40,
     <1>41, <1>42, <1>43, <1>44, <1>45, <1>46, <1>47, <1>48, <1>49, <1>50, <1>51

(* Every step comes somewhere.                                             *)
LEMMA BaseType ==
    ASSUME NEW s \in Prompt \cup Applied
    PROVE  Base(s) \in Nat
<1> QED
  BY Bases DEF Prompt, Applied

(* A step before the roles comes where it does without any; one after      *)
(* them, as many places later as there are roles.                          *)
LEMMA RankIsBase ==
    ASSUME NEW c \in Configs, NEW s \in Prompt \cup Applied
    PROVE  /\ Base(s) < 3 => Rank(c, s) = Base(s)
           /\ Base(s) >= 3 => Rank(c, s) = Base(s) + Len(c.roles)
           /\ Base(s) \in Nat /\ Len(c.roles) \in Nat
<1>1. s \notin RolesOf(c)
  BY NamesAssumption
<1>2. Rank(c, s) = IF Base(s) < 3 THEN Base(s) ELSE Base(s) + Len(c.roles)
  BY <1>1 DEF Rank
<1>3. Len(c.roles) \in Nat
  BY ConfigsAssumption, LenProperties
<1> HIDE DEF Base
<1> QED
  BY <1>2, <1>3, BaseType

(* The roles come in the order they are written in, after the first three  *)
(* steps.                                                                  *)
LEMMA RoleRanks ==
    ASSUME NEW c \in Configs, NEW i \in DOMAIN c.roles
    PROVE  Rank(c, c.roles[i].name) = 2 + i /\ c.roles[i].name \in RolesOf(c)
<1>1. c.roles[i].name \in RolesOf(c)
  BY DEF RolesOf
<1>2. \A j \in DOMAIN c.roles : c.roles[j].name = c.roles[i].name => j = i
  BY ConfigsAssumption
<1>3. (CHOOSE j \in DOMAIN c.roles : c.roles[j].name = c.roles[i].name) = i
  BY <1>2
<1> QED
  BY <1>1, <1>3 DEF Rank

(* Every step of a configuration comes somewhere.                          *)
LEMMA RankType ==
    ASSUME NEW c \in Configs, NEW s \in Prompt \cup Applied \cup RolesOf(c)
    PROVE  Rank(c, s) \in Nat
<1>1. CASE s \in RolesOf(c)
  <2>1. PICK i \in DOMAIN c.roles : s = c.roles[i].name
    BY <1>1 DEF RolesOf
  <2>2. i \in Nat
    BY ConfigsAssumption, LenProperties
  <2> QED
    BY <2>1, <2>2, RoleRanks
<1>2. CASE s \notin RolesOf(c)
  BY <1>2, RankIsBase
<1> QED
  BY <1>1, <1>2

Elems(s) == {s[i] : i \in DOMAIN s}

StepsOf(c) == Prompt \cup Applied \cup RolesOf(c)

(* One sequence that goes up, and then another from where it ended, go up  *)
(* together.                                                               *)
LEMMA ClimbsConcat ==
    ASSUME NEW c \in Configs, NEW s \in Seq(StepsOf(c)), NEW t \in Seq(StepsOf(c)),
           NEW lo \in Nat, NEW mid \in Nat, NEW from \in Nat, NEW hi \in Nat,
           lo <= from, mid <= from, mid <= hi,
           Climbs(c, s, lo, mid), Climbs(c, t, from, hi)
    PROVE  /\ s \o t \in Seq(StepsOf(c))
           /\ Climbs(c, s \o t, lo, hi)
           /\ Elems(s \o t) = Elems(s) \cup Elems(t)
<1> DEFINE u == s \o t
<1>1. u \in Seq(StepsOf(c)) /\ DOMAIN u = 1..Len(s) + Len(t)
  BY ConcatProperties, LenProperties
<1>2. \A i \in DOMAIN u : u[i] = IF i <= Len(s) THEN s[i] ELSE t[i - Len(s)]
  BY <1>1, ConcatProperties
<1>3. DOMAIN s = 1..Len(s) /\ DOMAIN t = 1..Len(t) /\ Len(s) \in Nat /\ Len(t) \in Nat
  BY LenProperties
<1>4. /\ \A i \in DOMAIN s : s[i] \in StepsOf(c)
      /\ \A i \in DOMAIN t : t[i] \in StepsOf(c)
  BY <1>3, ElementOfSeq
<1>5. /\ \A i \in DOMAIN s : Rank(c, s[i]) \in Nat
      /\ \A i \in DOMAIN t : Rank(c, t[i]) \in Nat
  BY <1>4, RankType DEF StepsOf
<1>6. \A i \in DOMAIN u : \/ i \in DOMAIN s /\ u[i] = s[i]
                          \/ i - Len(s) \in DOMAIN t /\ u[i] = t[i - Len(s)] /\ i > Len(s)
  BY <1>1, <1>2, <1>3
<1> HIDE DEF u
<1>7. Climbs(c, u, lo, hi)
  <2>1. ASSUME NEW i \in DOMAIN u, u[i] # Repeated
        PROVE  lo <= Rank(c, u[i]) /\ Rank(c, u[i]) < hi
    BY <1>5, <1>6, <2>1 DEF Climbs
  <2>2. ASSUME NEW i \in DOMAIN u, NEW j \in DOMAIN u, i < j, u[i] # Repeated, u[j] # Repeated
        PROVE  Rank(c, u[i]) < Rank(c, u[j])
    <3>1. CASE i \in DOMAIN s /\ u[i] = s[i]
      BY <1>1, <1>3, <1>5, <1>6, <2>2, <3>1 DEF Climbs
    <3>2. CASE i - Len(s) \in DOMAIN t /\ u[i] = t[i - Len(s)] /\ i > Len(s)
      <4>1. j - Len(s) \in DOMAIN t /\ u[j] = t[j - Len(s)]
        BY <1>1, <1>3, <1>6, <2>2, <3>2
      <4>2. i - Len(s) < j - Len(s)
        BY <1>1, <1>3, <2>2
      <4> QED
        BY <2>2, <3>2, <4>1, <4>2 DEF Climbs
    <3> QED
      BY <1>6, <2>2, <3>1, <3>2
  <2> QED
    BY <2>1, <2>2 DEF Climbs
<1>8. Elems(u) = Elems(s) \cup Elems(t)
  <2>1. \A i \in DOMAIN s : i \in DOMAIN u /\ u[i] = s[i]
    BY <1>1, <1>2, <1>3 DEF u
  <2>2. \A i \in DOMAIN t : i + Len(s) \in DOMAIN u /\ u[i + Len(s)] = t[i]
    <3> SUFFICES ASSUME NEW i \in DOMAIN t
                 PROVE  i + Len(s) \in DOMAIN u /\ u[i + Len(s)] = t[i]
      OBVIOUS
    <3>1. i + Len(s) \in DOMAIN u /\ ~(i + Len(s) <= Len(s)) /\ (i + Len(s)) - Len(s) = i
      BY <1>1, <1>3 DEF u
    <3> QED
      BY <1>2, <3>1 DEF u
  <2> QED
    BY <1>6, <2>1, <2>2 DEF Elems
<1> QED
  BY <1>1, <1>7, <1>8 DEF u

(* No steps go up.                                                         *)
LEMMA ClimbsNothing ==
    ASSUME NEW c, NEW lo \in Nat, NEW hi \in Nat
    PROVE  <<>> \in Seq(StepsOf(c)) /\ Climbs(c, <<>>, lo, hi) /\ Elems(<<>>) = {}
<1> QED
  BY DEF Climbs, Elems

(* A bundle whose steps come one after another goes up, from where its     *)
(* first step comes.                                                       *)
LEMMA ClimbsLiterals ==
    ASSUME NEW c \in Configs, NEW s \in Seq(Prompt \cup Applied), NEW lo \in Nat, NEW hi \in Nat,
           3 <= lo, hi = lo + Len(s),
           \A i \in DOMAIN s : s[i] # Repeated => Base(s[i]) = lo + i - 1
    PROVE  s \in Seq(StepsOf(c)) /\ Climbs(c, s, lo + Len(c.roles), hi + Len(c.roles))
<1>1. s \in Seq(StepsOf(c))
  BY SeqMonotonic DEF StepsOf
<1>2. \A i \in DOMAIN s : s[i] \in Prompt \cup Applied
  BY LenProperties, ElementOfSeq
<1>3. Len(c.roles) \in Nat /\ Len(s) \in Nat /\ DOMAIN s = 1..Len(s)
  BY ConfigsAssumption, LenProperties
<1>4. \A i \in DOMAIN s : s[i] # Repeated => Rank(c, s[i]) = lo + i - 1 + Len(c.roles)
  BY <1>2, <1>3, RankIsBase
<1>5. \A i \in DOMAIN s : s[i] # Repeated => lo + Len(c.roles) <= Rank(c, s[i]) /\ Rank(c, s[i]) < hi + Len(c.roles)
  <2> SUFFICES ASSUME NEW i \in 1..Len(s), s[i] # Repeated
               PROVE  lo + Len(c.roles) <= Rank(c, s[i]) /\ Rank(c, s[i]) < hi + Len(c.roles)
    BY <1>3
  <2>1. Rank(c, s[i]) = lo + i - 1 + Len(c.roles)
    BY <1>3, <1>4
  <2> DEFINE l == Len(s)
             k == Len(c.roles)
             r == Rank(c, s[i])
  <2>2. i \in 1..l /\ l \in Nat /\ k \in Nat /\ r = lo + i - 1 + k /\ hi = lo + l
    BY <1>3, <2>1
  <2> HIDE DEF l, k, r
  <2>3. lo + k <= r /\ r < hi + k
    BY <2>2
  <2> QED
    BY <2>3 DEF l, k, r
<1>6. \A i, j \in DOMAIN s :
         i < j /\ s[i] # Repeated /\ s[j] # Repeated => Rank(c, s[i]) < Rank(c, s[j])
  BY <1>3, <1>4
<1> QED
  BY <1>1, <1>5, <1>6 DEF Climbs

(* The steps of each bundle come in their order, and these are all of      *)
(* them: the registries'.                                                  *)
LEMMA RegistriesClimbs ==
    ASSUME NEW c \in Configs
    PROVE  /\ Registries \in Seq(StepsOf(c))
           /\ Climbs(c, Registries, 15 + Len(c.roles), 19 + Len(c.roles))
           /\ Elems(Registries) = {"check-k3s-service", "write-registries-config", "restart-k3s",
                                   "verify-registry-access"}
<1>1. Registries \in Seq(Prompt \cup Applied) /\ DOMAIN Registries = 1..4 /\ Len(Registries) = 4
  BY DEF Registries, Prompt, Applied
<1>2. /\ Registries[1] = "check-k3s-service"
      /\ Registries[2] = "write-registries-config"
      /\ Registries[3] = "restart-k3s"
      /\ Registries[4] = "verify-registry-access"
  BY DEF Registries
<1>3. /\ Base(Registries[1]) = 15
      /\ Base(Registries[2]) = 16
      /\ Base(Registries[3]) = 17
      /\ Base(Registries[4]) = 18
  BY <1>2, Bases
<1>4. \A i \in DOMAIN Registries : Registries[i] # Repeated => Base(Registries[i]) = 15 + i - 1
  BY <1>1, <1>3
<1>5. 15 \in Nat /\ 19 \in Nat /\ 3 <= 15 /\ 19 = 15 + Len(Registries)
  BY <1>1
<1>6. Climbs(c, Registries, 15 + Len(c.roles), 19 + Len(c.roles)) /\ Registries \in Seq(StepsOf(c))
  BY <1>1, <1>4, <1>5, ClimbsLiterals
<1>7. Elems(Registries) = {Registries[1], Registries[2], Registries[3], Registries[4]}
  BY <1>1 DEF Elems
<1> QED
  BY <1>2, <1>6, <1>7

(* K3s.                                                                    *)
LEMMA K3sClimbs ==
    ASSUME NEW c \in Configs
    PROVE  /\ K3s \in Seq(StepsOf(c))
           /\ Climbs(c, K3s, 19 + Len(c.roles), 27 + Len(c.roles))
           /\ Elems(K3s) = {"find-node-ip", "write-authentication-config",
                            "verify-authentication-config", "install-k3s-server",
                            "install-k3s-agent", "wait-for-k3s", "verify-k3s", "verify-node-ip"}
<1>1. K3s \in Seq(Prompt \cup Applied) /\ DOMAIN K3s = 1..8 /\ Len(K3s) = 8
  BY DEF K3s, SignIn, Prompt, Applied
<1>2. /\ K3s[1] = "find-node-ip"
      /\ K3s[2] = "write-authentication-config"
      /\ K3s[3] = "verify-authentication-config"
      /\ K3s[4] = "install-k3s-server"
      /\ K3s[5] = "install-k3s-agent"
      /\ K3s[6] = "wait-for-k3s"
      /\ K3s[7] = "verify-k3s"
      /\ K3s[8] = "verify-node-ip"
  BY DEF K3s, SignIn
<1>3. /\ Base(K3s[1]) = 19
      /\ Base(K3s[2]) = 20
      /\ Base(K3s[3]) = 21
      /\ Base(K3s[4]) = 22
      /\ Base(K3s[5]) = 23
      /\ Base(K3s[6]) = 24
      /\ Base(K3s[7]) = 25
      /\ Base(K3s[8]) = 26
  BY <1>2, Bases
<1>4. \A i \in DOMAIN K3s : K3s[i] # Repeated => Base(K3s[i]) = 19 + i - 1
  BY <1>1, <1>3
<1>5. 19 \in Nat /\ 27 \in Nat /\ 3 <= 19 /\ 27 = 19 + Len(K3s)
  BY <1>1
<1>6. Climbs(c, K3s, 19 + Len(c.roles), 27 + Len(c.roles)) /\ K3s \in Seq(StepsOf(c))
  BY <1>1, <1>4, <1>5, ClimbsLiterals
<1>7. Elems(K3s) = {K3s[1], K3s[2], K3s[3], K3s[4], K3s[5], K3s[6], K3s[7], K3s[8]}
  BY <1>1 DEF Elems
<1> QED
  BY <1>2, <1>6, <1>7

(* The gateway's.                                                          *)
LEMMA GatewayClimbs ==
    ASSUME NEW c \in Configs
    PROVE  /\ Gateway \in Seq(StepsOf(c))
           /\ Climbs(c, Gateway, 34 + Len(c.roles), 42 + Len(c.roles))
           /\ Elems(Gateway) = {"check-gateway-interfaces", "check-gateway-support",
                                "label-gateway-nodes", "apply-lb-ip-pool",
                                "apply-l2-announcement", "verify-gateway",
                                "apply-cluster-gateway", "verify-cluster-gateway"}
<1>1. Gateway \in Seq(Prompt \cup Applied) /\ DOMAIN Gateway = 1..8 /\ Len(Gateway) = 8
  BY DEF Gateway, GatewayAddresses, Prompt, Applied
<1>2. /\ Gateway[1] = "check-gateway-interfaces"
      /\ Gateway[2] = "check-gateway-support"
      /\ Gateway[3] = "label-gateway-nodes"
      /\ Gateway[4] = "apply-lb-ip-pool"
      /\ Gateway[5] = "apply-l2-announcement"
      /\ Gateway[6] = "verify-gateway"
      /\ Gateway[7] = "apply-cluster-gateway"
      /\ Gateway[8] = "verify-cluster-gateway"
  BY DEF Gateway, GatewayAddresses
<1>3. /\ Base(Gateway[2]) = 35
      /\ Base(Gateway[3]) = 36
      /\ Base(Gateway[4]) = 37
      /\ Base(Gateway[5]) = 38
      /\ Base(Gateway[6]) = 39
      /\ Base(Gateway[7]) = 40
      /\ Base(Gateway[8]) = 41
  BY <1>2, Bases
<1>4. \A i \in DOMAIN Gateway : Gateway[i] # Repeated => Base(Gateway[i]) = 34 + i - 1
  BY <1>1, <1>3, <1>2 DEF Repeated
<1>5. 34 \in Nat /\ 42 \in Nat /\ 3 <= 34 /\ 42 = 34 + Len(Gateway)
  BY <1>1
<1>6. Climbs(c, Gateway, 34 + Len(c.roles), 42 + Len(c.roles)) /\ Gateway \in Seq(StepsOf(c))
  BY <1>1, <1>4, <1>5, ClimbsLiterals
<1>7. Elems(Gateway) = {Gateway[1], Gateway[2], Gateway[3], Gateway[4], Gateway[5], Gateway[6],
                        Gateway[7], Gateway[8]}
  BY <1>1 DEF Elems
<1> QED
  BY <1>2, <1>6, <1>7

(* The labels'.                                                            *)
LEMMA NodeLabelsClimbs ==
    ASSUME NEW c \in Configs
    PROVE  /\ NodeLabels \in Seq(StepsOf(c))
           /\ Climbs(c, NodeLabels, 27 + Len(c.roles), 30 + Len(c.roles))
           /\ Elems(NodeLabels) = {"check-cluster-access", "apply-node-labels",
                                   "verify-node-labels"}
<1>1. NodeLabels \in Seq(Prompt \cup Applied) /\ DOMAIN NodeLabels = 1..3 /\ Len(NodeLabels) = 3
  BY DEF NodeLabels, Prompt, Applied
<1>2. /\ NodeLabels[1] = "check-cluster-access"
      /\ NodeLabels[2] = "apply-node-labels"
      /\ NodeLabels[3] = "verify-node-labels"
  BY DEF NodeLabels
<1>3. /\ Base(NodeLabels[1]) = 27
      /\ Base(NodeLabels[2]) = 28
      /\ Base(NodeLabels[3]) = 29
  BY <1>2, Bases
<1>4. \A i \in DOMAIN NodeLabels : NodeLabels[i] # Repeated => Base(NodeLabels[i]) = 27 + i - 1
  BY <1>1, <1>3
<1>5. 27 \in Nat /\ 30 \in Nat /\ 3 <= 27 /\ 30 = 27 + Len(NodeLabels)
  BY <1>1
<1>6. Climbs(c, NodeLabels, 27 + Len(c.roles), 30 + Len(c.roles)) /\ NodeLabels \in Seq(StepsOf(c))
  BY <1>1, <1>4, <1>5, ClimbsLiterals
<1>7. Elems(NodeLabels) = {NodeLabels[1], NodeLabels[2], NodeLabels[3]}
  BY <1>1 DEF Elems
<1> QED
  BY <1>2, <1>6, <1>7

(* Cilium's.                                                               *)
LEMMA CiliumClimbs ==
    ASSUME NEW c \in Configs
    PROVE  /\ Cilium \in Seq(StepsOf(c))
           /\ Climbs(c, Cilium, 30 + Len(c.roles), 34 + Len(c.roles))
           /\ Elems(Cilium) = {"install-gateway-api", "install-cilium", "wait-for-cilium",
                               "verify-cilium"}
<1>1. Cilium \in Seq(Prompt \cup Applied) /\ DOMAIN Cilium = 1..4 /\ Len(Cilium) = 4
  BY DEF Cilium, Prompt, Applied
<1>2. /\ Cilium[1] = "install-gateway-api"
      /\ Cilium[2] = "install-cilium"
      /\ Cilium[3] = "wait-for-cilium"
      /\ Cilium[4] = "verify-cilium"
  BY DEF Cilium
<1>3. /\ Base(Cilium[1]) = 30
      /\ Base(Cilium[2]) = 31
      /\ Base(Cilium[3]) = 32
      /\ Base(Cilium[4]) = 33
  BY <1>2, Bases
<1>4. \A i \in DOMAIN Cilium : Cilium[i] # Repeated => Base(Cilium[i]) = 30 + i - 1
  BY <1>1, <1>3
<1>5. 30 \in Nat /\ 34 \in Nat /\ 3 <= 30 /\ 34 = 30 + Len(Cilium)
  BY <1>1
<1>6. Climbs(c, Cilium, 30 + Len(c.roles), 34 + Len(c.roles)) /\ Cilium \in Seq(StepsOf(c))
  BY <1>1, <1>4, <1>5, ClimbsLiterals
<1>7. Elems(Cilium) = {Cilium[1], Cilium[2], Cilium[3], Cilium[4]}
  BY <1>1 DEF Elems
<1> QED
  BY <1>2, <1>6, <1>7

(* NVIDIA's.                                                               *)
LEMMA NvidiaClimbs ==
    ASSUME NEW c \in Configs
    PROVE  /\ Nvidia \in Seq(StepsOf(c))
           /\ Climbs(c, Nvidia, 42 + Len(c.roles), 48 + Len(c.roles))
           /\ Elems(Nvidia) = {"install-nvidia-container-toolkit", "check-k3s-nvidia-runtime",
                               "restart-k3s-for-nvidia", "check-nvidia-driver",
                               "label-nvidia-driver", "verify-nvidia-runtime"}
<1>1. Nvidia \in Seq(Prompt \cup Applied) /\ DOMAIN Nvidia = 1..6 /\ Len(Nvidia) = 6
  BY DEF Nvidia, Prompt, Applied
<1>2. /\ Nvidia[1] = "install-nvidia-container-toolkit"
      /\ Nvidia[2] = "check-k3s-nvidia-runtime"
      /\ Nvidia[3] = "restart-k3s-for-nvidia"
      /\ Nvidia[4] = "check-nvidia-driver"
      /\ Nvidia[5] = "label-nvidia-driver"
      /\ Nvidia[6] = "verify-nvidia-runtime"
  BY DEF Nvidia
<1>3. /\ Base(Nvidia[1]) = 42
      /\ Base(Nvidia[2]) = 43
      /\ Base(Nvidia[3]) = 44
      /\ Base(Nvidia[4]) = 45
      /\ Base(Nvidia[5]) = 46
      /\ Base(Nvidia[6]) = 47
  BY <1>2, Bases
<1>4. \A i \in DOMAIN Nvidia : Nvidia[i] # Repeated => Base(Nvidia[i]) = 42 + i - 1
  BY <1>1, <1>3
<1>5. 42 \in Nat /\ 48 \in Nat /\ 3 <= 42 /\ 48 = 42 + Len(Nvidia)
  BY <1>1
<1>6. Climbs(c, Nvidia, 42 + Len(c.roles), 48 + Len(c.roles)) /\ Nvidia \in Seq(StepsOf(c))
  BY <1>1, <1>4, <1>5, ClimbsLiterals
<1>7. Elems(Nvidia) = {Nvidia[1], Nvidia[2], Nvidia[3], Nvidia[4], Nvidia[5], Nvidia[6]}
  BY <1>1 DEF Elems
<1> QED
  BY <1>2, <1>6, <1>7

(* The cluster's record.                                                   *)
LEMMA ClusterClimbs ==
    ASSUME NEW c \in Configs
    PROVE  /\ Cluster \in Seq(StepsOf(c))
           /\ Climbs(c, Cluster, 48 + Len(c.roles), 50 + Len(c.roles))
           /\ Elems(Cluster) = {"write-cluster-config", "verify-cluster-config"}
<1>1. Cluster \in Seq(Prompt \cup Applied) /\ DOMAIN Cluster = 1..2 /\ Len(Cluster) = 2
  BY DEF Cluster, Prompt, Applied
<1>2. /\ Cluster[1] = "write-cluster-config"
      /\ Cluster[2] = "verify-cluster-config"
  BY DEF Cluster
<1>3. /\ Base(Cluster[1]) = 48
      /\ Base(Cluster[2]) = 49
  BY <1>2, Bases
<1>4. \A i \in DOMAIN Cluster : Cluster[i] # Repeated => Base(Cluster[i]) = 48 + i - 1
  BY <1>1, <1>3
<1>5. 48 \in Nat /\ 50 \in Nat /\ 3 <= 48 /\ 50 = 48 + Len(Cluster)
  BY <1>1
<1>6. Climbs(c, Cluster, 48 + Len(c.roles), 50 + Len(c.roles)) /\ Cluster \in Seq(StepsOf(c))
  BY <1>1, <1>4, <1>5, ClimbsLiterals
<1>7. Elems(Cluster) = {Cluster[1], Cluster[2]}
  BY <1>1 DEF Elems
<1> QED
  BY <1>2, <1>6, <1>7

(* The sign-in's, two of K3s's own.                                        *)
LEMMA SignInClimbs ==
    ASSUME NEW c \in Configs
    PROVE  /\ SignIn \in Seq(StepsOf(c))
           /\ Climbs(c, SignIn, 20 + Len(c.roles), 22 + Len(c.roles))
           /\ Elems(SignIn) = {"write-authentication-config", "verify-authentication-config"}
<1>1. SignIn \in Seq(Prompt \cup Applied) /\ DOMAIN SignIn = 1..2 /\ Len(SignIn) = 2
  BY DEF SignIn, Prompt, Applied
<1>2. /\ SignIn[1] = "write-authentication-config"
      /\ SignIn[2] = "verify-authentication-config"
  BY DEF SignIn
<1>3. /\ Base(SignIn[1]) = 20
      /\ Base(SignIn[2]) = 21
  BY <1>2, Bases
<1>4. \A i \in DOMAIN SignIn : SignIn[i] # Repeated => Base(SignIn[i]) = 20 + i - 1
  BY <1>1, <1>3
<1>5. 20 \in Nat /\ 22 \in Nat /\ 3 <= 20 /\ 22 = 20 + Len(SignIn)
  BY <1>1
<1>6. Climbs(c, SignIn, 20 + Len(c.roles), 22 + Len(c.roles)) /\ SignIn \in Seq(StepsOf(c))
  BY <1>1, <1>4, <1>5, ClimbsLiterals
<1>7. Elems(SignIn) = {SignIn[1], SignIn[2]}
  BY <1>1 DEF Elems
<1> QED
  BY <1>2, <1>6, <1>7

(* The last step of a node that is added.                                  *)
LEMMA LastStepClimbs ==
    ASSUME NEW c \in Configs
    PROVE  /\ <<"verify-node-ready">> \in Seq(StepsOf(c))
           /\ Climbs(c, <<"verify-node-ready">>, 50 + Len(c.roles), 51 + Len(c.roles))
           /\ Elems(<<"verify-node-ready">>) = {"verify-node-ready"}
<1>1. <<"verify-node-ready">> \in Seq(Prompt \cup Applied) /\ DOMAIN <<"verify-node-ready">> = 1..1 /\ Len(<<"verify-node-ready">>) = 1
  BY DEF Prompt, Applied
<1>2. <<"verify-node-ready">>[1] = "verify-node-ready"
  OBVIOUS
<1>3. Base(<<"verify-node-ready">>[1]) = 50
  BY <1>2, Bases
<1>4. \A i \in DOMAIN <<"verify-node-ready">> : <<"verify-node-ready">>[i] # Repeated => Base(<<"verify-node-ready">>[i]) = 50 + i - 1
  BY <1>1, <1>3
<1>5. 50 \in Nat /\ 51 \in Nat /\ 3 <= 50 /\ 51 = 50 + Len(<<"verify-node-ready">>)
  BY <1>1
<1>6. Climbs(c, <<"verify-node-ready">>, 50 + Len(c.roles), 51 + Len(c.roles)) /\ <<"verify-node-ready">> \in Seq(StepsOf(c))
  BY <1>1, <1>4, <1>5, ClimbsLiterals
<1>7. Elems(<<"verify-node-ready">>) = {<<"verify-node-ready">>[1]}
  BY <1>1 DEF Elems
<1> QED
  BY <1>2, <1>6, <1>7

(* The mesh's, of a cluster on a network.                                  *)
LEMMA NebulaOnClimbs ==
    ASSUME NEW c \in Configs, OnNetwork(c)
    PROVE  /\ Nebula(c) \in Seq(StepsOf(c))
           /\ Climbs(c, Nebula(c), 4 + Len(c.roles), 15 + Len(c.roles))
           /\ Elems(Nebula(c)) = {"check-nebula-enrollment", "find-nebula-network",
                                  "list-nebula-roles", "find-nebula-host", "create-nebula-host",
                                  "create-nebula-enrollment-code", "add-nebula-ipv4-address",
                                  "install-dnclient", "enroll-nebula-host",
                                  "refresh-nebula-config", "verify-nebula-host"}
<1>1. Nebula(c) \in Seq(Prompt \cup Applied) /\ DOMAIN Nebula(c) = 1..11 /\ Len(Nebula(c)) = 11
  BY DEF Nebula, Prompt, Applied
<1>2. /\ Nebula(c)[1] = "check-nebula-enrollment"
      /\ Nebula(c)[2] = "find-nebula-network"
      /\ Nebula(c)[3] = "list-nebula-roles"
      /\ Nebula(c)[4] = "find-nebula-host"
      /\ Nebula(c)[5] = "create-nebula-host"
      /\ Nebula(c)[6] = "create-nebula-enrollment-code"
      /\ Nebula(c)[7] = "add-nebula-ipv4-address"
      /\ Nebula(c)[8] = "install-dnclient"
      /\ Nebula(c)[9] = "enroll-nebula-host"
      /\ Nebula(c)[10] = "refresh-nebula-config"
      /\ Nebula(c)[11] = "verify-nebula-host"
  BY DEF Nebula
<1>3. /\ Base(Nebula(c)[1]) = 4
      /\ Base(Nebula(c)[2]) = 5
      /\ Base(Nebula(c)[3]) = 6
      /\ Base(Nebula(c)[4]) = 7
      /\ Base(Nebula(c)[5]) = 8
      /\ Base(Nebula(c)[6]) = 9
      /\ Base(Nebula(c)[7]) = 10
      /\ Base(Nebula(c)[8]) = 11
      /\ Base(Nebula(c)[9]) = 12
      /\ Base(Nebula(c)[10]) = 13
      /\ Base(Nebula(c)[11]) = 14
  BY <1>2, Bases
<1>4. \A i \in DOMAIN Nebula(c) : Nebula(c)[i] # Repeated => Base(Nebula(c)[i]) = 4 + i - 1
  BY <1>1, <1>3
<1>5. 4 \in Nat /\ 15 \in Nat /\ 3 <= 4 /\ 15 = 4 + Len(Nebula(c))
  BY <1>1
<1>6. Climbs(c, Nebula(c), 4 + Len(c.roles), 15 + Len(c.roles)) /\ Nebula(c) \in Seq(StepsOf(c))
  BY <1>1, <1>4, <1>5, ClimbsLiterals
<1>7. Elems(Nebula(c)) = {Nebula(c)[1], Nebula(c)[2], Nebula(c)[3], Nebula(c)[4], Nebula(c)[5],
                          Nebula(c)[6], Nebula(c)[7], Nebula(c)[8], Nebula(c)[9], Nebula(c)[10],
                          Nebula(c)[11]}
  BY <1>1 DEF Elems
<1> QED
  BY <1>2, <1>6, <1>7

(* The mesh's, of which there are none without a network.                  *)
LEMMA NebulaClimbs ==
    ASSUME NEW c \in Configs
    PROVE  /\ Nebula(c) \in Seq(StepsOf(c))
           /\ Climbs(c, Nebula(c), 4 + Len(c.roles), 15 + Len(c.roles))
           /\ Elems(Nebula(c)) =
                 IF OnNetwork(c)
                 THEN {"check-nebula-enrollment", "find-nebula-network", "list-nebula-roles",
                       "find-nebula-host", "create-nebula-host", "create-nebula-enrollment-code",
                       "add-nebula-ipv4-address", "install-dnclient", "enroll-nebula-host",
                       "refresh-nebula-config", "verify-nebula-host"}
                 ELSE {}
<1>1. CASE OnNetwork(c)
  BY <1>1, NebulaOnClimbs
<1>2. CASE ~OnNetwork(c)
  <2>1. Nebula(c) = <<>>
    BY <1>2 DEF Nebula
  <2>2. 4 + Len(c.roles) \in Nat /\ 15 + Len(c.roles) \in Nat
    BY ConfigsAssumption, LenProperties
  <2> QED
    BY <1>2, <2>1, <2>2, ClimbsNothing
<1> QED
  BY <1>1, <1>2

(* The steps that make the roles come in the order the roles are written   *)
(* in.                                                                     *)
LEMMA RolesClimb ==
    ASSUME NEW c \in Configs
    PROVE  LET names == [i \in DOMAIN c.roles |-> c.roles[i].name]
           IN  /\ names \in Seq(StepsOf(c))
               /\ Climbs(c, names, 3, 3 + Len(c.roles))
               /\ Elems(names) = RolesOf(c)
<1> DEFINE names == [i \in DOMAIN c.roles |-> c.roles[i].name]
<1>1. Len(c.roles) \in Nat /\ DOMAIN c.roles = 1..Len(c.roles)
  BY ConfigsAssumption, LenProperties
<1>2. \A i \in DOMAIN c.roles : Rank(c, names[i]) = 2 + i /\ names[i] \in RolesOf(c)
  BY RoleRanks
<1>3. DOMAIN names = 1..Len(c.roles) /\ Elems(names) = RolesOf(c)
  BY <1>1 DEF Elems, RolesOf
<1>4. names \in [1..Len(c.roles) -> StepsOf(c)]
  BY <1>1, <1>2, <1>3 DEF StepsOf
<1>5. names \in Seq(StepsOf(c))
  BY <1>1, <1>4
<1> HIDE DEF names
<1>6. Climbs(c, names, 3, 3 + Len(c.roles))
  BY <1>1, <1>2, <1>3 DEF Climbs
<1> QED
  BY <1>3, <1>5, <1>6 DEF names

(* The network's own, the roles' among them.                               *)
LEMMA NetworkClimbs ==
    ASSUME NEW c \in Configs
    PROVE  /\ NebulaNetwork(c) \in Seq(StepsOf(c))
           /\ Climbs(c, NebulaNetwork(c), 1, 4 + Len(c.roles))
           /\ Elems(NebulaNetwork(c)) =
                 IF OnNetwork(c)
                 THEN {"find-network-once", "list-roles-once",
                       "verify-nebula-roles"} \cup RolesOf(c)
                 ELSE {}
<1>1. Len(c.roles) \in Nat /\ 3 + Len(c.roles) \in Nat /\ 4 + Len(c.roles) \in Nat
  BY ConfigsAssumption, LenProperties
<1>2. CASE OnNetwork(c)
  <2> DEFINE first == <<"find-network-once", "list-roles-once">>
             names == [i \in DOMAIN c.roles |-> c.roles[i].name]
             last == <<"verify-nebula-roles">>
  <2>1. first \in Seq(StepsOf(c)) /\ Elems(first) = {"find-network-once", "list-roles-once"}
    <3>1. first \in Seq(StepsOf(c))
      BY DEF StepsOf, Prompt
    <3>2. DOMAIN first = 1..2 /\ first[1] = "find-network-once" /\ first[2] = "list-roles-once"
      OBVIOUS
    <3>3. Elems(first) = {first[1], first[2]}
      BY <3>2 DEF Elems
    <3> QED
      BY <3>1, <3>2, <3>3
  <2>2. Climbs(c, first, 1, 3)
    <3>1. "find-network-once" \in Prompt \cup Applied /\ "list-roles-once" \in Prompt \cup Applied
      BY DEF Prompt
    <3>2. Rank(c, "find-network-once") = 1 /\ Rank(c, "list-roles-once") = 2
      <4>1. Base("find-network-once") = 1 /\ Base("list-roles-once") = 2
        BY Bases
      <4> HIDE DEF Base
      <4> QED
        BY <3>1, <4>1, RankIsBase
    <3>3. DOMAIN first = 1..2 /\ Rank(c, first[1]) = 1 /\ Rank(c, first[2]) = 2
      BY <3>2
    <3> HIDE DEF first
    <3> QED
      BY <3>3 DEF Climbs
  <2>3. last \in Seq(StepsOf(c)) /\ Elems(last) = {"verify-nebula-roles"}
    BY DEF StepsOf, Prompt, Elems
  <2>4. Climbs(c, last, 3 + Len(c.roles), 4 + Len(c.roles))
    <3>1. "verify-nebula-roles" \in Prompt \cup Applied
      BY DEF Prompt
    <3>2. Rank(c, "verify-nebula-roles") = 3 + Len(c.roles)
      <4>1. Base("verify-nebula-roles") = 3
        BY Bases
      <4>2. Base("verify-nebula-roles") >= 3
        BY <4>1
      <4>3. Rank(c, "verify-nebula-roles") = Base("verify-nebula-roles") + Len(c.roles)
        BY <3>1, <4>2, RankIsBase
      <4> QED
        BY <4>1, <4>3
    <3>3. DOMAIN last = 1..1 /\ Rank(c, last[1]) = 3 + Len(c.roles)
      BY <3>2
    <3> HIDE DEF last
    <3> QED
      BY <1>1, <3>3 DEF Climbs
  <2>5. /\ names \in Seq(StepsOf(c)) /\ Climbs(c, names, 3, 3 + Len(c.roles))
        /\ Elems(names) = RolesOf(c)
    BY RolesClimb
  <2>6. NebulaNetwork(c) = (first \o names) \o last
    BY <1>2 DEF NebulaNetwork
  <2> HIDE DEF first, names, last
  <2>7. /\ first \o names \in Seq(StepsOf(c))
        /\ Climbs(c, first \o names, 1, 3 + Len(c.roles))
        /\ Elems(first \o names) = Elems(first) \cup Elems(names)
    BY <1>1, <2>1, <2>2, <2>5, ClimbsConcat
  <2>8. /\ NebulaNetwork(c) \in Seq(StepsOf(c))
        /\ Climbs(c, NebulaNetwork(c), 1, 4 + Len(c.roles))
        /\ Elems(NebulaNetwork(c)) = Elems(first \o names) \cup Elems(last)
    <3> DEFINE s == first \o names
               mid == 3 + Len(c.roles)
               hi == 4 + Len(c.roles)
    <3>1. mid \in Nat /\ hi \in Nat /\ 1 <= mid /\ mid <= hi
      BY <1>1
    <3>2. s \in Seq(StepsOf(c)) /\ Climbs(c, s, 1, mid) /\ Climbs(c, last, mid, hi)
      BY <2>4, <2>7
    <3> HIDE DEF s, mid, hi
    <3>3. /\ s \o last \in Seq(StepsOf(c)) /\ Climbs(c, s \o last, 1, hi)
          /\ Elems(s \o last) = Elems(s) \cup Elems(last)
      BY <2>3, <3>1, <3>2, ClimbsConcat
    <3> QED
      BY <2>6, <3>3 DEF s, hi
  <2>9. Elems(NebulaNetwork(c)) =
           {"find-network-once", "list-roles-once", "verify-nebula-roles"} \cup RolesOf(c)
    BY <2>1, <2>3, <2>5, <2>7, <2>8
  <2> QED
    BY <1>2, <2>8, <2>9
<1>3. CASE ~OnNetwork(c)
  <2>1. NebulaNetwork(c) = <<>>
    BY <1>3 DEF NebulaNetwork
  <2> QED
    BY <1>1, <1>3, <2>1, ClimbsNothing
<1> QED
  BY <1>2, <1>3

(* The gateway's addresses, which are part of a node's addition.           *)
LEMMA AddressesClimb ==
    ASSUME NEW c \in Configs
    PROVE  /\ GatewayAddresses \in Seq(StepsOf(c))
           /\ Climbs(c, GatewayAddresses, 35 + Len(c.roles), 42 + Len(c.roles))
           /\ Elems(GatewayAddresses) =
                 {"check-gateway-support", "apply-lb-ip-pool", "apply-l2-announcement",
                  "verify-gateway", "apply-cluster-gateway", "verify-cluster-gateway"}
<1>1. /\ GatewayAddresses \in Seq(Prompt \cup Applied)
      /\ DOMAIN GatewayAddresses = 1..6
      /\ Len(GatewayAddresses) = 6
  BY DEF GatewayAddresses, Prompt, Applied
<1>2. /\ GatewayAddresses[1] = "check-gateway-support"
      /\ GatewayAddresses[2] = "apply-lb-ip-pool"
      /\ GatewayAddresses[3] = "apply-l2-announcement"
      /\ GatewayAddresses[4] = "verify-gateway"
      /\ GatewayAddresses[5] = "apply-cluster-gateway"
      /\ GatewayAddresses[6] = "verify-cluster-gateway"
  BY DEF GatewayAddresses
<1>3. GatewayAddresses \in Seq(StepsOf(c))
  BY <1>1, SeqMonotonic DEF StepsOf
<1>4. Len(c.roles) \in Nat
  BY ConfigsAssumption, LenProperties
<1>5. /\ Rank(c, GatewayAddresses[1]) = 35 + Len(c.roles)
      /\ Rank(c, GatewayAddresses[2]) = 37 + Len(c.roles)
      /\ Rank(c, GatewayAddresses[3]) = 38 + Len(c.roles)
      /\ Rank(c, GatewayAddresses[4]) = 39 + Len(c.roles)
      /\ Rank(c, GatewayAddresses[5]) = 40 + Len(c.roles)
      /\ Rank(c, GatewayAddresses[6]) = 41 + Len(c.roles)
  <2>1. \A i \in 1..6 : GatewayAddresses[i] \in Prompt \cup Applied
    BY <1>1, ElementOfSeq
  <2>2. /\ Base(GatewayAddresses[1]) = 35 /\ Base(GatewayAddresses[2]) = 37
        /\ Base(GatewayAddresses[3]) = 38 /\ Base(GatewayAddresses[4]) = 39
        /\ Base(GatewayAddresses[5]) = 40 /\ Base(GatewayAddresses[6]) = 41
    BY <1>2, Bases
  <2> QED
    <3>1. \A i \in 1..6 : Base(GatewayAddresses[i]) >= 3
      BY <2>2
    <3>2. \A i \in 1..6 : Rank(c, GatewayAddresses[i]) = Base(GatewayAddresses[i]) + Len(c.roles)
      BY <2>1, <3>1, RankIsBase
    <3> QED
      BY <2>2, <3>2
<1>6. Climbs(c, GatewayAddresses, 35 + Len(c.roles), 42 + Len(c.roles))
  <2> DEFINE m == Len(c.roles)
             r(i) == Rank(c, GatewayAddresses[i])
  <2>1. m \in Nat /\ \A i \in 1..6 : r(i) = IF i = 1 THEN 35 + m ELSE 35 + i + m
    BY <1>4, <1>5
  <2> HIDE DEF m, r
  <2>2. \A i \in 1..6 : 35 + m <= r(i) /\ r(i) < 42 + m
    BY <2>1
  <2>3. \A i, j \in 1..6 : i < j => r(i) < r(j)
    BY <2>1
  <2> QED
    BY <1>1, <2>2, <2>3 DEF Climbs, m, r
<1>7. Elems(GatewayAddresses) =
         {GatewayAddresses[1], GatewayAddresses[2], GatewayAddresses[3], GatewayAddresses[4],
          GatewayAddresses[5], GatewayAddresses[6]}
  BY <1>1 DEF Elems
<1> QED
  BY <1>2, <1>3, <1>6, <1>7

(* An installation takes its steps in their order: but for the check of    *)
(* the gateway's interfaces, none is asked for twice.                      *)
LEMMA InstallClimbs ==
    ASSUME NEW c \in Configs
    PROVE  /\ InstallPipeline(c) \in Seq(StepsOf(c))
           /\ Climbs(c, InstallPipeline(c), 0, 50 + Len(c.roles))
           /\ Elems(InstallPipeline(c)) =
                 {Repeated} \cup Elems(NebulaNetwork(c)) \cup Elems(Nebula(c)) \cup Elems(Registries)
                    \cup Elems(K3s) \cup Elems(NodeLabels) \cup Elems(Cilium) \cup Elems(Gateway)
                    \cup Elems(Nvidia) \cup Elems(Cluster)
<1> DEFINE m == Len(c.roles)
           s1 == <<Repeated>>
           s2 == s1 \o NebulaNetwork(c)
           s3 == s2 \o Nebula(c)
           s4 == s3 \o Registries
           s5 == s4 \o K3s
           s6 == s5 \o NodeLabels
           s7 == s6 \o Cilium
           s8 == s7 \o Gateway
           s9 == s8 \o Nvidia
           s10 == s9 \o Cluster
<1>1. InstallPipeline(c) = s10
  BY DEF InstallPipeline, Repeated
<1>2. m \in Nat
  BY ConfigsAssumption, LenProperties
<1>3. s1 \in Seq(StepsOf(c)) /\ Climbs(c, s1, 0, 1) /\ Elems(s1) = {Repeated}
  BY DEF StepsOf, Prompt, Repeated, Climbs, Elems
<1> HIDE DEF s1
<1>4. /\ s2 \in Seq(StepsOf(c)) /\ Climbs(c, s2, 0, 4 + m)
      /\ Elems(s2) = Elems(s1) \cup Elems(NebulaNetwork(c))
  BY <1>2, <1>3, NetworkClimbs, ClimbsConcat
<1> HIDE DEF s2
<1>5. /\ s3 \in Seq(StepsOf(c)) /\ Climbs(c, s3, 0, 15 + m)
      /\ Elems(s3) = Elems(s2) \cup Elems(Nebula(c))
  <2>1. 4 + m \in Nat /\ 4 + m \in Nat /\ 15 + m \in Nat
    BY <1>2
  <2>2. 0 <= 4 + m /\ 4 + m <= 4 + m /\ 4 + m <= 15 + m
    BY <1>2
  <2>3. Nebula(c) \in Seq(StepsOf(c)) /\ Climbs(c, Nebula(c), 4 + m, 15 + m)
    BY NebulaClimbs
  <2> HIDE DEF m
  <2> QED
    BY <1>4, <2>1, <2>2, <2>3, ClimbsConcat
<1> HIDE DEF s3
<1>6. /\ s4 \in Seq(StepsOf(c)) /\ Climbs(c, s4, 0, 19 + m)
      /\ Elems(s4) = Elems(s3) \cup Elems(Registries)
  <2>1. 15 + m \in Nat /\ 15 + m \in Nat /\ 19 + m \in Nat
    BY <1>2
  <2>2. 0 <= 15 + m /\ 15 + m <= 15 + m /\ 15 + m <= 19 + m
    BY <1>2
  <2>3. Registries \in Seq(StepsOf(c)) /\ Climbs(c, Registries, 15 + m, 19 + m)
    BY RegistriesClimbs
  <2> HIDE DEF m
  <2> QED
    BY <1>5, <2>1, <2>2, <2>3, ClimbsConcat
<1> HIDE DEF s4
<1>7. /\ s5 \in Seq(StepsOf(c)) /\ Climbs(c, s5, 0, 27 + m)
      /\ Elems(s5) = Elems(s4) \cup Elems(K3s)
  <2>1. 19 + m \in Nat /\ 19 + m \in Nat /\ 27 + m \in Nat
    BY <1>2
  <2>2. 0 <= 19 + m /\ 19 + m <= 19 + m /\ 19 + m <= 27 + m
    BY <1>2
  <2>3. K3s \in Seq(StepsOf(c)) /\ Climbs(c, K3s, 19 + m, 27 + m)
    BY K3sClimbs
  <2> HIDE DEF m
  <2> QED
    BY <1>6, <2>1, <2>2, <2>3, ClimbsConcat
<1> HIDE DEF s5
<1>8. /\ s6 \in Seq(StepsOf(c)) /\ Climbs(c, s6, 0, 30 + m)
      /\ Elems(s6) = Elems(s5) \cup Elems(NodeLabels)
  <2>1. 27 + m \in Nat /\ 27 + m \in Nat /\ 30 + m \in Nat
    BY <1>2
  <2>2. 0 <= 27 + m /\ 27 + m <= 27 + m /\ 27 + m <= 30 + m
    BY <1>2
  <2>3. NodeLabels \in Seq(StepsOf(c)) /\ Climbs(c, NodeLabels, 27 + m, 30 + m)
    BY NodeLabelsClimbs
  <2> HIDE DEF m
  <2> QED
    BY <1>7, <2>1, <2>2, <2>3, ClimbsConcat
<1> HIDE DEF s6
<1>9. /\ s7 \in Seq(StepsOf(c)) /\ Climbs(c, s7, 0, 34 + m)
      /\ Elems(s7) = Elems(s6) \cup Elems(Cilium)
  <2>1. 30 + m \in Nat /\ 30 + m \in Nat /\ 34 + m \in Nat
    BY <1>2
  <2>2. 0 <= 30 + m /\ 30 + m <= 30 + m /\ 30 + m <= 34 + m
    BY <1>2
  <2>3. Cilium \in Seq(StepsOf(c)) /\ Climbs(c, Cilium, 30 + m, 34 + m)
    BY CiliumClimbs
  <2> HIDE DEF m
  <2> QED
    BY <1>8, <2>1, <2>2, <2>3, ClimbsConcat
<1> HIDE DEF s7
<1>10. /\ s8 \in Seq(StepsOf(c)) /\ Climbs(c, s8, 0, 42 + m)
      /\ Elems(s8) = Elems(s7) \cup Elems(Gateway)
  <2>1. 34 + m \in Nat /\ 34 + m \in Nat /\ 42 + m \in Nat
    BY <1>2
  <2>2. 0 <= 34 + m /\ 34 + m <= 34 + m /\ 34 + m <= 42 + m
    BY <1>2
  <2>3. Gateway \in Seq(StepsOf(c)) /\ Climbs(c, Gateway, 34 + m, 42 + m)
    BY GatewayClimbs
  <2> HIDE DEF m
  <2> QED
    BY <1>9, <2>1, <2>2, <2>3, ClimbsConcat
<1> HIDE DEF s8
<1>11. /\ s9 \in Seq(StepsOf(c)) /\ Climbs(c, s9, 0, 48 + m)
      /\ Elems(s9) = Elems(s8) \cup Elems(Nvidia)
  <2>1. 42 + m \in Nat /\ 42 + m \in Nat /\ 48 + m \in Nat
    BY <1>2
  <2>2. 0 <= 42 + m /\ 42 + m <= 42 + m /\ 42 + m <= 48 + m
    BY <1>2
  <2>3. Nvidia \in Seq(StepsOf(c)) /\ Climbs(c, Nvidia, 42 + m, 48 + m)
    BY NvidiaClimbs
  <2> HIDE DEF m
  <2> QED
    BY <1>10, <2>1, <2>2, <2>3, ClimbsConcat
<1> HIDE DEF s9
<1>12. /\ s10 \in Seq(StepsOf(c)) /\ Climbs(c, s10, 0, 50 + m)
      /\ Elems(s10) = Elems(s9) \cup Elems(Cluster)
  <2>1. 48 + m \in Nat /\ 48 + m \in Nat /\ 50 + m \in Nat
    BY <1>2
  <2>2. 0 <= 48 + m /\ 48 + m <= 48 + m /\ 48 + m <= 50 + m
    BY <1>2
  <2>3. Cluster \in Seq(StepsOf(c)) /\ Climbs(c, Cluster, 48 + m, 50 + m)
    BY ClusterClimbs
  <2> HIDE DEF m
  <2> QED
    BY <1>11, <2>1, <2>2, <2>3, ClimbsConcat
<1> HIDE DEF s10
<1> QED
  BY <1>1, <1>3, <1>4, <1>5, <1>6, <1>7, <1>8, <1>9, <1>10, <1>11, <1>12 DEF m

(* And so does an addition.                                                *)
LEMMA AddNodeClimbs ==
    ASSUME NEW c \in Configs
    PROVE  /\ AddNodePipeline(c) \in Seq(StepsOf(c))
           /\ Climbs(c, AddNodePipeline(c), 0, 51 + Len(c.roles))
           /\ Elems(AddNodePipeline(c)) =
                 {"check-cluster-online", Repeated} \cup Elems(Nebula(c)) \cup Elems(Registries)
                    \cup Elems(K3s) \cup Elems(NodeLabels) \cup Elems(GatewayAddresses)
                    \cup Elems(Nvidia) \cup {"verify-node-ready"}
<1> DEFINE m == Len(c.roles)
           s1 == <<"check-cluster-online", Repeated>>
           s2 == s1 \o Nebula(c)
           s3 == s2 \o Registries
           s4 == s3 \o K3s
           s5 == s4 \o NodeLabels
           s6 == s5 \o GatewayAddresses
           s7 == s6 \o Nvidia
           s8 == s7 \o <<"verify-node-ready">>
<1>1. AddNodePipeline(c) = s8
  BY DEF AddNodePipeline, Repeated
<1>2. m \in Nat
  BY ConfigsAssumption, LenProperties
<1>3. s1 \in Seq(StepsOf(c)) /\ Climbs(c, s1, 0, 1) /\ Elems(s1) = {"check-cluster-online",
                                                                    Repeated}
  <2>1. s1 \in Seq(StepsOf(c))
    BY DEF StepsOf, Prompt, Repeated
  <2>2. DOMAIN s1 = 1..2 /\ s1[1] = "check-cluster-online" /\ s1[2] = Repeated
    OBVIOUS
  <2>3. Rank(c, "check-cluster-online") = 0
    <3>1. "check-cluster-online" \in Prompt \cup Applied
      BY DEF Prompt
    <3>2. Base("check-cluster-online") = 0
      BY Bases
    <3> QED
      BY <3>1, <3>2, RankIsBase
  <2>4. Elems(s1) = {s1[1], s1[2]}
    BY <2>2 DEF Elems
  <2> HIDE DEF s1
  <2>5. Climbs(c, s1, 0, 1)
    BY <2>2, <2>3 DEF Climbs
  <2> QED
    BY <2>1, <2>2, <2>4, <2>5
<1> HIDE DEF s1
<1>4. /\ s2 \in Seq(StepsOf(c)) /\ Climbs(c, s2, 0, 15 + m)
      /\ Elems(s2) = Elems(s1) \cup Elems(Nebula(c))
  <2>1. 4 + m \in Nat /\ 15 + m \in Nat /\ 0 <= 4 + m /\ 1 <= 4 + m /\ 1 <= 15 + m
    BY <1>2
  <2>2. Nebula(c) \in Seq(StepsOf(c)) /\ Climbs(c, Nebula(c), 4 + m, 15 + m)
    BY NebulaClimbs
  <2> HIDE DEF m
  <2> QED
    BY <1>3, <2>1, <2>2, ClimbsConcat
<1> HIDE DEF s2
<1>5. /\ s3 \in Seq(StepsOf(c)) /\ Climbs(c, s3, 0, 19 + m)
      /\ Elems(s3) = Elems(s2) \cup Elems(Registries)
  <2>1. 15 + m \in Nat /\ 15 + m \in Nat /\ 19 + m \in Nat
    BY <1>2
  <2>2. 0 <= 15 + m /\ 15 + m <= 15 + m /\ 15 + m <= 19 + m
    BY <1>2
  <2>3. Registries \in Seq(StepsOf(c)) /\ Climbs(c, Registries, 15 + m, 19 + m)
    BY RegistriesClimbs
  <2> HIDE DEF m
  <2> QED
    BY <1>4, <2>1, <2>2, <2>3, ClimbsConcat
<1> HIDE DEF s3
<1>6. /\ s4 \in Seq(StepsOf(c)) /\ Climbs(c, s4, 0, 27 + m)
      /\ Elems(s4) = Elems(s3) \cup Elems(K3s)
  <2>1. 19 + m \in Nat /\ 19 + m \in Nat /\ 27 + m \in Nat
    BY <1>2
  <2>2. 0 <= 19 + m /\ 19 + m <= 19 + m /\ 19 + m <= 27 + m
    BY <1>2
  <2>3. K3s \in Seq(StepsOf(c)) /\ Climbs(c, K3s, 19 + m, 27 + m)
    BY K3sClimbs
  <2> HIDE DEF m
  <2> QED
    BY <1>5, <2>1, <2>2, <2>3, ClimbsConcat
<1> HIDE DEF s4
<1>7. /\ s5 \in Seq(StepsOf(c)) /\ Climbs(c, s5, 0, 30 + m)
      /\ Elems(s5) = Elems(s4) \cup Elems(NodeLabels)
  <2>1. 27 + m \in Nat /\ 27 + m \in Nat /\ 30 + m \in Nat
    BY <1>2
  <2>2. 0 <= 27 + m /\ 27 + m <= 27 + m /\ 27 + m <= 30 + m
    BY <1>2
  <2>3. NodeLabels \in Seq(StepsOf(c)) /\ Climbs(c, NodeLabels, 27 + m, 30 + m)
    BY NodeLabelsClimbs
  <2> HIDE DEF m
  <2> QED
    BY <1>6, <2>1, <2>2, <2>3, ClimbsConcat
<1> HIDE DEF s5
<1>8. /\ s6 \in Seq(StepsOf(c)) /\ Climbs(c, s6, 0, 42 + m)
      /\ Elems(s6) = Elems(s5) \cup Elems(GatewayAddresses)
  <2>1. 30 + m \in Nat /\ 35 + m \in Nat /\ 42 + m \in Nat
    BY <1>2
  <2>2. 0 <= 35 + m /\ 30 + m <= 35 + m /\ 30 + m <= 42 + m
    BY <1>2
  <2>3. GatewayAddresses \in Seq(StepsOf(c)) /\ Climbs(c, GatewayAddresses, 35 + m, 42 + m)
    BY AddressesClimb
  <2> HIDE DEF m
  <2> QED
    BY <1>7, <2>1, <2>2, <2>3, ClimbsConcat
<1> HIDE DEF s6
<1>9. /\ s7 \in Seq(StepsOf(c)) /\ Climbs(c, s7, 0, 48 + m)
      /\ Elems(s7) = Elems(s6) \cup Elems(Nvidia)
  <2>1. 42 + m \in Nat /\ 42 + m \in Nat /\ 48 + m \in Nat
    BY <1>2
  <2>2. 0 <= 42 + m /\ 42 + m <= 42 + m /\ 42 + m <= 48 + m
    BY <1>2
  <2>3. Nvidia \in Seq(StepsOf(c)) /\ Climbs(c, Nvidia, 42 + m, 48 + m)
    BY NvidiaClimbs
  <2>4. PICK i \in Nat : i = 42 + m
    BY <2>1
  <2>5. PICK j \in Nat : j = 48 + m
    BY <2>1
  <2> HIDE DEF m
  <2>6. Climbs(c, s6, 0, i) /\ Climbs(c, Nvidia, i, j) /\ 0 <= i /\ i <= i /\ i <= j
    BY <1>8, <2>2, <2>3, <2>4, <2>5
  <2>7. /\ s7 \in Seq(StepsOf(c)) /\ Climbs(c, s7, 0, j)
        /\ Elems(s7) = Elems(s6) \cup Elems(Nvidia)
    BY <1>8, <2>3, <2>6, ClimbsConcat
  <2> QED
    BY <2>5, <2>7
<1> HIDE DEF s7
<1>10. /\ s8 \in Seq(StepsOf(c)) /\ Climbs(c, s8, 0, 51 + m)
      /\ Elems(s8) = Elems(s7) \cup Elems(<<"verify-node-ready">>)
  <2>1. 48 + m \in Nat /\ 50 + m \in Nat /\ 51 + m \in Nat
    BY <1>2
  <2>2. 0 <= 50 + m /\ 48 + m <= 50 + m /\ 48 + m <= 51 + m
    BY <1>2
  <2>3. <<"verify-node-ready">> \in Seq(StepsOf(c)) /\ Climbs(c, <<"verify-node-ready">>, 50 + m, 51 + m)
    BY LastStepClimbs
  <2>4. PICK i \in Nat : i = 48 + m
    BY <2>1
  <2>5. PICK j \in Nat : j = 50 + m
    BY <2>1
  <2>6. PICK k \in Nat : k = 51 + m
    BY <2>1
  <2> HIDE DEF m
  <2> DEFINE last == <<"verify-node-ready">>
  <2>7. /\ last \in Seq(StepsOf(c)) /\ Climbs(c, s7, 0, i) /\ Climbs(c, last, j, k)
        /\ 0 <= j /\ i <= j /\ i <= k
    BY <1>9, <2>2, <2>3, <2>4, <2>5, <2>6
  <2> HIDE DEF last
  <2>8. /\ s7 \o last \in Seq(StepsOf(c)) /\ Climbs(c, s7 \o last, 0, k)
        /\ Elems(s7 \o last) = Elems(s7) \cup Elems(last)
    BY <1>9, <2>7, ClimbsConcat
  <2> QED
    BY <2>6, <2>8 DEF last
<1> HIDE DEF s8
<1> QED
  BY <1>1, LastStepClimbs, <1>3, <1>4, <1>5, <1>6, <1>7, <1>8, <1>9, <1>10 DEF m

-----------------------------------------------------------------------------
(* Which nodes a step is for                                               *)

\* Taken once for the cluster, whatever the configuration.
Once == {"find-network-once", "list-roles-once", "verify-nebula-roles",
         "install-gateway-api", "install-cilium", "wait-for-cilium", "verify-cilium",
         "check-gateway-support", "label-gateway-nodes", "apply-lb-ip-pool",
         "apply-l2-announcement", "verify-gateway", "apply-cluster-gateway",
         "verify-cluster-gateway", "write-cluster-config", "verify-cluster-config",
         "check-cluster-online"}

(* Whom each step is for, of the nodes of a run.                           *)
LEMMA Scopes ==
    ASSUME NEW c \in Configs, NEW ns
    PROVE  /\ \A s \in Once \cup RolesOf(c) : ScopeOf(c, ns, s) = {Server}
           /\ \A s \in OnServers : ScopeOf(c, ns, s) = ns \cap {Server}
           /\ \A s \in OnAgents : ScopeOf(c, ns, s) = ns \ {Server}
           /\ \A s \in (Prompt \cup Applied) \ (Once \cup OnServers \cup OnAgents) :
                 ScopeOf(c, ns, s) = ns
<1>1. OnceFor(c) = Once \cup RolesOf(c)
  BY DEF OnceFor, Once
<1>2. OnServers \cap Once = {} /\ OnAgents \cap Once = {} /\ OnAgents \cap OnServers = {}
  BY DEF OnServers, Once, OnAgents
<1>3. OnServers \subseteq Prompt \cup Applied /\ OnAgents \subseteq Prompt \cup Applied
  BY DEF OnServers, OnAgents, Prompt, Applied
<1>4. RolesOf(c) \cap (Prompt \cup Applied) = {}
  BY NamesAssumption
<1>5. \A s : s \in Once \cup RolesOf(c) => ScopeOf(c, ns, s) = {Server}
  <2>1. \A s : s \in Once \cup RolesOf(c) => s \in OnceFor(c) /\ s \notin OnServers /\ s \notin OnAgents
    BY <1>1, <1>2, <1>3, <1>4
  <2> QED
    BY <2>1, Zenon DEF ScopeOf
<1>6. \A s : s \in OnServers => s \notin OnceFor(c) /\ s \notin OnAgents
  BY <1>1, <1>2, <1>3, <1>4
<1>7. \A s : s \in OnServers => ScopeOf(c, ns, s) = ns \cap {Server}
  BY <1>6, Zenon DEF ScopeOf
<1>8. \A s : s \in OnAgents => s \notin OnceFor(c) /\ s \notin OnServers
  BY <1>1, <1>2, <1>3, <1>4
<1>9. \A s : s \in OnAgents => ScopeOf(c, ns, s) = ns \ {Server}
  BY <1>8, Zenon DEF ScopeOf
<1>10. \A s : s \in (Prompt \cup Applied) \ (Once \cup OnServers \cup OnAgents) =>
          s \notin OnceFor(c) /\ s \notin OnServers /\ s \notin OnAgents
  BY <1>1, <1>4
<1>11. \A s : s \in (Prompt \cup Applied) \ (Once \cup OnServers \cup OnAgents) =>
          ScopeOf(c, ns, s) = ns
  BY <1>10, Zenon DEF ScopeOf
<1> QED
  BY <1>5, <1>7, <1>9, <1>11

-----------------------------------------------------------------------------
(* What is asked of a run                                                  *)

Pipe == PipelineOf(run.what, run.conf)

Left == Elems(run.steps)

Asked == Elems(Pipe)

For(step) == ScopeOf(run.conf, run.nodes, step)

Commands == {"nothing", "install", "add-node"} \cup Unverified

(* What each command asks for.                                             *)
LEMMA PipelineIs ==
    ASSUME NEW c
    PROVE  /\ PipelineOf("install", c) = InstallPipeline(c)
           /\ PipelineOf("add-node", c) = AddNodePipeline(c)
           /\ PipelineOf("k3s", c) = K3s
           /\ PipelineOf("cluster-sign-in", c) = SignIn
           /\ PipelineOf("nothing", c) = <<>>
<1>1. PipelineOf("install", c) = InstallPipeline(c)
  BY Zenon DEF PipelineOf
<1>2. PipelineOf("add-node", c) = AddNodePipeline(c)
  BY Zenon DEF PipelineOf
<1>3. PipelineOf("k3s", c) = K3s
  BY Zenon DEF PipelineOf
<1>4. PipelineOf("cluster-sign-in", c) = SignIn
  BY Zenon DEF PipelineOf
<1>5. PipelineOf("nothing", c) = <<>>
  BY Zenon DEF PipelineOf
<1> QED
  BY <1>1, <1>2, <1>3, <1>4, <1>5

(* Whatever the command, its steps are taken in their order.               *)
LEMMA PipelineFacts ==
    ASSUME NEW c \in Configs, NEW what \in Commands
    PROVE  /\ PipelineOf(what, c) \in Seq(StepsOf(c))
           /\ \E lo, hi \in Nat : Climbs(c, PipelineOf(what, c), lo, hi)
<1>1. Len(c.roles) \in Nat
  BY ConfigsAssumption, LenProperties
<1>2. \A k \in Nat : k + Len(c.roles) \in Nat
  BY <1>1
<1>3. CASE what = "nothing"
  BY <1>3, PipelineIs, ClimbsNothing
<1>4. CASE what = "install"
  <2>1. 50 + Len(c.roles) \in Nat
    BY <1>1
  <2> QED
    BY <1>4, <2>1, PipelineIs, InstallClimbs
<1>5. CASE what = "add-node"
  <2>1. 51 + Len(c.roles) \in Nat
    BY <1>1
  <2> QED
    BY <1>5, <2>1, PipelineIs, AddNodeClimbs
<1>6. CASE what = "k3s"
  <2>1. 19 + Len(c.roles) \in Nat /\ 27 + Len(c.roles) \in Nat
    BY <1>1
  <2> QED
    BY <1>6, <2>1, PipelineIs, K3sClimbs
<1>7. CASE what = "cluster-sign-in"
  <2>1. 20 + Len(c.roles) \in Nat /\ 22 + Len(c.roles) \in Nat
    BY <1>1
  <2> QED
    BY <1>7, <2>1, PipelineIs, SignInClimbs
<1> QED
  BY <1>3, <1>4, <1>5, <1>6, <1>7 DEF Commands, Unverified

\* The bundles an installation and an add-node both have.
Shared == Elems(Registries) \cup Elems(K3s) \cup Elems(NodeLabels) \cup Elems(GatewayAddresses)
             \cup Elems(Nvidia)

OnlyInstalled == Elems(Cilium) \cup {"label-gateway-nodes"} \cup Elems(Cluster)

(* Which commands ask for which steps.                                     *)
LEMMA AskedFor ==
    ASSUME NEW c \in Configs, NEW what \in Commands
    PROVE  LET asked == Elems(PipelineOf(what, c))
           IN  /\ what = "nothing" => asked = {}
               /\ what = "install" =>
                     asked = Elems(NebulaNetwork(c)) \cup Elems(Nebula(c)) \cup Shared
                                \cup OnlyInstalled \cup {Repeated}
               /\ what = "add-node" =>
                     asked = Elems(Nebula(c)) \cup Shared
                                \cup {"check-cluster-online", "verify-node-ready", Repeated}
               /\ what = "k3s" => asked = Elems(K3s)
               /\ what = "cluster-sign-in" => asked = Elems(SignIn)
<1>1. Elems(<<>>) = {}
  BY DEF Elems
<1>2. Elems(Gateway) = Elems(GatewayAddresses) \cup {"label-gateway-nodes", Repeated}
  BY GatewayClimbs, AddressesClimb DEF Repeated
<1>3. CASE what = "nothing"
  BY <1>1, <1>3, PipelineIs
<1>4. CASE what = "install"
  <2>1. Elems(InstallPipeline(c)) = Elems(NebulaNetwork(c)) \cup Elems(Nebula(c)) \cup Shared
                                \cup OnlyInstalled \cup {Repeated}
    BY <1>2, InstallClimbs DEF Shared, OnlyInstalled
  <2> QED
    BY <1>4, <2>1, PipelineIs
<1>5. CASE what = "add-node"
  <2>1. Elems(AddNodePipeline(c)) = Elems(Nebula(c)) \cup Shared
                                \cup {"check-cluster-online", "verify-node-ready", Repeated}
    BY AddNodeClimbs DEF Shared
  <2> QED
    BY <1>5, <2>1, PipelineIs
<1>6. CASE what = "k3s"
  BY <1>6, PipelineIs
<1>7. CASE what = "cluster-sign-in"
  BY <1>7, PipelineIs
<1> QED
  BY <1>3, <1>4, <1>5, <1>6, <1>7 DEF Commands, Unverified

-----------------------------------------------------------------------------
(* How far a run has got                                                   *)

RunType ==
    [what : Commands, conf : Configs, nodes : SUBSET Node, steps : Seq(Steps),
     todo : SUBSET Node, failed : BOOLEAN, verifying : BOOLEAN, able : BOOLEAN,
     faulted : BOOLEAN]

\* Run q is asked for what run r is.
SameRun(q, r) ==
    /\ q.what = r.what /\ q.conf = r.conf /\ q.nodes = r.nodes
    /\ q.verifying = r.verifying /\ q.able = r.able

(* A run is at some step of its pipeline that there is somebody for, and   *)
(* has not got beyond one that failed on any node; between runs nothing    *)
(* is asked or known.                                                      *)
RunInv ==
    /\ run \in RunType
    /\ run.conf = config
    /\ Resting => run = Idle(config) /\ know = NothingKnown
    /\ \E i \in 1..Len(Pipe) + 1 : run.steps = SubSeq(Pipe, i, Len(Pipe))
    /\ run.steps # <<>> => /\ Due(run, Head(run.steps))
                           /\ run.todo # {} /\ run.todo \subseteq For(Head(run.steps))
    /\ run.steps = <<>> => run.todo = {}
    /\ run.failed /\ ~run.verifying /\ run.steps # <<>> => run.todo # For(Head(run.steps))
    /\ run.what \in {"install"} \cup Unverified => run.nodes = run.conf.nodes
    /\ run.what = "add-node" => \E n \in run.conf.nodes \ {Server} : run.nodes = {n}
    /\ run.what \in Unverified => ~run.verifying /\ ~run.able

(* The steps of one configuration are among all there are.                 *)
LEMMA StepsOfSteps ==
    ASSUME NEW c \in Configs
    PROVE  StepsOf(c) \subseteq Steps
<1> QED
  BY DEF StepsOf, Steps

(* Whatever the command, it asks for steps there are.                      *)
LEMMA PipeType ==
    ASSUME NEW c \in Configs, NEW what \in Commands
    PROVE  PipelineOf(what, c) \in Seq(Steps)
<1> QED
  BY PipelineFacts, StepsOfSteps, SeqMonotonic

(* Every set of positions has a first one.                                 *)
LEMMA LeastNatural ==
    ASSUME NEW S, S \subseteq Nat, S # {}
    PROVE  \E i \in S : \A j \in S : i <= j
<1> DEFINE R == OpToRel(<, Nat)
<1>1. IsWellFoundedOn(R, Nat)
  BY NatLessThanWellFounded
<1>2. \A x, y \in Nat : <<y, x>> \in R <=> y < x
  BY DEF OpToRel
<1> HIDE DEF R
<1>3. PICK x \in S : \A y \in S : ~(<<y, x>> \in R)
  BY <1>1, WFMin
<1>4. \A j \in S : ~(j < x)
  BY <1>2, <1>3
<1> QED
  BY <1>4

(* A step is for nodes there are.                                          *)
LEMMA ScopeType ==
    ASSUME NEW c \in Configs, NEW ns \in SUBSET Node, NEW s
    PROVE  ScopeOf(c, ns, s) \in SUBSET Node
<1>1. Server \in Node
  BY ConstantsAssumption
<1> QED
  BY <1>1, Zenon DEF ScopeOf

(* What is left of some steps starts at the first that is due, and no      *)
(* other that is due is left out.                                          *)
LEMMA Starting ==
    ASSUME NEW r \in RunType, NEW s \in Seq(Steps)
    PROVE  LET q == StartingOn(r, s)
           IN  /\ q \in RunType
               /\ SameRun(q, r) /\ q.failed = r.failed /\ q.faulted = r.faulted
               /\ \E i \in 1..Len(s) + 1 : q.steps = SubSeq(s, i, Len(s))
               /\ q.steps = <<>> => q.todo = {}
               /\ q.steps # <<>> => /\ Due(r, Head(q.steps))
                                    /\ q.todo = ScopeOf(r.conf, r.nodes, Head(q.steps))
               /\ Elems(q.steps) \subseteq Elems(s)
               /\ \A x \in Elems(s) : Due(r, x) => x \in Elems(q.steps)
<1> DEFINE q == StartingOn(r, s)
           due == {i \in DOMAIN s : Due(r, s[i])}
<1>1. DOMAIN s = 1..Len(s) /\ Len(s) \in Nat /\ \A i \in DOMAIN s : s[i] \in Steps
  BY LenProperties, ElementOfSeq
<1>2. CASE due = {}
  <2>1. q = [r EXCEPT !.steps = <<>>, !.todo = {}]
    BY <1>2 DEF StartingOn
  <2>2. q.steps = <<>> /\ q.todo = {} /\ q \in RunType
    BY <2>1, EmptySeq DEF RunType
  <2>3. SameRun(q, r) /\ q.failed = r.failed /\ q.faulted = r.faulted
    BY <2>1 DEF SameRun, RunType
  <2>4. SubSeq(s, Len(s) + 1, Len(s)) = <<>> /\ Len(s) + 1 \in 1..Len(s) + 1
    BY <1>1, SubSeqEmpty
  <2>5. Elems(q.steps) = {}
    BY <2>2 DEF Elems
  <2>6. \A x \in Elems(s) : ~Due(r, x)
    BY <1>2 DEF Elems
  <2> HIDE DEF q, due
  <2> QED
    BY <2>2, <2>3, <2>4, <2>5, <2>6 DEF q
<1>3. CASE due # {}
  <2>1. \E i \in due : \A j \in due : i <= j
    <3>1. due \subseteq Nat
      BY <1>1
    <3> HIDE DEF due
    <3> QED
      BY <1>3, <3>1, LeastNatural
  <2> DEFINE first == CHOOSE i \in due : \A j \in due : i <= j
  <2>2. first \in due /\ \A j \in due : first <= j
    BY <2>1
  <2>3. q = [r EXCEPT !.steps = SubSeq(s, first, Len(s)),
                      !.todo = ScopeOf(r.conf, r.nodes, s[first])]
    BY <1>3 DEF StartingOn
  <2>4. first \in 1..Len(s) /\ Due(r, s[first])
    BY <1>1, <2>2
  <2> HIDE DEF first, due
  <2>5. SubSeq(s, first, Len(s)) \in Seq(Steps)
    BY <1>1, <2>4, SubSeqProperties
  <2>6. ScopeOf(r.conf, r.nodes, s[first]) \in SUBSET Node
    BY ScopeType DEF RunType
  <2>7. q \in RunType /\ q.steps = SubSeq(s, first, Len(s))
        /\ q.todo = ScopeOf(r.conf, r.nodes, s[first])
    BY <2>3, <2>5, <2>6 DEF RunType
  <2>8. SameRun(q, r) /\ q.failed = r.failed /\ q.faulted = r.faulted
    BY <2>3 DEF SameRun, RunType
  <2>9. Head(q.steps) = s[first] /\ q.steps # <<>>
    <3>1. Head(SubSeq(s, first, Len(s))) = s[first]
      BY <1>1, <2>4, HeadTailOfSubSeq
    <3>2. Len(SubSeq(s, first, Len(s))) = Len(s) - first + 1
      BY <1>1, <2>4, SubSeqProperties
    <3>3. Len(SubSeq(s, first, Len(s))) # 0
      BY <1>1, <2>4, <3>2
    <3> QED
      BY <2>7, <3>1, <3>3, EmptySeq
  <2>10. /\ Elems(q.steps) \subseteq Elems(s)
         /\ \A j \in first..Len(s) : s[j] \in Elems(q.steps)
    <3>1. /\ Len(q.steps) = Len(s) - first + 1
          /\ \A i \in 1..Len(s) - first + 1 : q.steps[i] = s[first + i - 1]
      BY <1>1, <2>4, <2>7, SubSeqProperties
    <3>2. DOMAIN q.steps = 1..Len(s) - first + 1
      BY <2>5, <2>7, <3>1, LenProperties
    <3> HIDE DEF q
    <3>3. \A i \in DOMAIN q.steps : first + i - 1 \in DOMAIN s /\ q.steps[i] = s[first + i - 1]
      BY <1>1, <2>4, <3>1, <3>2
    <3>4. ASSUME NEW j \in first..Len(s)
          PROVE  s[j] \in Elems(q.steps)
      <4>1. j - first + 1 \in 1..Len(s) - first + 1 /\ first + (j - first + 1) - 1 = j
        BY <1>1, <2>4
      <4>2. j - first + 1 \in DOMAIN q.steps /\ q.steps[j - first + 1] = s[j]
        BY <3>1, <3>2, <4>1
      <4> QED
        BY <4>2 DEF Elems
    <3> QED
      BY <3>3, <3>4 DEF Elems
  <2>11. \A x \in Elems(s) : Due(r, x) => x \in Elems(q.steps)
    <3>1. SUFFICES ASSUME NEW i \in DOMAIN s, Due(r, s[i])
                   PROVE  s[i] \in Elems(q.steps)
      BY DEF Elems
    <3>2. i \in due
      BY <3>1 DEF due
    <3>3. i \in first..Len(s)
      BY <1>1, <2>2, <2>4, <3>2
    <3> QED
      BY <2>10, <3>3
  <2>12. first \in 1..Len(s) + 1
    BY <1>1, <2>4
  <2> HIDE DEF q
  <2> QED
    BY <2>4, <2>7, <2>8, <2>9, <2>10, <2>11, <2>12 DEF q
<1> QED
  BY <1>2, <1>3

(* Of the step under way, and of those that are left and come after it.    *)
LEMMA HeadIs ==
    ASSUME RunInv, run.steps # <<>>
    PROVE  /\ Head(run.steps) \in Left /\ Head(run.steps) \in Asked /\ Left \subseteq Asked
           /\ Head(run.steps) \in StepsOf(run.conf)
           /\ run.conf \in Configs /\ run.what \in Commands /\ run.nodes \in SUBSET Node
           /\ \A x \in Asked :
                 /\ x # Repeated /\ Head(run.steps) # Repeated
                 /\ Rank(run.conf, x) < Rank(run.conf, Head(run.steps))
                 => x \notin Left
<1>1. run.conf \in Configs /\ run.what \in Commands /\ run.nodes \in SUBSET Node
  BY DEF RunInv, RunType
<1>2. PICK lo \in Nat, hi \in Nat : Climbs(run.conf, Pipe, lo, hi)
  BY <1>1, PipelineFacts DEF Pipe
<1>3. Pipe \in Seq(StepsOf(run.conf))
  BY <1>1, PipelineFacts DEF Pipe
<1>4. PICK i \in 1..Len(Pipe) + 1 : run.steps = SubSeq(Pipe, i, Len(Pipe))
  BY DEF RunInv
<1> DEFINE p == Pipe
           m == Len(Pipe)
<1>5. m \in Nat /\ DOMAIN p = 1..m /\ \A j \in 1..m : p[j] \in StepsOf(run.conf)
  BY <1>3, LenProperties, ElementOfSeq
<1>6. i \in 1..m
  <2>1. i # m + 1
    BY <1>4, <1>5, SubSeqEmpty
  <2> QED
    BY <1>4, <1>5, <2>1
<1>7. Head(run.steps) = p[i]
  BY <1>3, <1>4, <1>5, <1>6, HeadTailOfSubSeq
<1>8. /\ run.steps \in Seq(StepsOf(run.conf)) /\ Len(run.steps) = m - i + 1
      /\ \A k \in 1..m - i + 1 : run.steps[k] = p[i + k - 1]
  BY <1>4, <1>5, <1>6, SubSeqProperties
<1>9. DOMAIN run.steps = 1..m - i + 1
  BY <1>8, LenProperties
<1>10. Left \subseteq {p[j] : j \in i..m}
  <2> HIDE DEF p, m
  <2>1. \A k \in DOMAIN run.steps : i + k - 1 \in i..m /\ run.steps[k] = p[i + k - 1]
    BY <1>5, <1>6, <1>8, <1>9
  <2> QED
    BY <2>1 DEF Left, Elems
<1>11. Head(run.steps) \in Left
  <2>1. 1 \in DOMAIN run.steps /\ run.steps[1] = Head(run.steps)
    BY <1>5, <1>6, <1>7, <1>8, <1>9
  <2> QED
    BY <2>1 DEF Left, Elems
<1>12. Left \subseteq Asked
  <2>1. \A j \in i..m : j \in DOMAIN p
    BY <1>5, <1>6
  <2> QED
    BY <1>10, <2>1 DEF Asked, Elems
<1>13. ASSUME NEW x \in Left, x # Repeated, Head(run.steps) # Repeated,
              Rank(run.conf, x) < Rank(run.conf, Head(run.steps))
       PROVE  FALSE
  <2>1. PICK j \in i..m : x = p[j]
    BY <1>10
  <2>2. i \in DOMAIN p /\ j \in DOMAIN p /\ (i = j \/ i < j)
    BY <1>5, <1>6, <2>1
  <2>3. Rank(run.conf, x) \in Nat /\ Rank(run.conf, Head(run.steps)) \in Nat
    <3>1. x \in StepsOf(run.conf) /\ Head(run.steps) \in StepsOf(run.conf)
      BY <1>5, <1>7, <2>1, <2>2
    <3> QED
      BY <1>1, <3>1, RankType DEF StepsOf
  <2>4. i < j => Rank(run.conf, Head(run.steps)) < Rank(run.conf, x)
    BY <1>2, <1>7, <1>13, <2>1, <2>2 DEF Climbs
  <2>5. i = j => x = Head(run.steps)
    BY <1>7, <2>1
  <2> HIDE DEF p, m
  <2> QED
    BY <1>13, <2>2, <2>3, <2>4, <2>5
<1>14. Head(run.steps) \in StepsOf(run.conf)
  BY <1>5, <1>6, <1>7
<1> QED
  BY <1>1, <1>11, <1>12, <1>13, <1>14

\* It is behind a step that is under way now.
Behind(step, n) ==
    ~run.verifying /\ run.steps # <<>> /\ step \in Asked /\ n \in For(step) /\ step \notin Left

\* Node n is through it, as far as the run is that asks now.
Through(step, n) ==
    /\ step \in Asked /\ n \in For(step) /\ (run.verifying => step \in Prompt)
    /\ step \notin Left \/ (step = Head(run.steps) /\ n \notin run.todo)

\* Node n has done it.
Has(step, n) ==
    step \in Asked /\ n \in For(step) /\ (run.verifying \/ Through(step, n))

(* At a step, those before it are behind.                                  *)
LEMMA Before ==
    ASSUME RunInv, run.steps # <<>>,
           NEW x \in Prompt \cup Applied, x \in Asked, x # Repeated,
           Head(run.steps) \in Prompt \cup Applied, Head(run.steps) # Repeated,
           Base(x) < Base(Head(run.steps)), NEW n \in For(x)
    PROVE  /\ x \notin Left
           /\ Has(x, n)
           /\ (run.verifying => x \in Prompt) => Through(x, n)
           /\ ~run.verifying => Behind(x, n)
<1> DEFINE y == Head(run.steps)
           m == Len(run.conf.roles)
<1>1. run.conf \in Configs
  BY HeadIs
<1>2. /\ Base(x) < 3 => Rank(run.conf, x) = Base(x)
      /\ Base(x) >= 3 => Rank(run.conf, x) = Base(x) + m
      /\ Base(x) \in Nat /\ m \in Nat
  BY <1>1, RankIsBase
<1>3. /\ Base(y) < 3 => Rank(run.conf, y) = Base(y)
      /\ Base(y) >= 3 => Rank(run.conf, y) = Base(y) + m
      /\ Base(y) \in Nat
  BY <1>1, RankIsBase
<1> DEFINE bx == Base(x)
           by == Base(y)
           rx == Rank(run.conf, x)
           ry == Rank(run.conf, y)
<1>4. rx < ry
  <2>1. bx < by
    OBVIOUS
  <2>2. bx \in Nat /\ by \in Nat /\ m \in Nat
    BY <1>2, <1>3
  <2>3. (bx < 3 => rx = bx) /\ (bx >= 3 => rx = bx + m)
    BY <1>2
  <2>4. (by < 3 => ry = by) /\ (by >= 3 => ry = by + m)
    BY <1>3
  <2> HIDE DEF bx, by, rx, ry, m
  <2> QED
    BY <2>1, <2>2, <2>3, <2>4
<1>5. x \notin Left
  BY <1>4, HeadIs
<1> QED
  BY <1>5 DEF Has, Through, Behind

(* A sequence is its first step and the others.                            *)
LEMMA HeadTailElems ==
    ASSUME NEW S, NEW s \in Seq(S), s # <<>>
    PROVE  Elems(s) = {Head(s)} \cup Elems(Tail(s))
<1>1. /\ Tail(s) \in Seq(S) /\ Len(Tail(s)) = Len(s) - 1
      /\ \A i \in 1..Len(Tail(s)) : Tail(s)[i] = s[i + 1]
  BY HeadTailProperties
<1>2. DOMAIN s = 1..Len(s) /\ Len(s) \in Nat /\ DOMAIN Tail(s) = 1..Len(s) - 1
  BY <1>1, LenProperties
<1>3. Len(s) # 0 /\ Head(s) = s[1]
  BY EmptySeq
<1>4. \A i \in DOMAIN s : i = 1 \/ (i - 1 \in DOMAIN Tail(s) /\ s[i] = Tail(s)[i - 1])
  <2>1. \A i \in 2..Len(s) : i - 1 \in DOMAIN Tail(s) /\ Tail(s)[i - 1] = s[(i - 1) + 1] /\ (i - 1) + 1 = i
    BY <1>1, <1>2
  <2> QED
    BY <1>2, <2>1
<1>5. \A i \in DOMAIN Tail(s) : i + 1 \in DOMAIN s /\ Tail(s)[i] = s[i + 1]
  BY <1>1, <1>2
<1>6. 1 \in DOMAIN s
  BY <1>2, <1>3
<1>7. Elems(s) \subseteq {Head(s)} \cup Elems(Tail(s))
  BY <1>3, <1>4 DEF Elems
<1>8. Head(s) \in Elems(s) /\ Elems(Tail(s)) \subseteq Elems(s)
  BY <1>3, <1>5, <1>6 DEF Elems
<1> QED
  BY <1>7, <1>8

(* A node through a step: the run keeps to its pipeline, and nothing is    *)
(* taken for done but the step, on that node.                              *)
LEMMA Moved ==
    ASSUME RunInv, NEW n \in run.todo, NEW ok \in BOOLEAN, NEW wrong \in BOOLEAN,
           run' = After(n, ok, wrong), config' = config
    PROVE  /\ RunInv'
           /\ SameRun(run', run)
           /\ run'.failed <=> run.failed \/ ~ok
           /\ run'.faulted <=> run.faulted \/ wrong
           /\ run.steps # <<>> /\ n \in For(Head(run.steps)) /\ n \in Node
           /\ \A x, m : ~run'.failed /\ Through(x, m)'
                 => Through(x, m) \/ (x = Head(run.steps) /\ m = n)
           /\ \A x, m : Behind(x, m)' =>
                 /\ ~run'.failed => Through(x, m)'
                 /\ run'.failed => Behind(x, m) /\ run.todo # {n}
<1> DEFINE r == [run EXCEPT !.failed = @ \/ ~ok, !.faulted = @ \/ wrong]
           left == run.todo \ {n}
           t == IF r.failed /\ ~r.verifying THEN <<>> ELSE Tail(run.steps)
           y == Head(run.steps)
<1>1. run \in RunType /\ run.steps # <<>> /\ run.conf = config /\ ~Resting
  <2>1. run.steps # <<>>
    BY DEF RunInv
  <2>2. ~Resting
    BY <2>1 DEF RunInv, Idle
  <2> QED
    BY <2>1, <2>2 DEF RunInv
<1>2. /\ r \in RunType
      /\ r.what = run.what /\ r.conf = run.conf /\ r.nodes = run.nodes
      /\ r.verifying = run.verifying /\ r.able = run.able
      /\ r.steps = run.steps /\ r.todo = run.todo
  BY <1>1 DEF RunType
<1>3. /\ r.failed <=> run.failed \/ ~ok
      /\ r.faulted <=> run.faulted \/ wrong
  BY <1>1 DEF RunType
<1>4. run' = IF left # {} THEN [r EXCEPT !.todo = left] ELSE StartingOn(r, t)
  BY <1>2 DEF After
<1>5. /\ Due(run, y) /\ run.todo \subseteq For(y) /\ n \in For(y) /\ run.todo \subseteq Node
  BY <1>1 DEF RunInv, RunType
<1>6. PICK i \in 1..Len(Pipe) + 1 : run.steps = SubSeq(Pipe, i, Len(Pipe))
  BY DEF RunInv
<1>7. Pipe \in Seq(Steps)
  BY <1>1, PipeType DEF Pipe, RunType
<1>8. run.steps \in Seq(Steps)
  BY <1>1 DEF RunType
<1> HIDE DEF r
<1>9. CASE left # {}
  <2>1. run' = [r EXCEPT !.todo = left]
    BY <1>4, <1>9
  <2>2. /\ run' \in RunType /\ run'.steps = run.steps /\ run'.todo = left
        /\ run'.failed = r.failed /\ run'.faulted = r.faulted
        /\ run'.what = run.what /\ run'.conf = run.conf /\ run'.nodes = run.nodes
        /\ run'.verifying = run.verifying /\ run'.able = run.able
    BY <1>2, <1>5, <2>1 DEF RunType
  <2>3. Pipe' = Pipe /\ Left' = Left /\ Asked' = Asked
    BY <2>2 DEF Pipe, Left, Asked
  <2>4. \A x : For(x)' = For(x)
    BY <2>2 DEF For
  <2>5. Due(run', y)
    BY <1>5, <2>2 DEF Due
  <2>6. RunInv'
    <3>1. run'.conf = config' /\ ~Resting'
      BY <1>1, <2>2 DEF Resting
    <3>2. \E k \in 1..Len(Pipe') + 1 : run'.steps = SubSeq(Pipe', k, Len(Pipe'))
      BY <1>6, <2>2, <2>3
    <3>3. Due(run', Head(run'.steps)) /\ run'.todo # {} /\ run'.todo \subseteq For(Head(run.steps))'
      BY <1>5, <1>9, <2>2, <2>4, <2>5 DEF For
    <3>4. run'.todo # For(Head(run.steps))'
      BY <1>5, <2>2, <2>4 DEF For
    <3>5. /\ run'.what \in {"install"} \cup Unverified => run'.nodes = run'.conf.nodes
          /\ run'.what = "add-node" => \E m \in run'.conf.nodes \ {Server} : run'.nodes = {m}
          /\ run'.what \in Unverified => ~run'.verifying /\ ~run'.able
      BY <2>2 DEF RunInv
    <3> QED
      BY <1>1, <2>2, <3>1, <3>2, <3>3, <3>4, <3>5 DEF RunInv
  <2>7. SameRun(run', run)
    BY <2>2 DEF SameRun
  <2>8. ASSUME NEW x, NEW m, Through(x, m)'
        PROVE  Through(x, m) \/ (x = y /\ m = n)
    BY <2>2, <2>3, <2>4, <2>8 DEF Through
  <2>9. ASSUME NEW x, NEW m, Behind(x, m)'
        PROVE  Behind(x, m) /\ Through(x, m)' /\ run.todo # {n}
    BY <1>9, <2>2, <2>3, <2>4, <2>9 DEF Behind, Through
  <2> QED
    BY <1>1, <1>3, <1>5, <2>2, <2>6, <2>7, <2>8, <2>9
<1>10. CASE left = {}
  <2>1. run.todo = {n}
    BY <1>10
  <2>2. run' = StartingOn(r, t)
    BY <1>4, <1>10
  <2>3. Tail(run.steps) \in Seq(Steps) /\ t \in Seq(Steps)
    BY <1>1, <1>8, HeadTailProperties, EmptySeq
  <2> HIDE DEF t
  <2>4. /\ run' \in RunType
        /\ SameRun(run', r) /\ run'.failed = r.failed /\ run'.faulted = r.faulted
        /\ \E k \in 1..Len(t) + 1 : run'.steps = SubSeq(t, k, Len(t))
        /\ run'.steps = <<>> => run'.todo = {}
        /\ run'.steps # <<>> => /\ Due(r, Head(run'.steps))
                                /\ run'.todo = ScopeOf(r.conf, r.nodes, Head(run'.steps))
        /\ Elems(run'.steps) \subseteq Elems(t)
        /\ \A x \in Elems(t) : Due(r, x) => x \in Elems(run'.steps)
    <3>1. /\ StartingOn(r, t) \in RunType
          /\ SameRun(StartingOn(r, t), r) /\ StartingOn(r, t).failed = r.failed /\ StartingOn(r, t).faulted = r.faulted
          /\ \E k \in 1..Len(t) + 1 : StartingOn(r, t).steps = SubSeq(t, k, Len(t))
          /\ StartingOn(r, t).steps = <<>> => StartingOn(r, t).todo = {}
          /\ StartingOn(r, t).steps # <<>> => /\ Due(r, Head(StartingOn(r, t).steps))
                                  /\ StartingOn(r, t).todo = ScopeOf(r.conf, r.nodes, Head(StartingOn(r, t).steps))
          /\ Elems(StartingOn(r, t).steps) \subseteq Elems(t)
          /\ \A x \in Elems(t) : Due(r, x) => x \in Elems(StartingOn(r, t).steps)
      BY <1>2, <2>3, Starting
    <3> QED
      BY <2>2, <3>1
  <2>5. /\ run'.what = run.what /\ run'.conf = run.conf /\ run'.nodes = run.nodes
        /\ run'.verifying = run.verifying /\ run'.able = run.able
    BY <1>2, <2>4 DEF SameRun
  <2>6. Pipe' = Pipe /\ Asked' = Asked
    BY <2>5 DEF Pipe, Asked
  <2>7. \A x : For(x)' = For(x)
    BY <2>5 DEF For
  <2>8. \A x : Due(r, x) <=> Due(run', x)
    BY <1>2, <2>5 DEF Due
  <2>9. r.failed /\ ~r.verifying => run'.steps = <<>>
    <3>1. CASE r.failed /\ ~r.verifying
      <4>1. t = <<>>
        BY <3>1 DEF t
      <4>2. Len(t) = 0
        BY <4>1
      <4>3. PICK k \in 1..1 : run'.steps = SubSeq(t, k, Len(t))
        BY <2>4, <4>2
      <4> QED
        BY <4>2, <4>3, SubSeqEmpty
    <3> QED
      BY <3>1
  <2>10. \E k \in 1..Len(Pipe) + 1 : run'.steps = SubSeq(Pipe, k, Len(Pipe))
    <3> DEFINE p == Pipe
               l == Len(Pipe)
    <3>1. l \in Nat /\ Len(t) \in Nat
      BY <1>7, <2>3, LenProperties
    <3>2. CASE run'.steps = <<>>
      <4>1. SubSeq(p, l + 1, l) = <<>> /\ l + 1 \in 1..l + 1
        BY <3>1, SubSeqEmpty
      <4> QED
        BY <3>2, <4>1
    <3>3. CASE run'.steps # <<>>
      <4>1. t = Tail(run.steps)
        BY <1>2, <2>9, <3>3 DEF t
      <4>2. i \in 1..l
        <5>1. i # l + 1
          BY <1>1, <1>6, <3>1, SubSeqEmpty
        <5> QED
          BY <1>6, <3>1, <5>1
      <4>3. t = SubSeq(p, i + 1, l)
        BY <1>6, <1>7, <3>1, <4>1, <4>2, HeadTailOfSubSeq
      <4>4. PICK k \in 1..Len(t) + 1 : run'.steps = SubSeq(t, k, Len(t))
        BY <2>4
      <4>5. k # Len(t) + 1
        BY <3>1, <3>3, <4>4, SubSeqEmpty
      <4>6. k \in 1..Len(t) /\ Len(t) # 0
        BY <3>1, <4>4, <4>5
      <4>7. i # l
        <5>1. SUFFICES ASSUME i = l PROVE FALSE
          OBVIOUS
        <5>2. t = <<>>
          BY <3>1, <4>3, <5>1, SubSeqEmpty
        <5> QED
          BY <4>6, <5>2
      <4>8. i + 1 \in 1..l /\ i \in Nat
        BY <3>1, <4>2, <4>7
      <4>9. Len(t) = l - i
        <5>1. \A j \in i + 1..l : p[j] \in Steps
          BY <1>7, <3>1, <4>8, ElementOfSeq
        <5>2. Len(t) = l - (i + 1) + 1
          BY <3>1, <4>3, <4>8, <5>1, SubSeqProperties
        <5> QED
          BY <3>1, <4>8, <5>2
      <4>10. run'.steps = SubSeq(SubSeq(p, i + 1, l), k, l - i)
        BY <4>3, <4>4, <4>9
      <4>11. l \in 1..l /\ k \in 1..l - (i + 1) + 1 /\ l - i \in 1..l - (i + 1) + 1
        BY <3>1, <4>6, <4>8, <4>9
      <4>12. SubSeq(SubSeq(p, i + 1, l), k, l - i) = SubSeq(p, (i + 1) + k - 1, (i + 1) + (l - i) - 1)
        BY <1>7, <4>8, <4>11, SubSeqOfSubSeq
      <4>13. (i + 1) + k - 1 \in 1..l + 1 /\ (i + 1) + (l - i) - 1 = l
        BY <3>1, <4>6, <4>8, <4>9
      <4> QED
        BY <4>10, <4>12, <4>13
    <3> QED
      BY <3>2, <3>3
  <2>11. RunInv'
    <3>1. run'.conf = config' /\ ~Resting'
      BY <1>1, <2>5 DEF Resting
    <3>2. \E k \in 1..Len(Pipe') + 1 : run'.steps = SubSeq(Pipe', k, Len(Pipe'))
      BY <2>6, <2>10
    <3>3. ASSUME run'.steps # <<>>
          PROVE  /\ Due(run', Head(run'.steps)) /\ run'.todo # {}
                 /\ run'.todo \subseteq For(Head(run.steps))'
                 /\ ~(run'.failed /\ ~run'.verifying)
      <4>1. run'.todo = For(Head(run.steps))'
        BY <1>2, <2>4, <2>5, <3>3 DEF For
      <4>2. Due(r, Head(run'.steps))
        BY <2>4, <3>3
      <4>3. run'.todo # {}
        BY <2>4, <3>3, <4>2 DEF Due
      <4> QED
        BY <1>2, <2>4, <2>5, <2>8, <2>9, <3>3, <4>1, <4>2, <4>3
    <3>4. /\ run'.what \in {"install"} \cup Unverified => run'.nodes = run'.conf.nodes
          /\ run'.what = "add-node" => \E m \in run'.conf.nodes \ {Server} : run'.nodes = {m}
          /\ run'.what \in Unverified => ~run'.verifying /\ ~run'.able
      BY <2>5 DEF RunInv
    <3> QED
      BY <2>4, <3>1, <3>2, <3>3, <3>4 DEF RunInv
  <2>12. SameRun(run', run)
    BY <2>5 DEF SameRun
  <2>13. Left = {y} \cup Elems(Tail(run.steps)) /\ Left' = Elems(run'.steps)
    BY <1>1, <1>8, HeadTailElems DEF Left
  <2>14. ASSUME NEW x, NEW m, Through(x, m)', ~run'.failed
         PROVE  Through(x, m) \/ (x = y /\ m = n)
    <3>1. x \in Asked /\ m \in For(x) /\ (run.verifying => x \in Prompt)
      BY <2>5, <2>6, <2>7, <2>14 DEF Through
    <3>2. t = Tail(run.steps)
      BY <2>4, <2>14 DEF t
    <3>3. x \notin Left'
      <4>1. x = Head(run'.steps) /\ run'.steps # <<>> => m \in run'.todo
        BY <1>2, <2>4, <3>1 DEF For
      <4>2. x = Head(run'.steps) /\ run'.steps = <<>> => x \notin Left'
        BY <2>13 DEF Elems
      <4> QED
        BY <2>14, <4>1, <4>2 DEF Through
    <3>4. Due(r, x)
      BY <1>2, <3>1 DEF Due, For
    <3>5. x \notin Elems(Tail(run.steps))
      BY <2>4, <2>13, <3>2, <3>3, <3>4
    <3>6. CASE x \notin Left
      BY <3>1, <3>6 DEF Through
    <3>7. CASE x \in Left
      <4>1. x = y
        BY <2>13, <3>5, <3>7
      <4> QED
        BY <2>1, <3>1, <4>1 DEF Through
    <3> QED
      BY <3>6, <3>7
  <2>15. ASSUME NEW x, NEW m, Behind(x, m)'
         PROVE  ~run'.failed /\ Through(x, m)'
    <3>1. ~run'.failed
      BY <1>2, <2>4, <2>5, <2>9, <2>15 DEF Behind
    <3> QED
      BY <2>15, <3>1 DEF Behind, Through
  <2> QED
    BY <1>1, <1>3, <1>5, <2>4, <2>11, <2>12, <2>14, <2>15
<1> QED
  BY <1>9, <1>10

(* A run that begins, or begins to verify, is through nothing.             *)
LEMMA Begun ==
    ASSUME NEW r \in RunType, r.what # "nothing", r.conf = config', ~r.failed,
           run' = StartingOn(r, PipelineOf(r.what, r.conf)),
           r.what \in {"install"} \cup Unverified => r.nodes = r.conf.nodes,
           r.what = "add-node" => \E n \in r.conf.nodes \ {Server} : r.nodes = {n},
           r.what \in Unverified => ~r.verifying /\ ~r.able
    PROVE  /\ RunInv'
           /\ SameRun(run', r) /\ run'.failed = r.failed /\ run'.faulted = r.faulted
           /\ \A x, m : ~Through(x, m)' /\ ~Behind(x, m)'
<1> DEFINE p == PipelineOf(r.what, r.conf)
           q == StartingOn(r, p)
<1>1. p \in Seq(Steps)
  BY PipeType DEF RunType
<1>2. /\ q \in RunType
      /\ SameRun(q, r) /\ q.failed = r.failed /\ q.faulted = r.faulted
      /\ \E k \in 1..Len(p) + 1 : q.steps = SubSeq(p, k, Len(p))
      /\ q.steps = <<>> => q.todo = {}
      /\ q.steps # <<>> => /\ Due(r, Head(q.steps))
                           /\ q.todo = ScopeOf(r.conf, r.nodes, Head(q.steps))
      /\ \A x \in Elems(p) : Due(r, x) => x \in Elems(q.steps)
  <2> HIDE DEF p
  <2> QED
    BY <1>1, Starting
<1>3. run' = q
  OBVIOUS
<1> HIDE DEF q
<1>4. /\ run'.what = r.what /\ run'.conf = r.conf /\ run'.nodes = r.nodes
      /\ run'.verifying = r.verifying /\ run'.able = r.able
  BY <1>2, <1>3 DEF SameRun
<1>5. Pipe' = p /\ Asked' = Elems(p) /\ Left' = Elems(run'.steps)
  BY <1>4 DEF Pipe, Asked, Left
<1> HIDE DEF p
<1>6. \A x : For(x)' = ScopeOf(r.conf, r.nodes, x)
  BY <1>4 DEF For
<1>7. \A x : Due(run', x) <=> Due(r, x)
  BY <1>4 DEF Due
<1>8. RunInv'
  <2>1. run'.conf = config' /\ ~Resting'
    BY <1>4 DEF Resting
  <2>2. ASSUME run'.steps # <<>>
        PROVE  /\ Due(run', Head(run'.steps)) /\ run'.todo # {}
               /\ run'.todo \subseteq For(Head(run.steps))'
    <3>1. run'.todo = For(Head(run.steps))'
      BY <1>2, <1>3, <1>4, <2>2 DEF For
    <3>2. Due(r, Head(run'.steps))
      BY <1>2, <1>3, <2>2
    <3>3. run'.todo # {}
      BY <1>2, <1>3, <2>2, <3>2 DEF Due
    <3> QED
      BY <1>7, <3>1, <3>2, <3>3
  <2>3. /\ run'.what \in {"install"} \cup Unverified => run'.nodes = run'.conf.nodes
        /\ run'.what = "add-node" => \E m \in run'.conf.nodes \ {Server} : run'.nodes = {m}
        /\ run'.what \in Unverified => ~run'.verifying /\ ~run'.able
    BY <1>4
  <2>4. ~run'.failed
    BY <1>2, <1>3
  <2> QED
    BY <1>2, <1>3, <1>5, <2>1, <2>2, <2>3, <2>4 DEF RunInv
<1>9. ASSUME NEW x, NEW m, x \in Asked', m \in For(x)', r.verifying => x \in Prompt
      PROVE  x \in Left' /\ (x = Head(run'.steps) => m \in run'.todo)
  <2>1. Due(r, x)
    BY <1>6, <1>9 DEF Due
  <2>2. x \in Left'
    BY <1>2, <1>3, <1>5, <1>9, <2>1
  <2>3. run'.steps # <<>>
    BY <1>5, <2>2 DEF Elems
  <2> QED
    BY <1>2, <1>3, <1>6, <1>9, <2>2, <2>3
<1>10. \A x, m : ~Through(x, m)'
  BY <1>4, <1>9 DEF Through
<1>11. \A x, m : ~Behind(x, m)'
  BY <1>4, <1>9 DEF Behind
<1> QED
  BY <1>2, <1>3, <1>8, <1>10, <1>11

Rest == config \in Configs /\ run = Idle(config) /\ know = NothingKnown

(* Nothing is asked of a run there isn't.                                  *)
LEMMA AtRest ==
    Rest => /\ RunInv
            /\ Asked = {} /\ ~run.failed /\ ~run.able /\ ~run.verifying
            /\ run.conf = config /\ run.nodes = {} /\ run.what = "nothing"
            /\ run.steps = <<>>
<1> SUFFICES ASSUME Rest
             PROVE  /\ RunInv
                    /\ Asked = {} /\ ~run.failed /\ ~run.able /\ ~run.verifying
                    /\ run.conf = config /\ run.nodes = {} /\ run.what = "nothing"
                    /\ run.steps = <<>>
  OBVIOUS
<1>1. /\ run.what = "nothing" /\ run.conf = config /\ run.nodes = {} /\ run.steps = <<>>
      /\ run.todo = {} /\ ~run.failed /\ ~run.verifying /\ ~run.able
  BY DEF Idle, Rest
<1>2. run \in RunType
  BY EmptySeq DEF Idle, RunType, Commands, Rest
<1>3. Pipe = <<>>
  BY <1>1, PipelineIs DEF Pipe
<1>4. Asked = {}
  BY <1>3 DEF Asked, Elems
<1>5. \E i \in 1..Len(Pipe) + 1 : run.steps = SubSeq(Pipe, i, Len(Pipe))
  <2>1. Len(Pipe) = 0 /\ SubSeq(Pipe, 1, 0) = <<>>
    BY <1>3, SubSeqEmpty
  <2> QED
    BY <1>1, <1>3, <2>1
<1>6. RunInv
  BY <1>1, <1>2, <1>5 DEF RunInv, Unverified, Rest
<1> QED
  BY <1>1, <1>4, <1>6

-----------------------------------------------------------------------------
(* The inductive invariant                                                 *)

KnowledgeType ==
    [enrolled : BOOLEAN, host : {"none", "as configured", "capitalised"}, ipv4 : BOOLEAN,
     code : BOOLEAN, added : BOOLEAN, roles : SUBSET RoleNames, active : BOOLEAN,
     nodeIp : {"none", "local", "mesh"}, stale : BOOLEAN, driver : BOOLEAN]

DiskType == [registries : Nat, toolkit : BOOLEAN, driver : BOOLEAN, auth : Nat]

K3sType ==
    [up : BOOLEAN, address : {"local", "mesh"}, flag : BOOLEAN, registries : Nat,
     runtime : BOOLEAN, joined : BOOLEAN, credentials : BOOLEAN]

ClusterType ==
    [registered : [Node -> {"none", "local", "mesh"}], gateways : SUBSET Node, gpus : SUBSET Node,
     crds : BOOLEAN, cilium : {"absent", "without", "with controller"},
     pool : SUBSET (Node \cup {"lan"}), policy : BOOLEAN,
     gateway : SUBSET (Node \cup {"lan"}), record : SUBSET Configs]

CountsType == edits \in 0..MaxEdits /\ faults \in 0..MaxFaults

KnowType == know \in [Node -> KnowledgeType]

MachineType ==
    /\ disk \in [Node -> DiskType]
    /\ k3s \in [Node -> K3sType]
    /\ byHand \in BOOLEAN
    /\ cluster \in ClusterType

(* What is so whoever has done what.                                       *)
WorldInv ==
    /\ \A g, h \in hosts : g.node = h.node => g = h
    /\ \A n \in Node :
          /\ client[n].as # "none" => \E h \in hosts : h.node = n
          /\ k3s[n].joined => cluster.registered[n] = k3s[n].address
    /\ cluster.cilium # "without"

\* What is known of a node that can't stop to be so while a run goes on.
KnowInv ==
    \A n \in Node :
        /\ know[n].roles \subseteq Existing
        /\ know[n].enrolled => client[n].as # "none"
        /\ know[n].host # "none" => \E h \in hosts : h.node = n /\ h.name = know[n].host
        /\ know[n].code => know[n].host # "none"
        /\ know[n].ipv4 => \E h \in hosts : h.node = n /\ h.ipv4
        /\ know[n].nodeIp # "none" =>
              ChecksAddress(run.conf, n) /\ know[n].nodeIp = AddressFor(run.conf, n)
        /\ know[n].active => k3s[n].up
        /\ know[n].stale => k3s[n].up

HasRegistries(n) == run.conf.registries # 0 => disk[n].registries = run.conf.registries

Loaded(n) ==
    run.conf.registries # 0 /\ k3s[n].up => k3s[n].registries = run.conf.registries

RuntimeLoaded(n) == k3s[n].up => k3s[n].runtime

KnowsRoles(n) == Existing \subseteq know[n].roles

KnowsHost(n) ==
    \A h \in HostsOf(n) : know[n].host = h.name /\ (know[n].ipv4 <=> h.ipv4)

KnowsAddress(n) == ChecksAddress(run.conf, n) => know[n].nodeIp = AddressFor(run.conf, n)

\* What a run knows of node n by having gone through a step.
Learned(step, n) ==
    /\ step = "list-roles-once" => KnowsRoles(n)
    /\ step = "list-nebula-roles" => (run.able => DefaultRole \in know[n].roles)
    /\ step = "find-nebula-host" => KnowsHost(n)
    /\ step = "create-nebula-host" => know[n].host # "none"
    /\ step = "create-nebula-enrollment-code" => know[n].enrolled \/ know[n].code
    /\ step = "check-k3s-service" => know[n].active \/ Loaded(n)
    /\ step = "find-node-ip" => KnowsAddress(n)
    /\ step = "check-k3s-nvidia-runtime" =>
          (n \in Gpu => know[n].stale \/ (disk[n].toolkit /\ RuntimeLoaded(n)))
    /\ step = "check-nvidia-driver" => (n \in Gpu => (know[n].driver <=> disk[n].driver))

(* What a step brings about, on node n, for the rest of the run: on the    *)
(* mesh, on its disk, in its K3s, by its joining, and in the cluster.      *)
MeshBrought(step, n) ==
    /\ step \in RolesOf(run.conf) => step \in Existing
    /\ step = "verify-nebula-roles" => RolesOf(run.conf) \cup {DefaultRole} \subseteq Existing
    /\ step = "find-nebula-host" => \A h \in HostsOf(n) : ~h.blocked
    /\ step = "add-nebula-ipv4-address" => AddressOf(n)
    /\ step = "install-dnclient" => client[n].installed
    /\ step = "enroll-nebula-host" => client[n].as # "none"
    /\ step = "verify-nebula-host" => client[n].ipv4 /\ AddressOf(n)

DiskBrought(step, n) ==
    /\ step = "write-registries-config" => HasRegistries(n)
    /\ step = "write-authentication-config" =>
          (run.conf.clients # 0 => disk[n].auth = run.conf.clients)
    /\ step = "install-nvidia-container-toolkit" => (n \in Gpu => disk[n].toolkit)

K3sBrought(step, n) ==
    /\ step = "restart-k3s" => HasRegistries(n) /\ Loaded(n)
    /\ step = "verify-authentication-config" => (run.conf.clients # 0 => k3s[n].flag \/ byHand)
    /\ step \in {"install-k3s-server", "install-k3s-agent"} =>
          k3s[n].up /\ k3s[n].address = AddressFor(run.conf, n)
    /\ step = "restart-k3s-for-nvidia" => (n \in Gpu => disk[n].toolkit /\ RuntimeLoaded(n))
    /\ step = "check-cluster-online" => ServerUp

JoinBrought(step, n) ==
    /\ step = "verify-k3s" => IF n = Server THEN n \in Registered ELSE k3s[n].credentials
    /\ step = "verify-node-ip" =>
          (ChecksAddress(run.conf, n) => /\ cluster.registered[n] = AddressFor(run.conf, n)
                                         /\ k3s[n].address = AddressFor(run.conf, n))
    /\ step = "check-cluster-access" => n \in Registered
    /\ step = "verify-cilium" => \A m \in Registered : Ready(m)
    /\ step = "verify-node-ready" => Ready(n)

ClusterBrought(step, n) ==
    LET c == run.conf
    IN  /\ step = "apply-node-labels" => (n \in cluster.gateways <=> n \in c.gateways)
        /\ step = "install-gateway-api" => cluster.crds
        /\ step = "install-cilium" => cluster.cilium # "absent"
        /\ step = "apply-lb-ip-pool" => (HasGateway(c) => cluster.pool = Addresses(c))
        /\ step = "apply-l2-announcement" =>
              (HasGateway(c) /\ c.mode = "port-forward" => cluster.policy)
        /\ step = "apply-cluster-gateway" => cluster.gateway = Addresses(c)
        /\ step = "label-nvidia-driver" => (n \in Gpu => (n \in cluster.gpus <=> disk[n].driver))
        /\ step = "write-cluster-config" => cluster.record = {c}

Brought(step, n) ==
    /\ MeshBrought(step, n)
    /\ DiskBrought(step, n)
    /\ K3sBrought(step, n)
    /\ JoinBrought(step, n)
    /\ ClusterBrought(step, n)

\* A run nothing has failed in has learned what there was to learn,
LearnedInv ==
    ~run.failed => \A step \in Asked : \A n \in For(step) : Through(step, n) => Learned(step, n)

\* and brought about what there was to be brought about.
BroughtInv ==
    ~run.failed => \A step \in Asked : \A n \in For(step) : Has(step, n) => Brought(step, n)

\* What is so of every node by the time any of them is at a step, failed or not.
BehindInv ==
    \A n \in Node :
        /\ Behind("list-roles-once", n) => KnowsRoles(n)
        /\ Behind("find-node-ip", n) => KnowsAddress(n)
        /\ Behind("install-k3s-server", n) \/ Behind("check-cluster-online", n) => ServerUp
        /\ Behind("install-gateway-api", n) => cluster.crds

\* What lets a run succeed is still so.
AbleInv ==
    run.able =>
        LET c == run.conf
        IN  /\ OnNetwork(c) => /\ c.network \in Networks
                               /\ \A h \in hosts : h.node \in run.nodes => ~h.blocked
            /\ Renders(c)
            /\ c.clients = 0 \/ k3s[Server].flag \/ byHand
            /\ c.mode = "floating" => c.gateways \cap run.nodes \subseteq Held
            /\ run.what = "install" =>
                  /\ OnNetwork(c) => RolesInOrder(c)
                  /\ \A n \in Registered \ run.nodes : k3s[n].up
            /\ run.what = "add-node" =>
                  /\ OnNetwork(c) => DefaultRole \in Existing
                  /\ ServerUp /\ cluster.cilium = "with controller"

Typed == CountsType /\ KnowType /\ MeshTypeOK /\ MachineType

InstallIInv ==
    /\ RunInv
    /\ Typed
    /\ WorldInv
    /\ KnowInv
    /\ LearnedInv
    /\ BroughtInv
    /\ BehindInv
    /\ AbleInv
    /\ RolesOnce
    /\ RerunSucceeds

\* What no step may undo, even in a run in which another node failed.
Stays ==
    /\ \A m \in Node : /\ KnowsRoles(m) => KnowsRoles(m)'
                       /\ KnowsAddress(m) => KnowsAddress(m)'
    /\ ServerUp => ServerUp'
    /\ cluster.crds => cluster'.crds

(* A node through a step.  What is left to show of the step is what it     *)
(* brings about, that it undoes nothing, and that it doesn't fail if       *)
(* nothing stands in its way.                                              *)
LEMMA StepKeeps ==
    ASSUME InstallIInv,
           NEW n \in run.todo, NEW ok \in BOOLEAN, NEW wrong \in BOOLEAN,
           run' = After(n, ok, wrong), config' = config,
           NEW y, y = Head(run.steps),
           Typed', WorldInv', KnowInv', AbleInv', RolesOnce',
           ok /\ ~run.failed =>
              /\ \A x \in Asked : \A m \in For(x) :
                    Through(x, m) /\ Learned(x, m) => Learned(x, m)'
              /\ Learned(y, n)'
              /\ \A x \in Asked : \A m \in For(x) :
                    Has(x, m) /\ Brought(x, m) => Brought(x, m)'
              /\ Brought(y, n)',
           run.todo # {n} => Stays,
           ~ok /\ ~wrong => run.failed \/ ~run.able \/ run.faulted
    PROVE  InstallIInv'
<1>1. RunInv
  BY DEF InstallIInv
<1>2. /\ RunInv'
      /\ SameRun(run', run)
      /\ run'.failed <=> run.failed \/ ~ok
      /\ run'.faulted <=> run.faulted \/ wrong
      /\ \A x, m : ~run'.failed /\ Through(x, m)' => Through(x, m) \/ (x = y /\ m = n)
      /\ \A x, m : Behind(x, m)' =>
            /\ ~run'.failed => Through(x, m)'
            /\ run'.failed => Behind(x, m) /\ run.todo # {n}
  BY <1>1, Moved
<1>3. Asked' = Asked /\ \A x : For(x)' = For(x)
  BY <1>2 DEF SameRun, Asked, Pipe, For
<1>4. run'.verifying = run.verifying /\ run'.able = run.able
  BY <1>2 DEF SameRun
<1>5. LearnedInv'
  <2>1. SUFFICES ASSUME ~run'.failed, NEW x \in Asked', NEW m \in For(x)', Through(x, m)'
                 PROVE  Learned(x, m)'
    BY DEF LearnedInv
  <2>2. ok /\ ~run.failed
    BY <1>2, <2>1
  <2>3. CASE Through(x, m)
    BY <1>3, <2>2, <2>3 DEF InstallIInv, LearnedInv
  <2>4. CASE x = y /\ m = n
    BY <2>2, <2>4
  <2> QED
    BY <1>2, <2>1, <2>3, <2>4
<1>6. BroughtInv'
  <2>1. SUFFICES ASSUME ~run'.failed, NEW x \in Asked', NEW m \in For(x)', Has(x, m)'
                 PROVE  Brought(x, m)'
    BY DEF BroughtInv
  <2>2. ok /\ ~run.failed
    BY <1>2, <2>1
  <2>3. CASE Has(x, m)
    BY <1>3, <2>2, <2>3 DEF InstallIInv, BroughtInv
  <2>4. CASE x = y /\ m = n
    BY <2>2, <2>4
  <2>5. Has(x, m) \/ (x = y /\ m = n)
    BY <1>2, <1>3, <1>4, <2>1 DEF Has
  <2> QED
    BY <2>3, <2>4, <2>5
<1>7. BehindInv'
  <2>1. CASE run'.failed
    <3>1. \A x, m : Behind(x, m)' => Behind(x, m) /\ Stays
      BY <1>2, <2>1
    <3>2. SUFFICES ASSUME NEW m \in Node
                   PROVE  /\ Behind("list-roles-once", m)' => KnowsRoles(m)'
                          /\ Behind("find-node-ip", m)' => KnowsAddress(m)'
                          /\ Behind("install-k3s-server", m)' => ServerUp'
                          /\ Behind("check-cluster-online", m)' => ServerUp'
                          /\ Behind("install-gateway-api", m)' => cluster'.crds
      BY DEF BehindInv
    <3>3. /\ Behind("list-roles-once", m) => KnowsRoles(m)
          /\ Behind("find-node-ip", m) => KnowsAddress(m)
          /\ Behind("install-k3s-server", m) \/ Behind("check-cluster-online", m) => ServerUp
          /\ Behind("install-gateway-api", m) => cluster.crds
      BY DEF InstallIInv, BehindInv
    <3> QED
      BY <3>1, <3>3 DEF Stays
  <2>2. CASE ~run'.failed
    <3>1. ASSUME NEW x, NEW m, Behind(x, m)'
          PROVE  Learned(x, m)' /\ Brought(x, m)' /\ m \in For(x)'
      <4>1. Through(x, m)' /\ x \in Asked' /\ m \in For(x)'
        BY <1>2, <2>2, <3>1 DEF Behind
      <4>2. Has(x, m)'
        BY <4>1 DEF Has
      <4> QED
        BY <1>5, <1>6, <2>2, <4>1, <4>2 DEF LearnedInv, BroughtInv
    <3>2. SUFFICES ASSUME NEW m \in Node
                   PROVE  /\ Behind("list-roles-once", m)' => KnowsRoles(m)'
                          /\ Behind("find-node-ip", m)' => KnowsAddress(m)'
                          /\ Behind("install-k3s-server", m)' => ServerUp'
                          /\ Behind("check-cluster-online", m)' => ServerUp'
                          /\ Behind("install-gateway-api", m)' => cluster'.crds
      BY DEF BehindInv
    <3>3. /\ Behind("list-roles-once", m)' => KnowsRoles(m)'
          /\ Behind("find-node-ip", m)' => KnowsAddress(m)'
      BY <3>1 DEF Learned
    <3>4. Behind("install-k3s-server", m)' => ServerUp'
      <4>1. SUFFICES ASSUME Behind("install-k3s-server", m)'
                     PROVE  ServerUp'
        OBVIOUS
      <4>2. K3sBrought("install-k3s-server", m)' /\ m \in For("install-k3s-server")'
        BY <3>1, <4>1 DEF Brought
      <4>3. m = Server
        <5>1. run'.conf \in Configs
          BY <1>2 DEF RunInv, RunType
        <5>2. For("install-k3s-server")' = run'.nodes \cap {Server}
          BY <5>1, Scopes DEF OnServers, For
        <5> QED
          BY <4>2, <5>2
      <4> QED
        BY <4>2, <4>3 DEF K3sBrought, ServerUp
    <3>5. Behind("check-cluster-online", m)' => ServerUp'
      BY <3>1 DEF Brought, K3sBrought
    <3>6. Behind("install-gateway-api", m)' => cluster'.crds
      BY <3>1 DEF Brought, ClusterBrought
    <3> QED
      BY <3>3, <3>4, <3>5, <3>6
  <2> QED
    BY <2>1, <2>2
<1>8. RerunSucceeds'
  BY <1>2, <1>4 DEF InstallIInv, RerunSucceeds
<1> QED
  BY <1>2, <1>5, <1>6, <1>7, <1>8 DEF InstallIInv

(* Of what is counted, only what goes wrong is, and no more often than it  *)
(* may.                                                                    *)
LEMMA CountsKept ==
    ASSUME CountsType, edits' = edits, faults' = faults \/ Fault
    PROVE  CountsType'
<1>1. MaxFaults \in Nat
  BY ConstantsAssumption
<1> QED
  BY <1>1 DEF CountsType, Fault

\* What the steps look at is as it was.
WorldKept == UNCHANGED <<meshVars, machineVars>>

(* What a node has learned is still so where what it knows, and what that  *)
(* is about, is as it was.                                                 *)
LEMMA LearnedIsSame ==
    ASSUME NEW x, NEW m, run'.able = run.able, know'[m] = know[m], disk'[m] = disk[m],
           KnowsRoles(m)' <=> KnowsRoles(m),
           KnowsHost(m)' <=> KnowsHost(m),
           KnowsAddress(m)' <=> KnowsAddress(m),
           Loaded(m)' <=> Loaded(m),
           RuntimeLoaded(m)' <=> RuntimeLoaded(m)
    PROVE  Learned(x, m)' <=> Learned(x, m)
BY DEF Learned

(* What lets a run succeed is still so of a world that hasn't lost any of it. *)
LEMMA AbleStays ==
    ASSUME AbleInv, SameRun(run', run), hosts' = hosts, Existing' = Existing,
           cluster'.cilium = cluster.cilium, \A c : RolesInOrder(c)' <=> RolesInOrder(c),
           run.conf.clients = 0 \/ k3s[Server].flag \/ byHand
              => run.conf.clients = 0 \/ k3s'[Server].flag \/ byHand',
           \A m \in Registered \ run.nodes : k3s[m].up => k3s'[m].up,
           \A m \in Registered' \ Registered : k3s'[m].up,
           ServerUp => ServerUp'
    PROVE  AbleInv'
<1>1. /\ run'.able = run.able /\ run'.conf = run.conf /\ run'.nodes = run.nodes
      /\ run'.what = run.what
  BY DEF SameRun
<1>2. SUFFICES ASSUME run.able
               PROVE  AbleInv'
  BY <1>1 DEF AbleInv
<1>3. /\ OnNetwork(run.conf) => /\ run.conf.network \in Networks
                                /\ \A h \in hosts : h.node \in run.nodes => ~h.blocked
      /\ Renders(run.conf)
      /\ run.conf.clients = 0 \/ k3s[Server].flag \/ byHand
      /\ run.conf.mode = "floating" => run.conf.gateways \cap run.nodes \subseteq Held
      /\ run.what = "install" =>
            /\ OnNetwork(run.conf) => RolesInOrder(run.conf)
            /\ \A n \in Registered \ run.nodes : k3s[n].up
      /\ run.what = "add-node" =>
            /\ OnNetwork(run.conf) => DefaultRole \in Existing
            /\ ServerUp /\ cluster.cilium = "with controller"
  BY <1>2 DEF AbleInv
<1>4. run.what = "install" => \A n \in Registered' \ run.nodes : k3s'[n].up
  BY <1>3
<1> QED
  BY <1>1, <1>3, <1>4 DEF AbleInv

(* What holds of the world goes on holding of a world that is as it was.   *)
LEMMA WorldStays ==
    ASSUME Typed, WorldInv, AbleInv, RolesOnce, WorldKept, SameRun(run', run), CountsType'
    PROVE  /\ WorldInv' /\ AbleInv' /\ RolesOnce'
           /\ MeshTypeOK' /\ MachineType'
           /\ ServerUp => ServerUp'
           /\ cluster.crds => cluster'.crds
           /\ \A x, n : Brought(x, n)' <=> Brought(x, n)
<1> USE DEF WorldKept, meshVars, machineVars
<1>1. WorldInv'
  BY DEF WorldInv
<1>2. AbleInv'
  BY DEF AbleInv, SameRun, Registered, RolesInOrder, Existing, ServerUp
<1>3. RolesOnce'
  BY DEF RolesOnce
<1>4. MeshTypeOK' /\ MachineType'
  BY DEF Typed, MeshTypeOK, MachineType
<1>5. ServerUp' = ServerUp
  BY DEF ServerUp
<1>6. ASSUME NEW x, NEW n
      PROVE  Brought(x, n)' <=> Brought(x, n)
  <2>1. MeshBrought(x, n)' <=> MeshBrought(x, n)
    BY DEF MeshBrought, SameRun, Existing, HostsOf, AddressOf
  <2>2. DiskBrought(x, n)' <=> DiskBrought(x, n)
    BY DEF DiskBrought, SameRun, HasRegistries
  <2>3. K3sBrought(x, n)' <=> K3sBrought(x, n)
    BY DEF K3sBrought, SameRun, HasRegistries, Loaded, RuntimeLoaded, ServerUp
  <2>4. JoinBrought(x, n)' <=> JoinBrought(x, n)
    BY DEF JoinBrought, SameRun, Registered, Ready
  <2>5. ClusterBrought(x, n)' <=> ClusterBrought(x, n)
    BY DEF ClusterBrought, SameRun
  <2> QED
    BY <2>1, <2>2, <2>3, <2>4, <2>5 DEF Brought
<1> QED
  BY <1>1, <1>2, <1>3, <1>4, <1>5, <1>6

(* Nothing but the run has changed, and what is known of one node.         *)
LEMMA Answered ==
    ASSUME InstallIInv, WorldKept, NEW n \in run.todo, NEW y, y = Head(run.steps),
           NEW k \in KnowledgeType, know' = [know EXCEPT ![n] = k],
           config' = config, edits' = edits, faults' = faults,
           run' = After(n, TRUE, FALSE),
           KnowInv',
           \A x \in Asked : n \in For(x) /\ Through(x, n) /\ Learned(x, n) => Learned(x, n)',
           ~run.failed => Learned(y, n)' /\ Brought(y, n),
           KnowsRoles(n) => KnowsRoles(n)',
           KnowsAddress(n) => KnowsAddress(n)'
    PROVE  InstallIInv'
<1>1. RunInv /\ Typed /\ WorldInv /\ AbleInv /\ RolesOnce /\ CountsType /\ KnowType
  BY DEF InstallIInv, Typed
<1>2. SameRun(run', run) /\ n \in Node
  BY <1>1, Moved
<1>3. CountsType'
  BY <1>1, CountsKept
<1>4. /\ WorldInv' /\ AbleInv' /\ RolesOnce' /\ MeshTypeOK' /\ MachineType'
      /\ ServerUp => ServerUp'
      /\ cluster.crds => cluster'.crds
      /\ \A x, m : Brought(x, m)' <=> Brought(x, m)
  BY <1>1, <1>2, <1>3, WorldStays
<1>5. KnowType'
  BY <1>1, <1>2 DEF KnowType
<1>6. Typed'
  BY <1>3, <1>4, <1>5 DEF Typed
<1>7. \A m : m \in Node /\ m # n => know'[m] = know[m]
  BY <1>1 DEF KnowType
<1>8. ASSUME NEW x, NEW m \in Node, m # n
      PROVE  /\ Learned(x, m) => Learned(x, m)'
             /\ KnowsRoles(m) => KnowsRoles(m)'
             /\ KnowsAddress(m) => KnowsAddress(m)'
  <2>1. know'[m] = know[m]
    BY <1>7, <1>8
  <2>2. /\ KnowsRoles(m)' <=> KnowsRoles(m)
        /\ KnowsAddress(m)' <=> KnowsAddress(m)
        /\ KnowsHost(m)' <=> KnowsHost(m)
        /\ Loaded(m)' <=> Loaded(m)
        /\ RuntimeLoaded(m)' <=> RuntimeLoaded(m)
    BY <1>2, <2>1 DEF KnowsRoles, KnowsAddress, KnowsHost, Loaded, RuntimeLoaded, SameRun,
       WorldKept, meshVars, machineVars, Existing, HostsOf
  <2>3. Learned(x, m)' <=> Learned(x, m)
    <3>1. run'.able = run.able /\ disk'[m] = disk[m]
      BY <1>2 DEF SameRun, WorldKept, machineVars
    <3> QED
      BY <2>1, <2>2, <3>1, LearnedIsSame
  <2> QED
    BY <2>2, <2>3
<1>9. Stays
  BY <1>2, <1>4, <1>8 DEF Stays
<1>10. \A x \in Asked : For(x) \subseteq Node
  BY <1>1, ScopeType DEF RunInv, RunType, For
<1>11. \A x \in Asked : \A m \in For(x) : Through(x, m) /\ Learned(x, m) => Learned(x, m)'
  BY <1>8, <1>10
<1>12. ~run.failed => Brought(y, n)'
  BY <1>4
<1>13. \A x \in Asked : \A m \in For(x) : Has(x, m) /\ Brought(x, m) => Brought(x, m)'
  BY <1>4
<1> QED
  BY <1>4, <1>6, <1>9, <1>11, <1>12, <1>13, StepKeeps

(* Nothing but the run has changed.                                        *)
LEMMA Looked ==
    ASSUME InstallIInv, WorldKept, NEW n \in run.todo, NEW y, y = Head(run.steps),
           know' = know, config' = config, edits' = edits, faults' = faults \/ Fault,
           NEW ok \in BOOLEAN, NEW wrong \in BOOLEAN, run' = After(n, ok, wrong),
           ok /\ ~run.failed => Learned(y, n) /\ Brought(y, n),
           ~ok /\ ~wrong => run.failed \/ ~run.able \/ run.faulted
    PROVE  InstallIInv'
<1>1. RunInv /\ Typed /\ WorldInv /\ AbleInv /\ RolesOnce /\ CountsType /\ KnowType /\ KnowInv
  BY DEF InstallIInv, Typed
<1>2. SameRun(run', run) /\ n \in Node
  BY <1>1, Moved
<1>3. CountsType'
  BY <1>1, CountsKept
<1>4. /\ WorldInv' /\ AbleInv' /\ RolesOnce' /\ MeshTypeOK' /\ MachineType'
      /\ ServerUp => ServerUp'
      /\ cluster.crds => cluster'.crds
      /\ \A x, m : Brought(x, m)' <=> Brought(x, m)
  BY <1>1, <1>2, <1>3, WorldStays
<1>5. Typed'
  BY <1>1, <1>3, <1>4 DEF Typed, KnowType
<1>6. KnowInv'
  BY <1>1, <1>2 DEF KnowInv, SameRun, WorldKept, meshVars, machineVars, Existing
<1>7. ASSUME NEW x, NEW m
      PROVE  /\ Learned(x, m)' <=> Learned(x, m)
             /\ KnowsRoles(m)' <=> KnowsRoles(m)
             /\ KnowsAddress(m)' <=> KnowsAddress(m)
  <2>1. /\ KnowsRoles(m)' <=> KnowsRoles(m)
        /\ KnowsAddress(m)' <=> KnowsAddress(m)
        /\ KnowsHost(m)' <=> KnowsHost(m)
        /\ Loaded(m)' <=> Loaded(m)
        /\ RuntimeLoaded(m)' <=> RuntimeLoaded(m)
    BY <1>2 DEF KnowsRoles, KnowsAddress, KnowsHost, Loaded, RuntimeLoaded, SameRun,
       WorldKept, meshVars, machineVars, Existing, HostsOf
  <2>2. Learned(x, m)' <=> Learned(x, m)
    BY <1>2, <2>1 DEF Learned, SameRun, WorldKept, machineVars
  <2> QED
    BY <2>1, <2>2
<1>8. Stays
  BY <1>4, <1>7 DEF Stays
<1> QED
  BY <1>4, <1>5, <1>6, <1>7, <1>8, StepKeeps

-----------------------------------------------------------------------------
(* What has been done by the time a node is at a step                      *)

NetworkSteps == {"find-network-once", "list-roles-once", "verify-nebula-roles"}

MeshSteps ==
    {"check-nebula-enrollment", "find-nebula-network", "list-nebula-roles",
     "find-nebula-host", "create-nebula-host", "create-nebula-enrollment-code",
     "add-nebula-ipv4-address", "install-dnclient", "enroll-nebula-host",
     "refresh-nebula-config", "verify-nebula-host"}

SignInSteps == {"write-authentication-config", "verify-authentication-config"}

K3sSteps ==
    {"find-node-ip", "install-k3s-server", "install-k3s-agent", "wait-for-k3s",
     "verify-k3s", "verify-node-ip"}

ServiceSteps ==
    {"check-k3s-service", "write-registries-config", "restart-k3s", "verify-registry-access",
     "check-cluster-access", "apply-node-labels", "verify-node-labels",
     "check-gateway-support", "apply-lb-ip-pool", "apply-l2-announcement",
     "verify-gateway", "apply-cluster-gateway", "verify-cluster-gateway",
     "install-nvidia-container-toolkit", "check-k3s-nvidia-runtime",
     "restart-k3s-for-nvidia", "check-nvidia-driver", "label-nvidia-driver",
     "verify-nvidia-runtime"}

InstallSteps ==
    {"install-gateway-api", "install-cilium", "wait-for-cilium", "verify-cilium",
     "label-gateway-nodes", "write-cluster-config", "verify-cluster-config"}

AddNodeSteps == {"check-cluster-online", "verify-node-ready"}

AskedMesh == IF OnNetwork(run.conf) THEN MeshSteps ELSE {}

AskedNetwork == IF OnNetwork(run.conf) THEN NetworkSteps \cup RolesOf(run.conf) ELSE {}

(* The bundles, by the groups of steps the rest goes by.                   *)
LEMMA ElemsOf ==
    ASSUME NEW c \in Configs
    PROVE  /\ Shared = SignInSteps \cup K3sSteps \cup ServiceSteps
           /\ OnlyInstalled = InstallSteps
           /\ Elems(K3s) = SignInSteps \cup K3sSteps
           /\ Elems(SignIn) = SignInSteps
           /\ OnNetwork(c) => /\ Elems(Nebula(c)) = MeshSteps
                              /\ Elems(NebulaNetwork(c)) = NetworkSteps \cup RolesOf(c)
           /\ ~OnNetwork(c) => Elems(Nebula(c)) = {} /\ Elems(NebulaNetwork(c)) = {}
<1>1. /\ Elems(Registries) = {"check-k3s-service", "write-registries-config", "restart-k3s",
                              "verify-registry-access"}
      /\ Elems(K3s) = {"find-node-ip", "write-authentication-config",
                       "verify-authentication-config", "install-k3s-server",
                       "install-k3s-agent", "wait-for-k3s", "verify-k3s", "verify-node-ip"}
      /\ Elems(SignIn) = {"write-authentication-config", "verify-authentication-config"}
      /\ Elems(GatewayAddresses) =
                 {"check-gateway-support", "apply-lb-ip-pool", "apply-l2-announcement",
                  "verify-gateway", "apply-cluster-gateway", "verify-cluster-gateway"}
      /\ Elems(Cilium) = {"install-gateway-api", "install-cilium", "wait-for-cilium",
                          "verify-cilium"}
  BY RegistriesClimbs, K3sClimbs, SignInClimbs, AddressesClimb, CiliumClimbs
<1>2. /\ Elems(NodeLabels) = {"check-cluster-access", "apply-node-labels", "verify-node-labels"}
      /\ Elems(Nvidia) = {"install-nvidia-container-toolkit", "check-k3s-nvidia-runtime",
                          "restart-k3s-for-nvidia", "check-nvidia-driver",
                          "label-nvidia-driver", "verify-nvidia-runtime"}
      /\ Elems(Cluster) = {"write-cluster-config", "verify-cluster-config"}
  BY NodeLabelsClimbs, NvidiaClimbs, ClusterClimbs
<1>3. /\ OnNetwork(c) => /\ Elems(Nebula(c)) = MeshSteps
                         /\ Elems(NebulaNetwork(c)) = NetworkSteps \cup RolesOf(c)
      /\ ~OnNetwork(c) => Elems(Nebula(c)) = {} /\ Elems(NebulaNetwork(c)) = {}
  BY NebulaClimbs, NetworkClimbs DEF MeshSteps, NetworkSteps
<1> QED
  BY <1>1, <1>2, <1>3 DEF Shared, OnlyInstalled, SignInSteps, K3sSteps, ServiceSteps, InstallSteps

(* What each command asks of a run, by those groups.                       *)
LEMMA AskedOf ==
    ASSUME RunInv
    PROVE  /\ run.what \in Commands /\ run.conf \in Configs
           /\ run.what = "nothing" => Asked = {}
           /\ run.what = "install" =>
                 Asked = AskedNetwork \cup AskedMesh \cup SignInSteps \cup K3sSteps
                            \cup ServiceSteps \cup InstallSteps \cup {Repeated}
           /\ run.what = "add-node" =>
                 Asked = AskedMesh \cup SignInSteps \cup K3sSteps \cup ServiceSteps
                            \cup AddNodeSteps \cup {Repeated}
           /\ run.what = "k3s" => Asked = SignInSteps \cup K3sSteps
           /\ run.what = "cluster-sign-in" => Asked = SignInSteps
<1>1. run.what \in Commands /\ run.conf \in Configs
  BY DEF RunInv, RunType
<1> DEFINE c == run.conf
<1>2. /\ Shared = SignInSteps \cup K3sSteps \cup ServiceSteps
      /\ OnlyInstalled = InstallSteps
      /\ Elems(K3s) = SignInSteps \cup K3sSteps
      /\ Elems(SignIn) = SignInSteps
      /\ OnNetwork(c) => /\ Elems(Nebula(c)) = MeshSteps
                         /\ Elems(NebulaNetwork(c)) = NetworkSteps \cup RolesOf(c)
      /\ ~OnNetwork(c) => Elems(Nebula(c)) = {} /\ Elems(NebulaNetwork(c)) = {}
  BY <1>1, ElemsOf
<1>3. Elems(Nebula(c)) = AskedMesh /\ Elems(NebulaNetwork(c)) = AskedNetwork
  BY <1>2 DEF AskedMesh, AskedNetwork
<1>4. LET asked == Elems(PipelineOf(run.what, c))
      IN  /\ run.what = "nothing" => asked = {}
          /\ run.what = "install" =>
                asked = Elems(NebulaNetwork(c)) \cup Elems(Nebula(c)) \cup Shared
                           \cup OnlyInstalled \cup {Repeated}
          /\ run.what = "add-node" =>
                asked = Elems(Nebula(c)) \cup Shared
                           \cup {"check-cluster-online", "verify-node-ready", Repeated}
          /\ run.what = "k3s" => asked = Elems(K3s)
          /\ run.what = "cluster-sign-in" => asked = Elems(SignIn)
  <2> HIDE DEF c
  <2> QED
    BY <1>1, AskedFor DEF c
<1>5. Asked = Elems(PipelineOf(run.what, c))
  BY DEF Asked, Pipe
<1> HIDE DEF c
<1>6. run.what = "add-node" =>
        Asked = AskedMesh \cup SignInSteps \cup K3sSteps \cup ServiceSteps
                   \cup AddNodeSteps \cup {Repeated}
  BY <1>2, <1>3, <1>4, <1>5 DEF AddNodeSteps
<1>7. run.what = "install" =>
        Asked = AskedNetwork \cup AskedMesh \cup SignInSteps \cup K3sSteps
                   \cup ServiceSteps \cup InstallSteps \cup {Repeated}
  BY <1>2, <1>3, <1>4, <1>5
<1> QED
  BY <1>1, <1>2, <1>4, <1>5, <1>6, <1>7

(* A step is asked for along with those it rests on.                       *)
LEMMA Together ==
    ASSUME RunInv
    PROVE  /\ \A y \in Asked \cap (NetworkSteps \cup RolesOf(run.conf)) :
                 /\ NetworkSteps \cup RolesOf(run.conf) \subseteq Asked
                 /\ run.what = "install" /\ OnNetwork(run.conf)
           /\ \A y \in Asked \cap MeshSteps : MeshSteps \subseteq Asked /\ OnNetwork(run.conf)
           /\ \A y \in Asked \cap SignInSteps : SignInSteps \subseteq Asked
           /\ \A y \in Asked \cap K3sSteps : SignInSteps \cup K3sSteps \subseteq Asked
           /\ \A y \in Asked \cap ServiceSteps :
                 /\ SignInSteps \cup K3sSteps \cup ServiceSteps \subseteq Asked
                 /\ run.what \in {"install", "add-node"}
           /\ \A y \in Asked \cap InstallSteps :
                 /\ SignInSteps \cup K3sSteps \cup ServiceSteps \cup InstallSteps \subseteq Asked
                 /\ run.what = "install"
           /\ \A y \in Asked \cap AddNodeSteps :
                 /\ SignInSteps \cup K3sSteps \cup ServiceSteps \cup AddNodeSteps \subseteq Asked
                 /\ run.what = "add-node"
           /\ run.what \in {"install", "add-node"} =>
                 /\ SignInSteps \cup K3sSteps \cup ServiceSteps \subseteq Asked
                 /\ OnNetwork(run.conf) => MeshSteps \subseteq Asked
           /\ run.what = "install" =>
                 /\ InstallSteps \subseteq Asked
                 /\ OnNetwork(run.conf) => NetworkSteps \cup RolesOf(run.conf) \subseteq Asked
<1>1. /\ run.what \in Commands
      /\ run.what = "nothing" => Asked = {}
      /\ run.what = "install" =>
            Asked = AskedNetwork \cup AskedMesh \cup SignInSteps \cup K3sSteps
                       \cup ServiceSteps \cup InstallSteps \cup {Repeated}
      /\ run.what = "add-node" =>
            Asked = AskedMesh \cup SignInSteps \cup K3sSteps \cup ServiceSteps
                       \cup AddNodeSteps \cup {Repeated}
      /\ run.what = "k3s" => Asked = SignInSteps \cup K3sSteps
      /\ run.what = "cluster-sign-in" => Asked = SignInSteps
  BY AskedOf
<1>2. run.what \in {"nothing", "install", "add-node", "k3s", "cluster-sign-in"}
  BY <1>1 DEF Commands, Unverified
<1> DEFINE Literals == NetworkSteps \cup MeshSteps \cup SignInSteps \cup K3sSteps
                          \cup ServiceSteps \cup InstallSteps \cup AddNodeSteps \cup {Repeated}
<1>3. RolesOf(run.conf) \cap Literals = {}
  <2>1. Literals \subseteq Prompt \cup Applied
    BY DEF NetworkSteps, MeshSteps, SignInSteps, K3sSteps, ServiceSteps, InstallSteps,
       AddNodeSteps, Repeated, Prompt, Applied
  <2>2. run.conf \in Configs
    BY AskedOf
  <2> QED
    BY <2>1, <2>2, NamesAssumption
<1>4. /\ NetworkSteps \cap (MeshSteps \cup SignInSteps \cup K3sSteps \cup ServiceSteps
            \cup InstallSteps \cup AddNodeSteps \cup {Repeated}) = {}
      /\ MeshSteps \cap (SignInSteps \cup K3sSteps \cup ServiceSteps
            \cup InstallSteps \cup AddNodeSteps \cup {Repeated}) = {}
      /\ SignInSteps \cap (K3sSteps \cup ServiceSteps
            \cup InstallSteps \cup AddNodeSteps \cup {Repeated}) = {}
      /\ K3sSteps \cap (ServiceSteps \cup InstallSteps \cup AddNodeSteps \cup {Repeated}) = {}
      /\ ServiceSteps \cap (InstallSteps \cup AddNodeSteps \cup {Repeated}) = {}
      /\ InstallSteps \cap (AddNodeSteps \cup {Repeated}) = {}
      /\ AddNodeSteps \cap {Repeated} = {}
  BY DEF NetworkSteps, MeshSteps, SignInSteps, K3sSteps, ServiceSteps, InstallSteps,
     AddNodeSteps, Repeated
<1>5. /\ OnNetwork(run.conf) => /\ AskedMesh = MeshSteps
                                /\ AskedNetwork = NetworkSteps \cup RolesOf(run.conf)
      /\ ~OnNetwork(run.conf) => AskedMesh = {} /\ AskedNetwork = {}
  BY DEF AskedMesh, AskedNetwork
<1>6. CASE run.what = "nothing"
  BY <1>1, <1>6
<1>7. CASE run.what = "install"
  BY <1>1, <1>3, <1>4, <1>5, <1>7
<1>8. CASE run.what = "add-node"
  BY <1>1, <1>3, <1>4, <1>5, <1>8
<1>9. CASE run.what = "k3s"
  BY <1>1, <1>3, <1>4, <1>9
<1>10. CASE run.what = "cluster-sign-in"
  BY <1>1, <1>3, <1>4, <1>10
<1> QED
  BY <1>2, <1>6, <1>7, <1>8, <1>9, <1>10

(* Which nodes the steps of a run are for.                                 *)
LEMMA Fors ==
    ASSUME RunInv
    PROVE  /\ \A s \in Once \cup RolesOf(run.conf) : For(s) = {Server}
           /\ \A s \in OnServers : For(s) = run.nodes \cap {Server}
           /\ For("install-k3s-agent") = run.nodes \ {Server}
           /\ \A s \in (Prompt \cup Applied) \ (Once \cup OnServers \cup OnAgents) :
                 For(s) = run.nodes
           /\ run.nodes \subseteq Node /\ Server \in Node
           /\ run.what \in {"install"} \cup Unverified => run.nodes = run.conf.nodes
           /\ run.conf.nodes \subseteq Node /\ Server \in run.conf.nodes
<1>1. run.conf \in Configs /\ run.nodes \subseteq Node
  BY DEF RunInv, RunType
<1>2. /\ \A s \in Once \cup RolesOf(run.conf) : For(s) = {Server}
      /\ \A s \in OnServers : For(s) = run.nodes \cap {Server}
      /\ \A s \in OnAgents : For(s) = run.nodes \ {Server}
      /\ \A s \in (Prompt \cup Applied) \ (Once \cup OnServers \cup OnAgents) :
            For(s) = run.nodes
  BY <1>1, Scopes DEF For
<1>3. /\ Server \in Node
      /\ run.conf.nodes \subseteq Node /\ Server \in run.conf.nodes
  BY <1>1, ConstantsAssumption
<1> QED
  BY <1>1, <1>2, <1>3 DEF OnAgents, RunInv

(* What a step brought about, and what was learned by it, of a step that   *)
(* comes before the one under way.                                         *)
LEMMA Earlier ==
    ASSUME InstallIInv, ~run.failed, run.steps # <<>>,
           NEW x \in Prompt \cup Applied, x \in Asked, x # Repeated,
           Head(run.steps) \in Prompt \cup Applied, Head(run.steps) # Repeated,
           Base(x) < Base(Head(run.steps)), NEW n \in For(x)
    PROVE  /\ Brought(x, n)
           /\ (run.verifying => x \in Prompt) => Learned(x, n)
<1>1. /\ Has(x, n)
      /\ (run.verifying => x \in Prompt) => Through(x, n)
  BY Before DEF InstallIInv
<1> QED
  BY <1>1 DEF InstallIInv, BroughtInv, LearnedInv

(* What it brought about is so all through a verification.                 *)
LEMMA Verified ==
    ASSUME InstallIInv, ~run.failed, run.verifying, NEW x \in Asked, NEW n \in For(x)
    PROVE  Brought(x, n)
BY DEF InstallIInv, BroughtInv, Has

(* The step a node is at.                                                  *)
LEMMA AtStep ==
    ASSUME InstallIInv, NEW n \in run.todo
    PROVE  /\ run.steps # <<>> /\ Head(run.steps) \in Asked /\ n \in For(Head(run.steps))
           /\ n \in Node /\ ~Resting /\ run.conf \in Configs /\ run.what \in Commands
           /\ run.verifying => Head(run.steps) \in Prompt
           /\ run \in RunType
<1>1. RunInv
  BY DEF InstallIInv
<1>2. run.steps # <<>> /\ run \in RunType
  BY <1>1 DEF RunInv
<1>3. ~Resting
  BY <1>1, <1>2 DEF RunInv, Idle
<1>4. /\ Head(run.steps) \in Asked
      /\ run.conf \in Configs /\ run.what \in Commands
  BY <1>1, <1>2, HeadIs
<1>5. n \in For(Head(run.steps)) /\ n \in Node
  BY <1>1, <1>2 DEF RunInv, RunType
<1>6. run.verifying => Head(run.steps) \in Prompt
  BY <1>1, <1>2 DEF RunInv, Due
<1> QED
  BY <1>2, <1>3, <1>4, <1>5, <1>6

(* Nothing stood in the way of a run, and nothing went wrong with it yet.  *)
LEMMA Standing ==
    ASSUME InstallIInv, run.able, ~run.faulted
    PROVE  ~run.failed /\ run.what \in {"install", "add-node"}
<1>1. ~run.failed
  BY DEF InstallIInv, RerunSucceeds
<1>2. run.what # "nothing"
  BY DEF InstallIInv, RunInv, Resting, Idle
<1>3. run.what \notin Unverified /\ run.what \in Commands
  BY DEF InstallIInv, RunInv, RunType
<1> QED
  BY <1>1, <1>2, <1>3 DEF Commands

(* A role is no step of another name.                                      *)
LEMMA NoRole ==
    ASSUME run.conf \in Configs
    PROVE  \A s \in Prompt \cup Applied : s \notin RolesOf(run.conf)
BY NamesAssumption

(* What a run has learned by having gone through a step, one step at a     *)
(* time.                                                                   *)
LEMMA LearnedIs ==
    ASSUME NEW n
    PROVE  /\ Learned("list-roles-once", n) <=>
                 (KnowsRoles(n))
           /\ Learned("list-nebula-roles", n) <=>
                 ((run.able => DefaultRole \in know[n].roles))
           /\ Learned("find-nebula-host", n) <=>
                 (KnowsHost(n))
           /\ Learned("create-nebula-host", n) <=>
                 (know[n].host # "none")
           /\ Learned("create-nebula-enrollment-code", n) <=>
                 (know[n].enrolled \/ know[n].code)
           /\ Learned("check-k3s-service", n) <=>
                 (know[n].active \/ Loaded(n))
           /\ Learned("find-node-ip", n) <=>
                 (KnowsAddress(n))
           /\ Learned("check-k3s-nvidia-runtime", n) <=>
                 ((n \in Gpu => know[n].stale \/ (disk[n].toolkit /\ RuntimeLoaded(n))))
           /\ Learned("check-nvidia-driver", n) <=>
                 ((n \in Gpu => (know[n].driver <=> disk[n].driver)))
<1>1. Learned("list-roles-once", n) <=>
       (KnowsRoles(n))
  BY DEF Learned
<1>2. Learned("list-nebula-roles", n) <=>
       ((run.able => DefaultRole \in know[n].roles))
  BY DEF Learned
<1>3. Learned("find-nebula-host", n) <=>
       (KnowsHost(n))
  BY DEF Learned
<1>4. Learned("create-nebula-host", n) <=>
       (know[n].host # "none")
  BY DEF Learned
<1>5. Learned("create-nebula-enrollment-code", n) <=>
       (know[n].enrolled \/ know[n].code)
  BY DEF Learned
<1>6. Learned("check-k3s-service", n) <=>
       (know[n].active \/ Loaded(n))
  BY DEF Learned
<1>7. Learned("find-node-ip", n) <=>
       (KnowsAddress(n))
  BY DEF Learned
<1>8. Learned("check-k3s-nvidia-runtime", n) <=>
       ((n \in Gpu => know[n].stale \/ (disk[n].toolkit /\ RuntimeLoaded(n))))
  BY DEF Learned
<1>9. Learned("check-nvidia-driver", n) <=>
       ((n \in Gpu => (know[n].driver <=> disk[n].driver)))
  BY DEF Learned
<1> QED
  BY <1>1, <1>2, <1>3, <1>4, <1>5, <1>6, <1>7, <1>8, <1>9

(* Steps that learn a run nothing, and steps that bring nothing about.     *)
Mute ==
    {"add-nebula-ipv4-address", "apply-cluster-gateway",
     "apply-l2-announcement", "apply-lb-ip-pool", "apply-node-labels",
     "check-cluster-access", "check-cluster-online",
     "check-gateway-interfaces", "check-gateway-support",
     "check-nebula-enrollment", "enroll-nebula-host",
     "find-nebula-network", "find-network-once", "install-cilium",
     "install-dnclient", "install-gateway-api", "install-k3s-agent",
     "install-k3s-server", "install-nvidia-container-toolkit",
     "label-gateway-nodes", "label-nvidia-driver",
     "refresh-nebula-config", "restart-k3s", "restart-k3s-for-nvidia",
     "verify-authentication-config", "verify-cilium",
     "verify-cluster-config", "verify-cluster-gateway",
     "verify-gateway", "verify-k3s", "verify-nebula-host",
     "verify-nebula-roles", "verify-node-ip", "verify-node-labels",
     "verify-node-ready", "verify-nvidia-runtime",
     "verify-registry-access", "wait-for-cilium", "wait-for-k3s",
     "write-authentication-config", "write-cluster-config",
     "write-registries-config"}

Inert ==
    {"check-gateway-interfaces", "check-gateway-support",
     "check-k3s-nvidia-runtime", "check-k3s-service",
     "check-nebula-enrollment", "check-nvidia-driver",
     "create-nebula-enrollment-code", "create-nebula-host",
     "find-nebula-network", "find-network-once", "find-node-ip",
     "label-gateway-nodes", "list-nebula-roles", "list-roles-once",
     "refresh-nebula-config", "verify-cluster-config",
     "verify-cluster-gateway", "verify-gateway", "verify-node-labels",
     "verify-nvidia-runtime", "verify-registry-access",
     "wait-for-cilium", "wait-for-k3s"}

(* Having gone through one of the first says nothing of what is known;     *)
LEMMA MuteSteps ==
    ASSUME NEW x \in Mute, NEW n
    PROVE  Learned(x, n)
BY DEF Mute, Learned

(* and having taken one of the second, nothing of what there is.           *)
LEMMA InertSteps ==
    ASSUME run.conf \in Configs, NEW x \in Inert, NEW n
    PROVE  Brought(x, n)
<1>1. Inert \subseteq Prompt \cup Applied
  BY DEF Inert, Prompt, Applied
<1>2. x \notin RolesOf(run.conf)
  BY <1>1, NoRole
<1>3. MeshBrought(x, n)
  BY <1>2 DEF Inert, MeshBrought
<1>4. DiskBrought(x, n)
  BY DEF Inert, DiskBrought
<1>5. K3sBrought(x, n)
  BY DEF Inert, K3sBrought
<1>6. JoinBrought(x, n)
  BY DEF Inert, JoinBrought
<1>7. ClusterBrought(x, n)
  BY DEF Inert, ClusterBrought
<1> QED
  BY <1>3, <1>4, <1>5, <1>6, <1>7 DEF Brought

(* A role's step brings the role about.                                    *)
LEMMA RolesBrought ==
    ASSUME run.conf \in Configs, NEW r \in RolesOf(run.conf), NEW n
    PROVE  /\ Brought(r, n) <=> r \in Existing
           /\ Learned(r, n)
<1>1. r \notin Prompt \cup Applied
  BY NamesAssumption
<1>2. Learned(r, n)
  BY <1>1 DEF Learned, Prompt, Applied
<1>3. MeshBrought(r, n) <=> r \in Existing
  BY <1>1 DEF MeshBrought, Prompt, Applied
<1>4. DiskBrought(r, n) /\ K3sBrought(r, n)
  BY <1>1 DEF DiskBrought, K3sBrought, Prompt, Applied
<1>5. JoinBrought(r, n) /\ ClusterBrought(r, n)
  BY <1>1 DEF JoinBrought, ClusterBrought, Prompt, Applied
<1> QED
  BY <1>2, <1>3, <1>4, <1>5 DEF Brought

(* What is so of what there is once a step has been taken, one step at a   *)
(* time.                                                                   *)
LEMMA BroughtIs ==
    ASSUME run.conf \in Configs, NEW n
    PROVE  /\ Brought("verify-nebula-roles", n) <=>
                 (RolesOf(run.conf) \cup {DefaultRole} \subseteq Existing)
           /\ Brought("find-nebula-host", n) <=>
                 (\A h \in HostsOf(n) : ~h.blocked)
           /\ Brought("add-nebula-ipv4-address", n) <=>
                 (AddressOf(n))
           /\ Brought("install-dnclient", n) <=>
                 (client[n].installed)
           /\ Brought("enroll-nebula-host", n) <=>
                 (client[n].as # "none")
           /\ Brought("verify-nebula-host", n) <=>
                 (client[n].ipv4 /\ AddressOf(n))
           /\ Brought("write-registries-config", n) <=>
                 (HasRegistries(n))
           /\ Brought("write-authentication-config", n) <=>
                 ((run.conf.clients # 0 => disk[n].auth = run.conf.clients))
           /\ Brought("install-nvidia-container-toolkit", n) <=>
                 ((n \in Gpu => disk[n].toolkit))
           /\ Brought("restart-k3s", n) <=>
                 (HasRegistries(n) /\ Loaded(n))
           /\ Brought("verify-authentication-config", n) <=>
                 ((run.conf.clients # 0 => k3s[n].flag \/ byHand))
           /\ Brought("install-k3s-server", n) <=>
                 (k3s[n].up /\ k3s[n].address = AddressFor(run.conf, n))
           /\ Brought("install-k3s-agent", n) <=>
                 (k3s[n].up /\ k3s[n].address = AddressFor(run.conf, n))
           /\ Brought("restart-k3s-for-nvidia", n) <=>
                 ((n \in Gpu => disk[n].toolkit /\ RuntimeLoaded(n)))
           /\ Brought("check-cluster-online", n) <=>
                 (ServerUp)
           /\ Brought("verify-k3s", n) <=>
                 (IF n = Server THEN n \in Registered ELSE k3s[n].credentials)
           /\ Brought("verify-node-ip", n) <=>
                 ((ChecksAddress(run.conf, n) => /\ cluster.registered[n] = AddressFor(run.conf, n)
                                      /\ k3s[n].address = AddressFor(run.conf, n)))
           /\ Brought("check-cluster-access", n) <=>
                 (n \in Registered)
           /\ Brought("verify-cilium", n) <=>
                 (\A m \in Registered : Ready(m))
           /\ Brought("verify-node-ready", n) <=>
                 (Ready(n))
           /\ Brought("apply-node-labels", n) <=>
                 ((n \in cluster.gateways <=> n \in run.conf.gateways))
           /\ Brought("install-gateway-api", n) <=>
                 (cluster.crds)
           /\ Brought("install-cilium", n) <=>
                 (cluster.cilium # "absent")
           /\ Brought("apply-lb-ip-pool", n) <=>
                 ((HasGateway(run.conf) => cluster.pool = Addresses(run.conf)))
           /\ Brought("apply-l2-announcement", n) <=>
                 ((HasGateway(run.conf) /\ run.conf.mode = "port-forward" => cluster.policy))
           /\ Brought("apply-cluster-gateway", n) <=>
                 (cluster.gateway = Addresses(run.conf))
           /\ Brought("label-nvidia-driver", n) <=>
                 ((n \in Gpu => (n \in cluster.gpus <=> disk[n].driver)))
           /\ Brought("write-cluster-config", n) <=>
                 (cluster.record = {run.conf})
<1>1. \A s \in Prompt \cup Applied : s \notin RolesOf(run.conf)
  BY NoRole
<1>2. Brought("verify-nebula-roles", n) <=>
       (RolesOf(run.conf) \cup {DefaultRole} \subseteq Existing)
  <2>1. "verify-nebula-roles" \in Prompt \cup Applied
    BY DEF Prompt, Applied
  <2> QED
    BY <1>1, <2>1 DEF Brought, MeshBrought, DiskBrought, K3sBrought, JoinBrought, ClusterBrought
<1>3. Brought("find-nebula-host", n) <=>
       (\A h \in HostsOf(n) : ~h.blocked)
  <2>1. "find-nebula-host" \in Prompt \cup Applied
    BY DEF Prompt, Applied
  <2> QED
    BY <1>1, <2>1 DEF Brought, MeshBrought, DiskBrought, K3sBrought, JoinBrought, ClusterBrought
<1>4. Brought("add-nebula-ipv4-address", n) <=>
       (AddressOf(n))
  <2>1. "add-nebula-ipv4-address" \in Prompt \cup Applied
    BY DEF Prompt, Applied
  <2> QED
    BY <1>1, <2>1 DEF Brought, MeshBrought, DiskBrought, K3sBrought, JoinBrought, ClusterBrought
<1>5. Brought("install-dnclient", n) <=>
       (client[n].installed)
  <2>1. "install-dnclient" \in Prompt \cup Applied
    BY DEF Prompt, Applied
  <2> QED
    BY <1>1, <2>1 DEF Brought, MeshBrought, DiskBrought, K3sBrought, JoinBrought, ClusterBrought
<1>6. Brought("enroll-nebula-host", n) <=>
       (client[n].as # "none")
  <2>1. "enroll-nebula-host" \in Prompt \cup Applied
    BY DEF Prompt, Applied
  <2> QED
    BY <1>1, <2>1 DEF Brought, MeshBrought, DiskBrought, K3sBrought, JoinBrought, ClusterBrought
<1>7. Brought("verify-nebula-host", n) <=>
       (client[n].ipv4 /\ AddressOf(n))
  <2>1. "verify-nebula-host" \in Prompt \cup Applied
    BY DEF Prompt, Applied
  <2> QED
    BY <1>1, <2>1 DEF Brought, MeshBrought, DiskBrought, K3sBrought, JoinBrought, ClusterBrought
<1>8. Brought("write-registries-config", n) <=>
       (HasRegistries(n))
  <2>1. "write-registries-config" \in Prompt \cup Applied
    BY DEF Prompt, Applied
  <2> QED
    BY <1>1, <2>1 DEF Brought, MeshBrought, DiskBrought, K3sBrought, JoinBrought, ClusterBrought
<1>9. Brought("write-authentication-config", n) <=>
       ((run.conf.clients # 0 => disk[n].auth = run.conf.clients))
  <2>1. "write-authentication-config" \in Prompt \cup Applied
    BY DEF Prompt, Applied
  <2> QED
    BY <1>1, <2>1 DEF Brought, MeshBrought, DiskBrought, K3sBrought, JoinBrought, ClusterBrought
<1>10. Brought("install-nvidia-container-toolkit", n) <=>
       ((n \in Gpu => disk[n].toolkit))
  <2>1. "install-nvidia-container-toolkit" \in Prompt \cup Applied
    BY DEF Prompt, Applied
  <2> QED
    BY <1>1, <2>1 DEF Brought, MeshBrought, DiskBrought, K3sBrought, JoinBrought, ClusterBrought
<1>11. Brought("restart-k3s", n) <=>
       (HasRegistries(n) /\ Loaded(n))
  <2>1. "restart-k3s" \in Prompt \cup Applied
    BY DEF Prompt, Applied
  <2> QED
    BY <1>1, <2>1 DEF Brought, MeshBrought, DiskBrought, K3sBrought, JoinBrought, ClusterBrought
<1>12. Brought("verify-authentication-config", n) <=>
       ((run.conf.clients # 0 => k3s[n].flag \/ byHand))
  <2>1. "verify-authentication-config" \in Prompt \cup Applied
    BY DEF Prompt, Applied
  <2> QED
    BY <1>1, <2>1 DEF Brought, MeshBrought, DiskBrought, K3sBrought, JoinBrought, ClusterBrought
<1>13. Brought("install-k3s-server", n) <=>
       (k3s[n].up /\ k3s[n].address = AddressFor(run.conf, n))
  <2>1. "install-k3s-server" \in Prompt \cup Applied
    BY DEF Prompt, Applied
  <2> QED
    BY <1>1, <2>1 DEF Brought, MeshBrought, DiskBrought, K3sBrought, JoinBrought, ClusterBrought
<1>14. Brought("install-k3s-agent", n) <=>
       (k3s[n].up /\ k3s[n].address = AddressFor(run.conf, n))
  <2>1. "install-k3s-agent" \in Prompt \cup Applied
    BY DEF Prompt, Applied
  <2> QED
    BY <1>1, <2>1 DEF Brought, MeshBrought, DiskBrought, K3sBrought, JoinBrought, ClusterBrought
<1>15. Brought("restart-k3s-for-nvidia", n) <=>
       ((n \in Gpu => disk[n].toolkit /\ RuntimeLoaded(n)))
  <2>1. "restart-k3s-for-nvidia" \in Prompt \cup Applied
    BY DEF Prompt, Applied
  <2> QED
    BY <1>1, <2>1 DEF Brought, MeshBrought, DiskBrought, K3sBrought, JoinBrought, ClusterBrought
<1>16. Brought("check-cluster-online", n) <=>
       (ServerUp)
  <2>1. "check-cluster-online" \in Prompt \cup Applied
    BY DEF Prompt, Applied
  <2> QED
    BY <1>1, <2>1 DEF Brought, MeshBrought, DiskBrought, K3sBrought, JoinBrought, ClusterBrought
<1>17. Brought("verify-k3s", n) <=>
       (IF n = Server THEN n \in Registered ELSE k3s[n].credentials)
  <2>1. "verify-k3s" \in Prompt \cup Applied
    BY DEF Prompt, Applied
  <2> QED
    BY <1>1, <2>1 DEF Brought, MeshBrought, DiskBrought, K3sBrought, JoinBrought, ClusterBrought
<1>18. Brought("verify-node-ip", n) <=>
       ((ChecksAddress(run.conf, n) => /\ cluster.registered[n] = AddressFor(run.conf, n)
                                      /\ k3s[n].address = AddressFor(run.conf, n)))
  <2>1. "verify-node-ip" \in Prompt \cup Applied
    BY DEF Prompt, Applied
  <2> QED
    BY <1>1, <2>1 DEF Brought, MeshBrought, DiskBrought, K3sBrought, JoinBrought, ClusterBrought
<1>19. Brought("check-cluster-access", n) <=>
       (n \in Registered)
  <2>1. "check-cluster-access" \in Prompt \cup Applied
    BY DEF Prompt, Applied
  <2> QED
    BY <1>1, <2>1 DEF Brought, MeshBrought, DiskBrought, K3sBrought, JoinBrought, ClusterBrought
<1>20. Brought("verify-cilium", n) <=>
       (\A m \in Registered : Ready(m))
  <2>1. "verify-cilium" \in Prompt \cup Applied
    BY DEF Prompt, Applied
  <2> QED
    BY <1>1, <2>1 DEF Brought, MeshBrought, DiskBrought, K3sBrought, JoinBrought, ClusterBrought
<1>21. Brought("verify-node-ready", n) <=>
       (Ready(n))
  <2>1. "verify-node-ready" \in Prompt \cup Applied
    BY DEF Prompt, Applied
  <2> QED
    BY <1>1, <2>1 DEF Brought, MeshBrought, DiskBrought, K3sBrought, JoinBrought, ClusterBrought
<1>22. Brought("apply-node-labels", n) <=>
       ((n \in cluster.gateways <=> n \in run.conf.gateways))
  <2>1. "apply-node-labels" \in Prompt \cup Applied
    BY DEF Prompt, Applied
  <2> QED
    BY <1>1, <2>1 DEF Brought, MeshBrought, DiskBrought, K3sBrought, JoinBrought, ClusterBrought
<1>23. Brought("install-gateway-api", n) <=>
       (cluster.crds)
  <2>1. "install-gateway-api" \in Prompt \cup Applied
    BY DEF Prompt, Applied
  <2> QED
    BY <1>1, <2>1 DEF Brought, MeshBrought, DiskBrought, K3sBrought, JoinBrought, ClusterBrought
<1>24. Brought("install-cilium", n) <=>
       (cluster.cilium # "absent")
  <2>1. "install-cilium" \in Prompt \cup Applied
    BY DEF Prompt, Applied
  <2> QED
    BY <1>1, <2>1 DEF Brought, MeshBrought, DiskBrought, K3sBrought, JoinBrought, ClusterBrought
<1>25. Brought("apply-lb-ip-pool", n) <=>
       ((HasGateway(run.conf) => cluster.pool = Addresses(run.conf)))
  <2>1. "apply-lb-ip-pool" \in Prompt \cup Applied
    BY DEF Prompt, Applied
  <2> QED
    BY <1>1, <2>1 DEF Brought, MeshBrought, DiskBrought, K3sBrought, JoinBrought, ClusterBrought
<1>26. Brought("apply-l2-announcement", n) <=>
       ((HasGateway(run.conf) /\ run.conf.mode = "port-forward" => cluster.policy))
  <2>1. "apply-l2-announcement" \in Prompt \cup Applied
    BY DEF Prompt, Applied
  <2> QED
    BY <1>1, <2>1 DEF Brought, MeshBrought, DiskBrought, K3sBrought, JoinBrought, ClusterBrought
<1>27. Brought("apply-cluster-gateway", n) <=>
       (cluster.gateway = Addresses(run.conf))
  <2>1. "apply-cluster-gateway" \in Prompt \cup Applied
    BY DEF Prompt, Applied
  <2> QED
    BY <1>1, <2>1 DEF Brought, MeshBrought, DiskBrought, K3sBrought, JoinBrought, ClusterBrought
<1>28. Brought("label-nvidia-driver", n) <=>
       ((n \in Gpu => (n \in cluster.gpus <=> disk[n].driver)))
  <2>1. "label-nvidia-driver" \in Prompt \cup Applied
    BY DEF Prompt, Applied
  <2> QED
    BY <1>1, <2>1 DEF Brought, MeshBrought, DiskBrought, K3sBrought, JoinBrought, ClusterBrought
<1>29. Brought("write-cluster-config", n) <=>
       (cluster.record = {run.conf})
  <2>1. "write-cluster-config" \in Prompt \cup Applied
    BY DEF Prompt, Applied
  <2> QED
    BY <1>1, <2>1 DEF Brought, MeshBrought, DiskBrought, K3sBrought, JoinBrought, ClusterBrought
<1> QED
  BY <1>2, <1>3, <1>4, <1>5, <1>6, <1>7, <1>8, <1>9, <1>10, <1>11, <1>12, <1>13, <1>14, <1>15,
     <1>16, <1>17, <1>18, <1>19, <1>20, <1>21, <1>22, <1>23, <1>24, <1>25, <1>26, <1>27, <1>28,
     <1>29

-----------------------------------------------------------------------------
(* Steps that only look                                                    *)

(* A step that looks and learns nothing: that it is passed says what it    *)
(* brought about is so, and it fails only where something stands in its    *)
(* way.                                                                    *)
LEMMA LooksAround ==
    ASSUME InstallIInv, WorldKept, NEW n \in run.todo, NEW y, y = Head(run.steps),
           NEW isSo \in BOOLEAN, Looks(n, isSo, know[n]),
           isSo /\ ~run.failed => Learned(y, n) /\ Brought(y, n),
           ~isSo => run.failed \/ ~run.able \/ run.faulted
    PROVE  InstallIInv'
<1>1. know \in [Node -> KnowledgeType]
  BY DEF InstallIInv, Typed, KnowType
<1>2. know' = know /\ config' = config /\ edits' = edits /\ faults' = faults
  BY <1>1 DEF Looks, Passes, Fails
<1>3. CASE isSo
  <2>1. run' = After(n, TRUE, FALSE)
    BY <1>3 DEF Looks, Passes
  <2> QED
    BY <1>2, <1>3, <2>1, Looked
<1>4. CASE ~isSo
  <2>1. run' = After(n, FALSE, FALSE)
    BY <1>4 DEF Looks, Fails
  <2> QED
    BY <1>2, <1>4, <2>1, Looked
<1> QED
  BY <1>3, <1>4

(* And one that waits for what it looks at, which a verification doesn't.  *)
LEMMA WaitsAround ==
    ASSUME InstallIInv, WorldKept, NEW n \in run.todo, NEW y, y = Head(run.steps),
           NEW isSo \in BOOLEAN, NEW mayCome \in BOOLEAN, WaitsFor(n, isSo, mayCome),
           isSo /\ ~run.failed => Learned(y, n) /\ Brought(y, n),
           ~isSo /\ (run.verifying \/ ~mayCome) => run.failed \/ ~run.able \/ run.faulted
    PROVE  InstallIInv'
<1>1. know' = know /\ config' = config /\ edits' = edits /\ faults' = faults
  BY DEF WaitsFor, Passes, Fails
<1>2. CASE isSo
  <2>1. run' = After(n, TRUE, FALSE)
    BY <1>2 DEF WaitsFor, Passes
  <2> QED
    BY <1>1, <1>2, <2>1, Looked
<1>3. CASE ~isSo /\ (run.verifying \/ ~mayCome)
  <2>1. run' = After(n, FALSE, FALSE)
    BY <1>3 DEF WaitsFor, Fails
  <2> QED
    BY <1>1, <1>3, <2>1, Looked
<1> QED
  BY <1>2, <1>3 DEF WaitsFor

(* What is before the step under way has been done where it is for.        *)
LEMMA Prior ==
    ASSUME InstallIInv, ~run.failed, run.steps # <<>>, NEW y, y = Head(run.steps),
           y \in Prompt \cup Applied, y # Repeated,
           NEW x \in Prompt \cup Applied, x \in Asked, x # Repeated, Base(x) < Base(y)
    PROVE  /\ x \in Once => /\ Brought(x, Server)
                            /\ (run.verifying => x \in Prompt) => Learned(x, Server)
           /\ x \in OnServers /\ Server \in run.nodes => Brought(x, Server)
           /\ x \in OnAgents => \A n \in run.nodes \ {Server} : Brought(x, n)
           /\ x \notin Once \cup OnServers \cup OnAgents =>
                 \A n \in run.nodes :
                    /\ Brought(x, n)
                    /\ (run.verifying => x \in Prompt) => Learned(x, n)
<1>1. \A n \in For(x) : Brought(x, n) /\ ((run.verifying => x \in Prompt) => Learned(x, n))
  BY Earlier
<1>2. RunInv
  BY DEF InstallIInv
<1>3. /\ x \in Once => For(x) = {Server}
      /\ x \in OnServers => For(x) = run.nodes \cap {Server}
      /\ x \in OnAgents => For(x) = run.nodes \ {Server}
      /\ x \notin Once \cup OnServers \cup OnAgents => For(x) = run.nodes
  BY <1>2, Fors DEF OnAgents
<1> QED
  BY <1>1, <1>3

\* The steps that are for every node of the run.
PerNode ==
    MeshSteps \cup {"find-node-ip", "wait-for-k3s", "verify-k3s", "verify-node-ip",
     "check-k3s-service", "write-registries-config", "restart-k3s", "verify-registry-access",
     "check-cluster-access", "apply-node-labels", "verify-node-labels",
     "install-nvidia-container-toolkit", "check-k3s-nvidia-runtime",
     "restart-k3s-for-nvidia", "check-nvidia-driver", "label-nvidia-driver",
     "verify-nvidia-runtime", "verify-node-ready", "check-gateway-interfaces"}

(* Where a node is that is at a step.                                      *)
LEMMA AtNode ==
    ASSUME InstallIInv, NEW n \in run.todo, NEW y, y = Head(run.steps)
    PROVE  /\ run.steps # <<>> /\ y \in Asked /\ n \in For(y) /\ n \in Node
           /\ run.conf \in Configs /\ RunInv
           /\ y \in PerNode => n \in run.nodes
           /\ y \in Once \cup RolesOf(run.conf) => n = Server /\ run.todo = {Server} /\ For(y) = {Server}
           /\ y \in OnServers => n = Server /\ Server \in run.nodes /\ run.todo = {Server}
           /\ y \in OnAgents => n # Server /\ n \in run.nodes
           /\ run.verifying => y \in Prompt
<1>1. /\ run.steps # <<>> /\ y \in Asked /\ n \in For(y) /\ n \in Node
      /\ run.conf \in Configs
      /\ run.verifying => y \in Prompt
  BY AtStep
<1>2. RunInv
  BY DEF InstallIInv
<1>3. PerNode \subseteq (Prompt \cup Applied) \ (Once \cup OnServers \cup OnAgents)
  BY DEF PerNode, MeshSteps, Prompt, Applied, Once, OnServers, OnAgents
<1>4. run.todo \subseteq For(y)
  BY <1>1, <1>2 DEF RunInv
<1>5. y \in PerNode => n \in run.nodes
  BY <1>1, <1>2, <1>3, Fors
<1>6. y \in Once \cup RolesOf(run.conf) => n = Server /\ run.todo = {Server} /\ For(y) = {Server}
  BY <1>1, <1>2, <1>4, Fors
<1>7. y \in OnServers => n = Server /\ Server \in run.nodes /\ run.todo = {Server}
  BY <1>1, <1>2, <1>4, Fors
<1>8. y \in OnAgents => n # Server /\ n \in run.nodes
  BY <1>1, <1>2, Fors DEF OnAgents
<1> QED
  BY <1>1, <1>2, <1>5, <1>6, <1>7, <1>8

UpSteps == {"wait-for-k3s", "verify-k3s", "verify-node-ip", "check-cluster-access",
            "wait-for-cilium", "verify-cilium", "verify-node-ready",
            "write-cluster-config"}

(* By the time K3s is waited for it is up, on the address it's meant to    *)
(* have.                                                                   *)
LEMMA K3sIsUp ==
    ASSUME InstallIInv, ~run.failed, run.steps # <<>>, Head(run.steps) \in UpSteps,
           NEW n \in run.nodes
    PROVE  k3s[n].up /\ k3s[n].address = AddressFor(run.conf, n)
<1> DEFINE y == Head(run.steps)
<1>1. RunInv /\ y \in Asked /\ run.conf \in Configs
  BY HeadIs DEF InstallIInv
<1>2. K3sSteps \subseteq Asked
  <2>1. y \in K3sSteps \cup ServiceSteps \cup InstallSteps \cup AddNodeSteps
    BY DEF UpSteps, K3sSteps, ServiceSteps, InstallSteps, AddNodeSteps
  <2> QED
    BY <1>1, <2>1, Together
<1>3. y \in Prompt \cup Applied /\ y # Repeated
  BY DEF UpSteps, Repeated, Prompt, Applied
<1>4. \A x \in {"install-k3s-server", "install-k3s-agent"} : Base(x) < Base(y)
  <2>1. \A s \in UpSteps : Base(s) > 23
    <3>1. /\ Base("wait-for-k3s") = 24 /\ Base("verify-k3s") = 25
          /\ Base("verify-node-ip") = 26 /\ Base("check-cluster-access") = 27
          /\ Base("wait-for-cilium") = 32 /\ Base("verify-cilium") = 33
          /\ Base("verify-node-ready") = 50 /\ Base("write-cluster-config") = 48
      BY Bases
    <3> QED
      BY <3>1 DEF UpSteps
  <2>2. Base("install-k3s-server") = 22 /\ Base("install-k3s-agent") = 23 /\ Base(y) \in Nat
    BY <1>3, Bases, BaseType
  <2> QED
    BY <2>1, <2>2
<1> HIDE DEF y
<1>5. CASE n = Server
  <2>1. /\ "install-k3s-server" \in Applied /\ "install-k3s-server" \in Asked
        /\ "install-k3s-server" \in OnServers /\ "install-k3s-server" # Repeated
    BY <1>2 DEF Applied, K3sSteps, OnServers, Repeated
  <2>2. Brought("install-k3s-server", Server)
    BY <1>3, <1>4, <1>5, <2>1, Prior DEF y
  <2> QED
    BY <1>1, <1>5, <2>2, BroughtIs
<1>6. CASE n # Server
  <2>1. /\ "install-k3s-agent" \in Applied /\ "install-k3s-agent" \in Asked
        /\ "install-k3s-agent" \in OnAgents /\ "install-k3s-agent" # Repeated
    BY <1>2 DEF Applied, K3sSteps, OnAgents, Repeated
  <2>2. Brought("install-k3s-agent", n)
    BY <1>3, <1>4, <1>6, <2>1, Prior DEF y
  <2> QED
    BY <1>1, <2>2, BroughtIs
<1> QED
  BY <1>5, <1>6

(* K3s is up when it is waited for: it was installed before.               *)
LEMMA WaitForK3sKeeps ==
    ASSUME InstallIInv, NEW n \in Node, WaitForK3s(n), UNCHANGED meshVars
    PROVE  InstallIInv'
<1>1. /\ n \in run.todo /\ Head(run.steps) = "wait-for-k3s" /\ WorldKept
      /\ WaitsFor(n, k3s[n].up, k3s[n].up)
  BY DEF WaitForK3s, Doing, At, WorldKept
<1>2. k3s[n].up \in BOOLEAN
  BY DEF InstallIInv, Typed, MachineType, K3sType
<1>3. run.steps # <<>> /\ n \in run.nodes /\ run.conf \in Configs
  BY <1>1, AtNode DEF PerNode
<1>4. Brought("wait-for-k3s", n) /\ Learned("wait-for-k3s", n)
  BY <1>3, InertSteps, MuteSteps DEF Mute, Inert
<1>5. ~run.failed => k3s[n].up
  BY <1>1, <1>3, K3sIsUp DEF UpSteps
<1>6. ~k3s[n].up => run.failed \/ ~run.able \/ run.faulted
  BY <1>5
<1> QED
  BY <1>1, <1>2, <1>4, <1>6, WaitsAround

(* So it is when it is verified; and a verification finds the node where   *)
(* the run that comes before it did.                                       *)
LEMMA VerifyK3sKeeps ==
    ASSUME InstallIInv, NEW n \in Node, VerifyK3s(n), UNCHANGED meshVars
    PROVE  InstallIInv'
<1> DEFINE isSo == k3s[n].up /\ IF n = Server THEN cluster.registered[n] # "none"
                                              ELSE k3s[n].credentials
<1>1. /\ n \in run.todo /\ Head(run.steps) = "verify-k3s" /\ WorldKept
      /\ WaitsFor(n, isSo, k3s[n].up)
  BY DEF VerifyK3s, Doing, At, WorldKept
<1>2. k3s[n].up \in BOOLEAN /\ isSo \in BOOLEAN
  BY DEF InstallIInv, Typed, MachineType, K3sType
<1>3. /\ run.steps # <<>> /\ "verify-k3s" \in Asked /\ n \in For("verify-k3s") /\ n \in run.nodes
      /\ run.conf \in Configs
  BY <1>1, AtNode DEF PerNode
<1>4. isSo => Brought("verify-k3s", n)
  BY <1>3, BroughtIs DEF Registered
<1>5. Learned("verify-k3s", n)
  BY MuteSteps DEF Mute
<1>6. ~run.failed => k3s[n].up
  BY <1>1, <1>3, K3sIsUp DEF UpSteps
<1>7. ~run.failed /\ run.verifying => Brought("verify-k3s", n)
  BY <1>3, Verified
<1>8. ~run.failed /\ run.verifying => isSo
  BY <1>3, <1>6, <1>7, BroughtIs DEF Registered
<1>9. ~isSo /\ (run.verifying \/ ~k3s[n].up) => run.failed \/ ~run.able \/ run.faulted
  BY <1>6, <1>8
<1> HIDE DEF isSo
<1> QED
  BY <1>1, <1>2, <1>4, <1>5, <1>9, WaitsAround

(* A node is registered on the address it was looked up to have: K3s was   *)
(* started on it, and joins on the address it is started on.               *)
LEMMA VerifyNodeIpKeeps ==
    ASSUME InstallIInv, NEW n \in Node, VerifyNodeIp(n), UNCHANGED meshVars
    PROVE  InstallIInv'
<1> DEFINE isSo == cluster.registered[n] = know[n].nodeIp
           address == AddressFor(run.conf, n)
<1>1. /\ n \in run.todo /\ Head(run.steps) = "verify-node-ip" /\ WorldKept
      /\ WaitsFor(n, isSo, ~k3s[n].joined) /\ know[n].nodeIp # "none"
  BY DEF VerifyNodeIp, Doing, At, WorldKept, NothingToDo
<1>2. (~k3s[n].joined) \in BOOLEAN /\ isSo \in BOOLEAN
  BY DEF InstallIInv, Typed, MachineType, K3sType
<1>3. /\ run.steps # <<>> /\ "verify-node-ip" \in Asked /\ n \in For("verify-node-ip")
      /\ n \in run.nodes /\ run.conf \in Configs
  BY <1>1, AtNode DEF PerNode
<1>4. ChecksAddress(run.conf, n) /\ know[n].nodeIp = address
  BY <1>1 DEF InstallIInv, KnowInv
<1>5. ~run.failed => k3s[n].address = address
  BY <1>1, <1>3, K3sIsUp DEF UpSteps
<1>6. isSo /\ ~run.failed => Brought("verify-node-ip", n)
  BY <1>3, <1>4, <1>5, BroughtIs
<1>7. Learned("verify-node-ip", n)
  BY MuteSteps DEF Mute
<1>8. ~run.failed /\ run.verifying => isSo
  <2>1. ~run.failed /\ run.verifying => Brought("verify-node-ip", n)
    BY <1>3, Verified
  <2> QED
    BY <1>3, <1>4, <2>1, BroughtIs
<1>9. ~run.failed /\ k3s[n].joined => isSo
  BY <1>4, <1>5 DEF InstallIInv, WorldInv
<1>10. ~isSo /\ (run.verifying \/ ~(~k3s[n].joined)) => run.failed \/ ~run.able \/ run.faulted
  BY <1>8, <1>9
<1> HIDE DEF isSo
<1> QED
  BY <1>1, <1>2, <1>6, <1>7, <1>10, WaitsAround

(* A node that labels are put on is registered, or its K3s is up and will  *)
(* be.                                                                     *)
LEMMA CheckClusterAccessKeeps ==
    ASSUME InstallIInv, NEW n \in Node, CheckClusterAccess(n), UNCHANGED meshVars
    PROVE  InstallIInv'
<1> DEFINE isSo == cluster.registered[n] # "none"
<1>1. /\ n \in run.todo /\ Head(run.steps) = "check-cluster-access" /\ WorldKept
      /\ WaitsFor(n, isSo, k3s[n].up)
  BY DEF CheckClusterAccess, Doing, At, WorldKept
<1>2. k3s[n].up \in BOOLEAN /\ isSo \in BOOLEAN
  BY DEF InstallIInv, Typed, MachineType, K3sType
<1>3. /\ run.steps # <<>> /\ "check-cluster-access" \in Asked /\ n \in For("check-cluster-access")
      /\ n \in run.nodes /\ run.conf \in Configs
  BY <1>1, AtNode DEF PerNode
<1>4. isSo <=> Brought("check-cluster-access", n)
  BY <1>3, BroughtIs DEF Registered
<1>5. Learned("check-cluster-access", n)
  BY MuteSteps DEF Mute
<1>6. ~run.failed => k3s[n].up
  BY <1>1, <1>3, K3sIsUp DEF UpSteps
<1>7. ~run.failed /\ run.verifying => isSo
  BY <1>3, <1>4, Verified
<1>8. ~isSo /\ (run.verifying \/ ~k3s[n].up) => run.failed \/ ~run.able \/ run.faulted
  BY <1>6, <1>7
<1> HIDE DEF isSo
<1> QED
  BY <1>1, <1>2, <1>4, <1>5, <1>8, WaitsAround

(* An added node gets ready, its K3s being up.                             *)
LEMMA VerifyNodeReadyKeeps ==
    ASSUME InstallIInv, NEW n \in Node, VerifyNodeReady(n), UNCHANGED meshVars
    PROVE  InstallIInv'
<1> DEFINE isSo == Ready(n)
<1>1. /\ n \in run.todo /\ Head(run.steps) = "verify-node-ready" /\ WorldKept
      /\ WaitsFor(n, isSo, k3s[n].up)
  BY DEF VerifyNodeReady, Doing, At, WorldKept
<1>2. k3s[n].up \in BOOLEAN /\ isSo \in BOOLEAN
  BY DEF InstallIInv, Typed, MachineType, K3sType, Ready
<1>3. /\ run.steps # <<>> /\ "verify-node-ready" \in Asked /\ n \in For("verify-node-ready")
      /\ n \in run.nodes /\ run.conf \in Configs
  BY <1>1, AtNode DEF PerNode
<1>4. isSo <=> Brought("verify-node-ready", n)
  BY <1>3, BroughtIs
<1>5. Learned("verify-node-ready", n)
  BY MuteSteps DEF Mute
<1>6. ~run.failed => k3s[n].up
  BY <1>1, <1>3, K3sIsUp DEF UpSteps
<1>7. ~run.failed /\ run.verifying => isSo
  BY <1>3, <1>4, Verified
<1>8. ~isSo /\ (run.verifying \/ ~k3s[n].up) => run.failed \/ ~run.able \/ run.faulted
  BY <1>6, <1>7
<1> HIDE DEF isSo
<1> QED
  BY <1>1, <1>2, <1>4, <1>5, <1>8, WaitsAround

(* The steps each step rests on: always asked for along with it, or of     *)
(* another bundle.                                                         *)
RestsOn ==
    {<<"create-nebula-host", "list-nebula-roles">>,
     <<"create-nebula-host", "find-nebula-host">>,
     <<"create-nebula-enrollment-code", "create-nebula-host">>,
     <<"add-nebula-ipv4-address", "find-nebula-host">>,
     <<"add-nebula-ipv4-address", "create-nebula-host">>,
     <<"enroll-nebula-host", "create-nebula-enrollment-code">>,
     <<"enroll-nebula-host", "install-dnclient">>,
     <<"verify-nebula-host", "find-nebula-host">>,
     <<"verify-nebula-host", "add-nebula-ipv4-address">>,
     <<"verify-nebula-host", "enroll-nebula-host">>,
     <<"restart-k3s", "check-k3s-service">>,
     <<"restart-k3s", "write-registries-config">>,
     <<"verify-authentication-config", "write-authentication-config">>,
     <<"verify-node-ip", "find-node-ip">>,
     <<"verify-node-labels", "apply-node-labels">>,
     <<"verify-gateway", "apply-lb-ip-pool">>,
     <<"verify-cluster-gateway", "apply-lb-ip-pool">>,
     <<"verify-cluster-gateway", "apply-cluster-gateway">>,
     <<"check-k3s-nvidia-runtime", "install-nvidia-container-toolkit">>,
     <<"restart-k3s-for-nvidia", "write-registries-config">>,
     <<"restart-k3s-for-nvidia", "install-nvidia-container-toolkit">>,
     <<"restart-k3s-for-nvidia", "check-k3s-nvidia-runtime">>,
     <<"verify-nvidia-runtime", "restart-k3s-for-nvidia">>,
     <<"label-nvidia-driver", "check-nvidia-driver">>,
     <<"label-gateway-nodes", "check-cluster-access">>,
     <<"write-cluster-config", "check-cluster-access">>,
     <<"write-cluster-config", "apply-node-labels">>,
     <<"write-cluster-config", "apply-lb-ip-pool">>,
     <<"write-cluster-config", "apply-l2-announcement">>,
     <<"write-cluster-config", "apply-cluster-gateway">>,
     <<"verify-cluster-config", "write-cluster-config">>}

RestsOnAnother ==
    {<<"list-nebula-roles", "verify-nebula-roles">>,
     <<"find-node-ip", "verify-nebula-host">>,
     <<"install-k3s-server", "write-registries-config">>,
     <<"install-k3s-agent", "write-registries-config">>,
     <<"check-gateway-support", "install-cilium">>,
     <<"verify-cluster-gateway", "install-cilium">>}

(* A step comes after those it rests on.                                   *)
LEMMA RestsOnEarlier ==
    ASSUME NEW y, NEW x, <<y, x>> \in RestsOn \cup RestsOnAnother
    PROVE  /\ x \in Prompt \cup Applied /\ x # Repeated
           /\ y \in Prompt \cup Applied /\ y # Repeated
           /\ Base(x) < Base(y)
<1>1. /\ x \in Prompt \cup Applied /\ x # Repeated
      /\ y \in Prompt \cup Applied /\ y # Repeated
  BY DEF RestsOn, RestsOnAnother, Prompt, Applied, Repeated
<1>2. CASE <<y, x>> \in RestsOnAnother
  <2>1. /\ Base("list-nebula-roles") = 6
        /\ Base("verify-nebula-roles") = 3
        /\ Base("find-node-ip") = 19
        /\ Base("verify-nebula-host") = 14
        /\ Base("install-k3s-server") = 22
        /\ Base("write-registries-config") = 16
        /\ Base("install-k3s-agent") = 23
        /\ Base("check-gateway-support") = 35
        /\ Base("install-cilium") = 31
        /\ Base("verify-cluster-gateway") = 41
    BY Bases
  <2>2. \/ y = "list-nebula-roles" /\ x = "verify-nebula-roles"
        \/ y = "find-node-ip" /\ x = "verify-nebula-host"
        \/ y = "install-k3s-server" /\ x = "write-registries-config"
        \/ y = "install-k3s-agent" /\ x = "write-registries-config"
        \/ y = "check-gateway-support" /\ x = "install-cilium"
        \/ y = "verify-cluster-gateway" /\ x = "install-cilium"
    BY <1>2 DEF RestsOnAnother
  <2> QED
    BY <1>1, <2>1, <2>2
<1>3. CASE <<y, x>> \in RestsOn
  <2>1. /\ Base("create-nebula-host") = 8
        /\ Base("list-nebula-roles") = 6
        /\ Base("find-nebula-host") = 7
        /\ Base("create-nebula-enrollment-code") = 9
        /\ Base("add-nebula-ipv4-address") = 10
        /\ Base("enroll-nebula-host") = 12
        /\ Base("install-dnclient") = 11
        /\ Base("verify-nebula-host") = 14
        /\ Base("restart-k3s") = 17
        /\ Base("check-k3s-service") = 15
        /\ Base("write-registries-config") = 16
        /\ Base("verify-authentication-config") = 21
        /\ Base("write-authentication-config") = 20
        /\ Base("verify-node-ip") = 26
        /\ Base("find-node-ip") = 19
        /\ Base("verify-node-labels") = 29
        /\ Base("apply-node-labels") = 28
        /\ Base("verify-gateway") = 39
        /\ Base("apply-lb-ip-pool") = 37
        /\ Base("verify-cluster-gateway") = 41
        /\ Base("apply-cluster-gateway") = 40
        /\ Base("check-k3s-nvidia-runtime") = 43
        /\ Base("install-nvidia-container-toolkit") = 42
        /\ Base("restart-k3s-for-nvidia") = 44
        /\ Base("verify-nvidia-runtime") = 47
        /\ Base("label-nvidia-driver") = 46
        /\ Base("check-nvidia-driver") = 45
        /\ Base("label-gateway-nodes") = 36
        /\ Base("check-cluster-access") = 27
        /\ Base("write-cluster-config") = 48
        /\ Base("apply-l2-announcement") = 38
        /\ Base("verify-cluster-config") = 49
    BY Bases
  <2>2. \/ y = "create-nebula-host" /\ x = "list-nebula-roles"
        \/ y = "create-nebula-host" /\ x = "find-nebula-host"
        \/ y = "create-nebula-enrollment-code" /\ x = "create-nebula-host"
        \/ y = "add-nebula-ipv4-address" /\ x = "find-nebula-host"
        \/ y = "add-nebula-ipv4-address" /\ x = "create-nebula-host"
        \/ y = "enroll-nebula-host" /\ x = "create-nebula-enrollment-code"
        \/ y = "enroll-nebula-host" /\ x = "install-dnclient"
        \/ y = "verify-nebula-host" /\ x = "find-nebula-host"
        \/ y = "verify-nebula-host" /\ x = "add-nebula-ipv4-address"
        \/ y = "verify-nebula-host" /\ x = "enroll-nebula-host"
        \/ y = "restart-k3s" /\ x = "check-k3s-service"
        \/ y = "restart-k3s" /\ x = "write-registries-config"
        \/ y = "verify-authentication-config" /\ x = "write-authentication-config"
        \/ y = "verify-node-ip" /\ x = "find-node-ip"
        \/ y = "verify-node-labels" /\ x = "apply-node-labels"
        \/ y = "verify-gateway" /\ x = "apply-lb-ip-pool"
        \/ y = "verify-cluster-gateway" /\ x = "apply-lb-ip-pool"
        \/ y = "verify-cluster-gateway" /\ x = "apply-cluster-gateway"
        \/ y = "check-k3s-nvidia-runtime" /\ x = "install-nvidia-container-toolkit"
        \/ y = "restart-k3s-for-nvidia" /\ x = "write-registries-config"
        \/ y = "restart-k3s-for-nvidia" /\ x = "install-nvidia-container-toolkit"
        \/ y = "restart-k3s-for-nvidia" /\ x = "check-k3s-nvidia-runtime"
        \/ y = "verify-nvidia-runtime" /\ x = "restart-k3s-for-nvidia"
        \/ y = "label-nvidia-driver" /\ x = "check-nvidia-driver"
        \/ y = "label-gateway-nodes" /\ x = "check-cluster-access"
        \/ y = "write-cluster-config" /\ x = "check-cluster-access"
        \/ y = "write-cluster-config" /\ x = "apply-node-labels"
        \/ y = "write-cluster-config" /\ x = "apply-lb-ip-pool"
        \/ y = "write-cluster-config" /\ x = "apply-l2-announcement"
        \/ y = "write-cluster-config" /\ x = "apply-cluster-gateway"
        \/ y = "verify-cluster-config" /\ x = "write-cluster-config"
    BY <1>3 DEF RestsOn
  <2> QED
    BY <1>1, <2>1, <2>2
<1> QED
  BY <1>1, <1>2, <1>3

(* And is never asked for without those of its own bundle.                 *)
LEMMA RestsOnAsked ==
    ASSUME RunInv, NEW y \in Asked, NEW x, <<y, x>> \in RestsOn
    PROVE  x \in Asked
<1>1. \/ y \in MeshSteps /\ x \in MeshSteps
      \/ y \in SignInSteps /\ x \in SignInSteps
      \/ y \in K3sSteps /\ x \in K3sSteps
      \/ y \in ServiceSteps /\ x \in ServiceSteps
      \/ y \in InstallSteps /\ x \in InstallSteps \cup ServiceSteps
  BY DEF RestsOn, MeshSteps, SignInSteps, K3sSteps, ServiceSteps, InstallSteps
<1> QED
  BY <1>1, Together

(* So it has been done, by the time a node is at the step that rests on it. *)
LEMMA Follows ==
    ASSUME InstallIInv, ~run.failed, run.steps # <<>>,
           NEW y, y = Head(run.steps), NEW x,
           <<y, x>> \in RestsOn \/ (<<y, x>> \in RestsOnAnother /\ x \in Asked)
    PROVE  /\ x \in Once => Brought(x, Server)
           /\ x \in OnServers /\ Server \in run.nodes => Brought(x, Server)
           /\ x \in PerNode =>
                 \A n \in run.nodes :
                    /\ Brought(x, n)
                    /\ (run.verifying => x \in Prompt) => Learned(x, n)
<1>1. RunInv /\ y \in Asked
  BY HeadIs DEF InstallIInv
<1>2. x \in Asked
  BY <1>1, RestsOnAsked
<1>3. /\ x \in Prompt \cup Applied /\ x # Repeated
      /\ y \in Prompt \cup Applied /\ y # Repeated
      /\ Base(x) < Base(y)
  BY RestsOnEarlier
<1>4. x \in PerNode => x \notin Once \cup OnServers \cup OnAgents
  BY DEF PerNode, MeshSteps, Once, OnServers, OnAgents
<1> QED
  BY <1>2, <1>3, <1>4, Prior

-----------------------------------------------------------------------------
(* A node has the labels it was given, if it is a gateway or not.          *)
LEMMA VerifyNodeLabelsKeeps ==
    ASSUME InstallIInv, NEW n \in Node, VerifyNodeLabels(n), UNCHANGED meshVars
    PROVE  InstallIInv'
<1> DEFINE isSo == cluster.gateways = LabelledAsMeant(n)
<1>1. /\ n \in run.todo /\ Head(run.steps) = "verify-node-labels" /\ WorldKept
      /\ Looks(n, isSo, know[n])
  BY DEF VerifyNodeLabels, Doing, At, WorldKept
<1>2. run.steps # <<>> /\ n \in run.nodes /\ run.conf \in Configs
  BY <1>1, AtNode DEF PerNode
<1>3. Brought("verify-node-labels", n) /\ Learned("verify-node-labels", n)
  BY <1>2, InertSteps, MuteSteps DEF Mute, Inert
<1>4. ~run.failed => Brought("apply-node-labels", n)
  BY <1>1, <1>2, Follows DEF RestsOn, PerNode
<1>5. ~isSo => run.failed \/ ~run.able \/ run.faulted
  <2>1. SUFFICES ASSUME ~run.failed
                 PROVE  isSo
    OBVIOUS
  <2>2. Brought("apply-node-labels", n) <=> (n \in cluster.gateways <=> n \in run.conf.gateways)
    BY <1>2, BroughtIs
  <2>3. n \in cluster.gateways <=> n \in run.conf.gateways
    BY <1>4, <2>1, <2>2
  <2> QED
    BY <2>3 DEF LabelledAsMeant
<1>6. isSo \in BOOLEAN
  OBVIOUS
<1> HIDE DEF isSo
<1> QED
  BY <1>1, <1>3, <1>5, <1>6, LooksAround

(* A node with a GPU has the toolkit, and a K3s that was started since.    *)
LEMMA VerifyRuntimeKeeps ==
    ASSUME InstallIInv, NEW n \in Node, VerifyRuntime(n), UNCHANGED meshVars
    PROVE  InstallIInv'
<1> DEFINE isSo == disk[n].toolkit /\ (k3s[n].up => k3s[n].runtime)
<1>1. /\ n \in run.todo /\ Head(run.steps) = "verify-nvidia-runtime" /\ WorldKept
      /\ Looks(n, isSo, know[n])
  BY DEF VerifyRuntime, Doing, At, WorldKept
<1>2. n \in Gpu
  <2>1. Nvidia[6] = "verify-nvidia-runtime" /\ 6 \in DOMAIN Nvidia
    BY DEF Nvidia
  <2> QED
    BY <2>1 DEF VerifyRuntime, Doing, NothingToDo
<1>3. run.steps # <<>> /\ n \in run.nodes /\ run.conf \in Configs
  BY <1>1, AtNode DEF PerNode
<1>4. Brought("verify-nvidia-runtime", n) /\ Learned("verify-nvidia-runtime", n)
  BY <1>3, InertSteps, MuteSteps DEF Mute, Inert
<1>5. ~run.failed => Brought("restart-k3s-for-nvidia", n)
  BY <1>1, <1>3, Follows DEF RestsOn, PerNode
<1>6. ~isSo => run.failed \/ ~run.able \/ run.faulted
  BY <1>2, <1>3, <1>5, BroughtIs DEF RuntimeLoaded
<1>7. isSo \in BOOLEAN
  BY DEF InstallIInv, Typed, MachineType, K3sType, DiskType
<1> HIDE DEF isSo
<1> QED
  BY <1>1, <1>4, <1>6, <1>7, LooksAround

(* That a registry refuses a login isn't held against a run.               *)
LEMMA VerifyRegistryAccessKeeps ==
    ASSUME InstallIInv, NEW n \in Node, VerifyRegistryAccess(n), UNCHANGED meshVars
    PROVE  InstallIInv'
<1>1. /\ n \in run.todo /\ Head(run.steps) = "verify-registry-access" /\ WorldKept
      /\ Looks(n, TRUE, know[n])
  BY DEF VerifyRegistryAccess, Doing, At, WorldKept
<1>2. run.conf \in Configs
  BY <1>1, AtNode
<1>3. Brought("verify-registry-access", n) /\ Learned("verify-registry-access", n)
  BY <1>2, InertSteps, MuteSteps DEF Mute, Inert
<1> QED
  BY <1>1, <1>3, LooksAround

(* A floating address is on the gateways of the run, or stands in its      *)
(* way.                                                                    *)
LEMMA CheckGatewayInterfacesKeeps ==
    ASSUME InstallIInv, NEW n \in Node, CheckGatewayInterfaces(n), UNCHANGED meshVars
    PROVE  InstallIInv'
<1> DEFINE isSo == run.conf.mode = "floating" => n \in Held
<1>1. /\ n \in run.todo /\ Head(run.steps) = "check-gateway-interfaces" /\ WorldKept
      /\ Looks(n, isSo, know[n]) /\ n \in run.conf.gateways
  BY DEF CheckGatewayInterfaces, Doing, At, WorldKept, NothingToDo
<1>2. n \in run.nodes /\ run.conf \in Configs
  BY <1>1, AtNode DEF PerNode
<1>3. Brought("check-gateway-interfaces", n) /\ Learned("check-gateway-interfaces", n)
  BY <1>2, InertSteps, MuteSteps DEF Mute, Inert
<1>4. ~isSo => run.failed \/ ~run.able \/ run.faulted
  BY <1>1, <1>2 DEF InstallIInv, AbleInv
<1>5. isSo \in BOOLEAN
  OBVIOUS
<1> HIDE DEF isSo
<1> QED
  BY <1>1, <1>3, <1>4, <1>5, LooksAround

(* The file was written before it is verified; the flag is there, or       *)
(* stands in the run's way.                                                *)
LEMMA VerifyAuthenticationConfigKeeps ==
    ASSUME InstallIInv, VerifyAuthenticationConfig, UNCHANGED meshVars
    PROVE  InstallIInv'
<1> DEFINE isSo == disk[Server].auth = run.conf.clients /\ (k3s[Server].flag \/ byHand)
<1>1. /\ Server \in run.todo /\ Head(run.steps) = "verify-authentication-config" /\ WorldKept
      /\ Looks(Server, isSo, know[Server])
  BY DEF VerifyAuthenticationConfig, Doing, At, WorldKept
<1>2. run.conf.clients # 0
  <2>1. SignIn[2] = "verify-authentication-config"
    BY DEF SignIn
  <2> QED
    BY <2>1 DEF VerifyAuthenticationConfig, Doing, NothingToDo
<1>3. run.steps # <<>> /\ Server \in run.nodes /\ run.conf \in Configs /\ Server \in Node
  BY <1>1, AtNode DEF OnServers
<1>4. isSo => Brought("verify-authentication-config", Server)
  BY <1>3, BroughtIs
<1>5. Learned("verify-authentication-config", Server)
  BY MuteSteps DEF Mute
<1>6. ~run.failed => Brought("write-authentication-config", Server)
  BY <1>1, <1>3, Follows DEF RestsOn, OnServers
<1>7. ~run.failed => disk[Server].auth = run.conf.clients
  BY <1>2, <1>3, <1>6, BroughtIs
<1>8. run.able => k3s[Server].flag \/ byHand
  BY <1>2 DEF InstallIInv, AbleInv
<1>9. ~isSo => run.failed \/ ~run.able \/ run.faulted
  BY <1>7, <1>8
<1>10. isSo \in BOOLEAN
  BY <1>3 DEF InstallIInv, Typed, MachineType, K3sType
<1> HIDE DEF isSo
<1> QED
  BY <1>1, <1>4, <1>5, <1>9, <1>10, LooksAround

(* The server a node is added to is up, or stands in the way.              *)
LEMMA CheckClusterOnlineKeeps ==
    ASSUME InstallIInv, CheckClusterOnline, UNCHANGED meshVars
    PROVE  InstallIInv'
<1>1. /\ Server \in run.todo /\ Head(run.steps) = "check-cluster-online" /\ WorldKept
      /\ Looks(Server, ServerUp, know[Server])
  BY DEF CheckClusterOnline, Doing, At, WorldKept
<1>2. run.conf \in Configs /\ "check-cluster-online" \in Asked /\ Server \in Node /\ RunInv
  BY <1>1, AtNode
<1>3. ServerUp => Brought("check-cluster-online", Server)
  BY <1>2, BroughtIs
<1>4. Learned("check-cluster-online", Server)
  BY MuteSteps DEF Mute
<1>5. run.what = "add-node"
  BY <1>2, Together DEF AddNodeSteps
<1>6. ~ServerUp => run.failed \/ ~run.able \/ run.faulted
  BY <1>5 DEF InstallIInv, AbleInv
<1>7. ServerUp \in BOOLEAN
  BY <1>2 DEF InstallIInv, Typed, MachineType, K3sType, ServerUp
<1> QED
  BY <1>1, <1>3, <1>4, <1>6, <1>7, LooksAround

(* The record was written before it is verified, and nobody else writes    *)
(* it.                                                                     *)
LEMMA VerifyClusterConfigKeeps ==
    ASSUME InstallIInv, VerifyClusterConfig, UNCHANGED meshVars
    PROVE  InstallIInv'
<1> DEFINE isSo == cluster.record = {run.conf}
<1>1. /\ Server \in run.todo /\ Head(run.steps) = "verify-cluster-config" /\ WorldKept
      /\ Looks(Server, isSo, know[Server])
  BY DEF VerifyClusterConfig, Doing, At, WorldKept
<1>2. run.conf \in Configs /\ run.steps # <<>>
  BY <1>1, AtNode
<1>3. Brought("verify-cluster-config", Server) /\ Learned("verify-cluster-config", Server)
  BY <1>2, InertSteps, MuteSteps DEF Mute, Inert
<1>4. ~run.failed => Brought("write-cluster-config", Server)
  BY <1>1, <1>2, Follows DEF RestsOn, Once
<1>5. ~isSo => run.failed \/ ~run.able \/ run.faulted
  BY <1>2, <1>4, BroughtIs
<1>6. isSo \in BOOLEAN
  OBVIOUS
<1> HIDE DEF isSo
<1> QED
  BY <1>1, <1>3, <1>5, <1>6, LooksAround

(* Once Cilium has been installed, or there is a cluster to add a node to. *)
LEMMA CiliumIsThere ==
    ASSUME InstallIInv, run.steps # <<>>,
           Head(run.steps) \in {"check-gateway-support", "verify-cluster-gateway"},
           run.able, ~run.faulted
    PROVE  cluster.cilium = "with controller"
<1>1. RunInv /\ run.conf \in Configs /\ ~run.failed
  BY HeadIs, Standing DEF InstallIInv
<1>2. CASE run.what = "add-node"
  BY <1>2 DEF InstallIInv, AbleInv
<1>3. CASE run.what = "install"
  <2>1. "install-cilium" \in Asked
    BY <1>1, <1>3, Together DEF InstallSteps
  <2>2. Brought("install-cilium", Server)
    BY <1>1, <2>1, Follows DEF RestsOnAnother, Once
  <2>3. cluster.cilium # "absent"
    BY <1>1, <2>2, BroughtIs
  <2> QED
    BY <2>3 DEF InstallIInv, WorldInv, Typed, MachineType, ClusterType
<1> QED
  BY <1>2, <1>3, Standing

(* Cilium is there to support a gateway.                                   *)
LEMMA CheckGatewaySupportKeeps ==
    ASSUME InstallIInv, CheckGatewaySupport, UNCHANGED meshVars
    PROVE  InstallIInv'
<1> DEFINE isSo == cluster.cilium # "absent"
<1>1. /\ Server \in run.todo /\ Head(run.steps) = "check-gateway-support" /\ WorldKept
      /\ Looks(Server, isSo, know[Server])
  BY DEF CheckGatewaySupport, Doing, At, WorldKept
<1>2. run.conf \in Configs /\ run.steps # <<>>
  BY <1>1, AtNode
<1>3. Brought("check-gateway-support", Server) /\ Learned("check-gateway-support", Server)
  BY <1>2, InertSteps, MuteSteps DEF Mute, Inert
<1>4. ~isSo => run.failed \/ ~run.able \/ run.faulted
  <2>1. run.able \in BOOLEAN /\ run.faulted \in BOOLEAN
    BY <1>1, AtStep DEF RunType
  <2> QED
    BY <1>1, <1>2, <2>1, CiliumIsThere
<1>5. isSo \in BOOLEAN
  OBVIOUS
<1> HIDE DEF isSo
<1> QED
  BY <1>1, <1>3, <1>4, <1>5, LooksAround

(* The addresses were handed out before they are verified.                 *)
LEMMA VerifyGatewayKeeps ==
    ASSUME InstallIInv, VerifyGateway, UNCHANGED meshVars
    PROVE  InstallIInv'
<1> DEFINE isSo == cluster.pool # {}
<1>1. /\ Server \in run.todo /\ Head(run.steps) = "verify-gateway" /\ WorldKept
      /\ WaitsFor(Server, isSo, FALSE) /\ HasGateway(run.conf)
  BY DEF VerifyGateway, Doing, At, WorldKept, NothingToDo
<1>2. run.conf \in Configs /\ run.steps # <<>>
  BY <1>1, AtNode
<1>3. Brought("verify-gateway", Server) /\ Learned("verify-gateway", Server)
  BY <1>2, InertSteps, MuteSteps DEF Mute, Inert
<1>4. ~run.failed => Brought("apply-lb-ip-pool", Server)
  BY <1>1, <1>2, Follows DEF RestsOn, Once
<1>5. ~isSo => run.failed \/ ~run.able \/ run.faulted
  BY <1>1, <1>2, <1>4, BroughtIs DEF HasGateway
<1>6. isSo \in BOOLEAN
  OBVIOUS
<1> HIDE DEF isSo
<1> QED
  BY <1>1, <1>3, <1>5, <1>6, WaitsAround

(* The gateway's addresses are those of the pool, and Cilium, installed    *)
(* after the Gateway API, has a controller for it.                         *)
LEMMA VerifyClusterGatewayKeeps ==
    ASSUME InstallIInv, VerifyClusterGateway, UNCHANGED meshVars
    PROVE  InstallIInv'
<1> DEFINE isSo == /\ cluster.cilium = "with controller"
                   /\ cluster.gateway # {} /\ cluster.gateway \subseteq cluster.pool
<1>1. /\ Server \in run.todo /\ Head(run.steps) = "verify-cluster-gateway" /\ WorldKept
      /\ WaitsFor(Server, isSo, FALSE) /\ HasGateway(run.conf)
  BY DEF VerifyClusterGateway, Doing, At, WorldKept, NothingToDo
<1>2. run.conf \in Configs /\ run.steps # <<>>
  BY <1>1, AtNode
<1>3. Brought("verify-cluster-gateway", Server) /\ Learned("verify-cluster-gateway", Server)
  BY <1>2, InertSteps, MuteSteps DEF Mute, Inert
<1>4. ~run.failed => Brought("apply-lb-ip-pool", Server) /\ Brought("apply-cluster-gateway", Server)
  BY <1>1, <1>2, Follows DEF RestsOn, Once
<1>5. ~run.failed => cluster.gateway = Addresses(run.conf) /\ cluster.pool = Addresses(run.conf)
  BY <1>1, <1>2, <1>4, BroughtIs
<1>6. ~isSo => run.failed \/ ~run.able \/ run.faulted
  <2>1. run.able \in BOOLEAN /\ run.faulted \in BOOLEAN
    BY <1>1, AtStep DEF RunType
  <2> QED
    BY <1>1, <1>2, <1>5, <2>1, CiliumIsThere DEF HasGateway
<1>7. isSo \in BOOLEAN
  OBVIOUS
<1> HIDE DEF isSo
<1> QED
  BY <1>1, <1>3, <1>6, <1>7, WaitsAround

(* The nodes Cilium is waited for on have their K3s up: those of the run   *)
(* since its installation, the others from before it.                      *)
LEMMA WaitForCiliumKeeps ==
    ASSUME InstallIInv, NEW step \in {"wait-for-cilium", "verify-cilium"}, WaitForCilium(step),
           UNCHANGED meshVars
    PROVE  InstallIInv'
<1> DEFINE isSo == \A n \in Registered : Ready(n)
           mayCome == \A n \in Registered : k3s[n].up
<1>1. /\ Server \in run.todo /\ Head(run.steps) = step /\ WorldKept
      /\ WaitsFor(Server, isSo, mayCome)
  BY DEF WaitForCilium, Doing, At, WorldKept
<1>2. /\ run.conf \in Configs /\ run.steps # <<>> /\ step \in Asked /\ Server \in For(step)
      /\ RunInv
      /\ run.verifying => step \in Prompt
  BY <1>1, AtNode
<1>3. Learned(step, Server)
  BY MuteSteps DEF Mute
<1>4. isSo => Brought(step, Server)
  <2>1. CASE step = "wait-for-cilium"
    BY <1>2, <2>1, InertSteps DEF Inert
  <2>2. CASE step = "verify-cilium"
    BY <1>2, <2>2, BroughtIs
  <2> QED
    BY <1>1, <2>1, <2>2
<1>5. ~run.failed /\ run.verifying => isSo
  <2>1. SUFFICES ASSUME ~run.failed, run.verifying PROVE isSo
    OBVIOUS
  <2>2. step = "verify-cilium"
    BY <1>2, <2>1 DEF Prompt
  <2>3. Brought("verify-cilium", Server)
    BY <1>2, <2>1, <2>2, Verified
  <2> QED
    BY <1>2, <2>3, BroughtIs
<1>6. run.able /\ ~run.faulted => mayCome
  <2>1. SUFFICES ASSUME run.able, ~run.faulted, NEW n \in Registered PROVE k3s[n].up
    OBVIOUS
  <2>2. run.what = "install" /\ ~run.failed
    BY <1>2, <2>1, Together, Standing DEF InstallSteps
  <2>3. CASE n \in run.nodes
    BY <1>1, <1>2, <2>2, <2>3, K3sIsUp DEF UpSteps
  <2>4. CASE n \notin run.nodes
    BY <2>1, <2>2, <2>4 DEF InstallIInv, AbleInv
  <2> QED
    BY <2>3, <2>4
<1>7. run.able /\ ~run.faulted => ~run.failed
  BY Standing
<1>8. run.able \in BOOLEAN /\ run.faulted \in BOOLEAN /\ isSo \in BOOLEAN /\ mayCome \in BOOLEAN
  BY <1>1, AtStep DEF RunType
<1> HIDE DEF isSo, mayCome
<1>9. ~isSo /\ (run.verifying \/ ~mayCome) => run.failed \/ ~run.able \/ run.faulted
  BY <1>5, <1>6, <1>7, <1>8
<1> QED
  BY <1>1, <1>3, <1>4, <1>8, <1>9, WaitsAround

-----------------------------------------------------------------------------
(* Steps that learn something                                              *)

\* What k says of node n is so.
KnowsTruly(k, n) ==
    /\ k.roles \subseteq Existing
    /\ k.enrolled => client[n].as # "none"
    /\ k.host # "none" => \E h \in hosts : h.node = n /\ h.name = k.host
    /\ k.code => k.host # "none"
    /\ k.ipv4 => \E h \in hosts : h.node = n /\ h.ipv4
    /\ k.nodeIp # "none" => ChecksAddress(run.conf, n) /\ k.nodeIp = AddressFor(run.conf, n)
    /\ k.active => k3s[n].up
    /\ k.stale => k3s[n].up

\* What a run that is through a step has learned, if it knows k of node n.
Knowing(step, k, n) ==
    /\ step = "list-roles-once" => Existing \subseteq k.roles
    /\ step = "list-nebula-roles" => (run.able => DefaultRole \in k.roles)
    /\ step = "find-nebula-host" =>
          \A h \in HostsOf(n) : k.host = h.name /\ (k.ipv4 <=> h.ipv4)
    /\ step = "create-nebula-host" => k.host # "none"
    /\ step = "create-nebula-enrollment-code" => k.enrolled \/ k.code
    /\ step = "check-k3s-service" => k.active \/ Loaded(n)
    /\ step = "find-node-ip" => (ChecksAddress(run.conf, n) => k.nodeIp = AddressFor(run.conf, n))
    /\ step = "check-k3s-nvidia-runtime" =>
          (n \in Gpu => k.stale \/ (disk[n].toolkit /\ RuntimeLoaded(n)))
    /\ step = "check-nvidia-driver" => (n \in Gpu => (k.driver <=> disk[n].driver))

(* What a run has learned is what it knows of the node.                    *)
LEMMA KnowingIs ==
    ASSUME NEW x, NEW n
    PROVE  Learned(x, n) <=> Knowing(x, know[n], n)
BY DEF Learned, Knowing, KnowsRoles, KnowsHost, KnowsAddress

(* That what is known is true is that of every node.                       *)
LEMMA TrulyIs == KnowInv <=> \A n \in Node : KnowsTruly(know[n], n)
BY DEF KnowInv, KnowsTruly

(* A step that looks, and learns something true that takes nothing from    *)
(* what was learned before.                                                *)
LEMMA Learns ==
    ASSUME InstallIInv, WorldKept, NEW n \in run.todo, NEW y, y = Head(run.steps),
           NEW isSo \in BOOLEAN, NEW k \in KnowledgeType, Looks(n, isSo, k),
           isSo => /\ KnowsTruly(k, n)
                   /\ \A x : x # y /\ Knowing(x, know[n], n) => Knowing(x, k, n)
                   /\ y \in {"list-roles-once", "find-node-ip"} => Knowing(y, k, n)
                   /\ ~run.failed => Knowing(y, k, n) /\ Brought(y, n),
           ~isSo => run.failed \/ ~run.able \/ run.faulted
    PROVE  InstallIInv'
<1>1. config' = config /\ edits' = edits /\ faults' = faults
  BY DEF Looks, Passes, Fails
<1>2. CASE ~isSo
  <2>1. run' = After(n, FALSE, FALSE) /\ know' = know
    BY <1>2 DEF Looks, Fails
  <2> QED
    BY <1>1, <1>2, <2>1, Looked
<1>3. CASE isSo
  <2>1. run' = After(n, TRUE, FALSE) /\ know' = [know EXCEPT ![n] = k]
    BY <1>3 DEF Looks, Passes
  <2>2. RunInv /\ KnowType /\ KnowInv
    BY DEF InstallIInv, Typed
  <2>3. SameRun(run', run) /\ n \in Node
    BY <1>1, <2>1, <2>2, Moved
  <2>4. know'[n] = k /\ \A m \in Node : m # n => know'[m] = know[m]
    BY <2>1, <2>2, <2>3 DEF KnowType
  <2>5. \A q, m : KnowsTruly(q, m)' <=> KnowsTruly(q', m)
    BY <2>3 DEF KnowsTruly, SameRun, WorldKept, meshVars, machineVars, Existing
  <2>6. KnowInv'
    <3>1. SUFFICES ASSUME NEW m \in Node PROVE KnowsTruly(know'[m], m)
      BY <2>5, TrulyIs DEF KnowInv, KnowsTruly, SameRun, WorldKept, meshVars, machineVars, Existing
    <3> QED
      BY <1>3, <2>2, <2>4, TrulyIs
  <2>7. \A x : Learned(x, n)' <=> Knowing(x, k, n)
    BY <2>3, <2>4 DEF Learned, Knowing, KnowsRoles, KnowsHost, KnowsAddress, SameRun,
       WorldKept, meshVars, machineVars, Existing, HostsOf, Loaded, RuntimeLoaded
  <2>8. \A x : x # y /\ Learned(x, n) => Learned(x, n)'
    BY <1>3, <2>7, KnowingIs
  <2>9. ~run.failed => Learned(y, n)' /\ Brought(y, n)
    BY <1>3, <2>7
  <2>10. KnowsRoles(n) => KnowsRoles(n)'
    <3>1. /\ Learned("list-roles-once", n) <=> KnowsRoles(n)
          /\ Learned("list-roles-once", n)' <=> KnowsRoles(n)'
      BY DEF Learned
    <3> QED
      BY <1>3, <2>7, <2>8, <3>1
  <2>11. KnowsAddress(n) => KnowsAddress(n)'
    <3>1. /\ Learned("find-node-ip", n) <=> KnowsAddress(n)
          /\ Learned("find-node-ip", n)' <=> KnowsAddress(n)'
      BY DEF Learned
    <3> QED
      BY <1>3, <2>7, <2>8, <3>1
  <2>12. ~Through(y, n)
    <3>1. run.steps # <<>>
      BY <2>2 DEF RunInv
    <3> QED
      BY <2>2, <3>1, HeadIs DEF Through
  <2> QED
    BY <1>1, <1>3, <2>1, <2>6, <2>8, <2>9, <2>10, <2>11, <2>12, Answered
<1> QED
  BY <1>2, <1>3

(* Once it is known whether K3s runs, it either does or loads what is on   *)
(* the disk when it is started.                                            *)
LEMMA CheckK3sServiceKeeps ==
    ASSUME InstallIInv, NEW n \in Node, CheckK3sService(n), UNCHANGED meshVars
    PROVE  InstallIInv'
<1> DEFINE k == [know[n] EXCEPT !.active = k3s[n].up]
<1>1. /\ n \in run.todo /\ Head(run.steps) = "check-k3s-service" /\ WorldKept
      /\ Looks(n, TRUE, k)
  BY DEF CheckK3sService, Doing, At, WorldKept
<1>2. run.conf \in Configs
  BY <1>1, AtNode
<1>3. know[n] \in KnowledgeType /\ k3s[n].up \in BOOLEAN
  BY DEF InstallIInv, Typed, KnowType, MachineType, K3sType
<1>4. k \in KnowledgeType
  BY <1>3 DEF KnowledgeType
<1>5. KnowsTruly(k, n)
  BY <1>3, TrulyIs DEF InstallIInv, KnowsTruly, KnowledgeType
<1>6. \A x : x # "check-k3s-service" /\ Knowing(x, know[n], n) => Knowing(x, k, n)
  <2>1. /\ k.roles = know[n].roles /\ k.host = know[n].host /\ k.ipv4 = know[n].ipv4
        /\ k.code = know[n].code /\ k.nodeIp = know[n].nodeIp /\ k.stale = know[n].stale
        /\ k.driver = know[n].driver /\ k.enrolled = know[n].enrolled
    BY <1>3 DEF KnowledgeType
  <2> HIDE DEF k
  <2> QED
    BY <2>1 DEF Knowing
<1>7. Knowing("check-k3s-service", k, n)
  BY <1>3 DEF Knowing, KnowledgeType, Loaded
<1>8. Brought("check-k3s-service", n)
  BY <1>2, InertSteps DEF Inert
<1> HIDE DEF k
<1> QED
  BY <1>1, <1>4, <1>5, <1>6, <1>7, <1>8, Learns

(* A driver's presence is known.                                           *)
LEMMA CheckDriverKeeps ==
    ASSUME InstallIInv, NEW n \in Node, CheckDriver(n), UNCHANGED meshVars
    PROVE  InstallIInv'
<1> DEFINE k == [know[n] EXCEPT !.driver = disk[n].driver]
<1>1. /\ n \in run.todo /\ Head(run.steps) = "check-nvidia-driver" /\ WorldKept
      /\ Looks(n, TRUE, k)
  BY DEF CheckDriver, Doing, At, WorldKept
<1>2. run.conf \in Configs
  BY <1>1, AtNode
<1>3. know[n] \in KnowledgeType /\ disk[n].driver \in BOOLEAN
  BY DEF InstallIInv, Typed, KnowType, MachineType, DiskType
<1>4. k \in KnowledgeType
  BY <1>3 DEF KnowledgeType
<1>5. KnowsTruly(k, n)
  BY <1>3, TrulyIs DEF InstallIInv, KnowsTruly, KnowledgeType
<1>6. \A x : x # "check-nvidia-driver" /\ Knowing(x, know[n], n) => Knowing(x, k, n)
  <2>1. /\ k.roles = know[n].roles /\ k.host = know[n].host /\ k.ipv4 = know[n].ipv4
        /\ k.code = know[n].code /\ k.active = know[n].active /\ k.nodeIp = know[n].nodeIp
        /\ k.stale = know[n].stale /\ k.enrolled = know[n].enrolled
    BY <1>3 DEF KnowledgeType
  <2> HIDE DEF k
  <2> QED
    BY <2>1 DEF Knowing
<1>7. Knowing("check-nvidia-driver", k, n)
  BY <1>3 DEF Knowing, KnowledgeType
<1>8. Brought("check-nvidia-driver", n)
  BY <1>2, InertSteps DEF Inert
<1> HIDE DEF k
<1> QED
  BY <1>1, <1>4, <1>5, <1>6, <1>7, <1>8, Learns

(* A K3s that was started before the toolkit came is known to be stale.    *)
LEMMA CheckRuntimeKeeps ==
    ASSUME InstallIInv, NEW n \in Node, CheckRuntime(n), UNCHANGED meshVars
    PROVE  InstallIInv'
<1> DEFINE k == [know[n] EXCEPT !.stale = (k3s[n].up /\ ~k3s[n].runtime)]
<1>1. /\ n \in run.todo /\ Head(run.steps) = "check-k3s-nvidia-runtime" /\ WorldKept
      /\ Looks(n, TRUE, k)
  BY DEF CheckRuntime, Doing, At, WorldKept
<1>2. run.conf \in Configs /\ run.steps # <<>> /\ n \in run.nodes
  BY <1>1, AtNode DEF PerNode
<1>3. know[n] \in KnowledgeType /\ k3s[n].up \in BOOLEAN /\ k3s[n].runtime \in BOOLEAN
  BY DEF InstallIInv, Typed, KnowType, MachineType, K3sType
<1>4. k \in KnowledgeType
  BY <1>3 DEF KnowledgeType
<1>5. KnowsTruly(k, n)
  BY <1>3, TrulyIs DEF InstallIInv, KnowsTruly, KnowledgeType
<1>6. \A x : x # "check-k3s-nvidia-runtime" /\ Knowing(x, know[n], n) => Knowing(x, k, n)
  <2>1. /\ k.roles = know[n].roles /\ k.host = know[n].host /\ k.ipv4 = know[n].ipv4
        /\ k.code = know[n].code /\ k.active = know[n].active /\ k.nodeIp = know[n].nodeIp
        /\ k.driver = know[n].driver /\ k.enrolled = know[n].enrolled
    BY <1>3 DEF KnowledgeType
  <2> HIDE DEF k
  <2> QED
    BY <2>1 DEF Knowing
<1>7. ~run.failed => Brought("install-nvidia-container-toolkit", n)
  BY <1>1, <1>2, Follows DEF RestsOn, PerNode
<1>8. ~run.failed => Knowing("check-k3s-nvidia-runtime", k, n)
  BY <1>2, <1>3, <1>7, BroughtIs DEF Knowing, KnowledgeType, RuntimeLoaded
<1>9. Brought("check-k3s-nvidia-runtime", n)
  BY <1>2, InertSteps DEF Inert
<1> HIDE DEF k
<1> QED
  BY <1>1, <1>4, <1>5, <1>6, <1>8, <1>9, Learns

(* That a client is enrolled is known, and can't stop to be so.            *)
LEMMA CheckEnrollmentKeeps ==
    ASSUME InstallIInv, NEW n \in Node, CheckEnrollment(n), UNCHANGED machineVars
    PROVE  InstallIInv'
<1> DEFINE k == [know[n] EXCEPT !.enrolled = (client[n].as # "none")]
<1>1. /\ n \in run.todo /\ Head(run.steps) = "check-nebula-enrollment" /\ WorldKept
      /\ Looks(n, TRUE, k)
  BY DEF CheckEnrollment, At, WorldKept
<1>2. run.conf \in Configs
  BY <1>1, AtNode
<1>3. know[n] \in KnowledgeType
  BY DEF InstallIInv, Typed, KnowType
<1>4. k \in KnowledgeType
  BY <1>3 DEF KnowledgeType
<1>5. KnowsTruly(know[n], n)
  BY TrulyIs DEF InstallIInv
<1>6. KnowsTruly(k, n)
  BY <1>3, <1>5 DEF KnowsTruly, KnowledgeType
<1>7. \A x : x # "check-nebula-enrollment" /\ Knowing(x, know[n], n) => Knowing(x, k, n)
  <2>1. know[n].enrolled => k.enrolled
    BY <1>3, <1>5 DEF KnowsTruly, KnowledgeType
  <2>2. /\ k.roles = know[n].roles /\ k.host = know[n].host /\ k.ipv4 = know[n].ipv4
        /\ k.code = know[n].code /\ k.active = know[n].active /\ k.nodeIp = know[n].nodeIp
        /\ k.stale = know[n].stale /\ k.driver = know[n].driver
    BY <1>3 DEF KnowledgeType
  <2> HIDE DEF k
  <2> QED
    BY <2>1, <2>2 DEF Knowing
<1>8. Knowing("check-nebula-enrollment", k, n)
  BY DEF Knowing
<1>9. Brought("check-nebula-enrollment", n)
  BY <1>2, InertSteps DEF Inert
<1> HIDE DEF k
<1> QED
  BY <1>1, <1>4, <1>6, <1>7, <1>8, <1>9, Learns

(* A node told which roles there are.                                      *)
LEMMA RolesLearned ==
    ASSUME InstallIInv, NEW n \in Node, NEW k, k = [know[n] EXCEPT !.roles = Existing]
    PROVE  /\ k \in KnowledgeType
           /\ KnowsTruly(k, n)
           /\ \A x : Knowing(x, know[n], n) => Knowing(x, k, n)
           /\ Knowing("list-roles-once", k, n)
           /\ k.roles = Existing
<1>1. know[n] \in KnowledgeType
  BY DEF InstallIInv, Typed, KnowType
<1>2. KnowsTruly(know[n], n)
  BY TrulyIs DEF InstallIInv
<1>3. Existing \subseteq RoleNames
  BY DEF Existing
<1>4. /\ k \in KnowledgeType
      /\ k.roles = Existing /\ k.host = know[n].host /\ k.ipv4 = know[n].ipv4
      /\ k.code = know[n].code /\ k.active = know[n].active /\ k.nodeIp = know[n].nodeIp
      /\ k.stale = know[n].stale /\ k.driver = know[n].driver /\ k.enrolled = know[n].enrolled
  BY <1>1, <1>3 DEF KnowledgeType
<1>5. KnowsTruly(k, n)
  BY <1>2, <1>4 DEF KnowsTruly
<1>6. ASSUME NEW x, Knowing(x, know[n], n)
      PROVE  Knowing(x, k, n)
  <2>1. know[n].roles \subseteq k.roles
    BY <1>2, <1>4 DEF KnowsTruly
  <2> QED
    BY <1>4, <1>6, <2>1 DEF Knowing
<1>7. Knowing("list-roles-once", k, n)
  BY <1>4 DEF Knowing
<1> QED
  BY <1>4, <1>5, <1>6, <1>7

(* The roles there are are known to the server before it makes any.        *)
LEMMA ListRolesOnceKeeps ==
    ASSUME InstallIInv, ListRolesOnce, UNCHANGED machineVars
    PROVE  InstallIInv'
<1> DEFINE k == [know[Server] EXCEPT !.roles = Existing]
<1>1. /\ Server \in run.todo /\ Head(run.steps) = "list-roles-once" /\ WorldKept
      /\ Looks(Server, TRUE, k)
  BY DEF ListRolesOnce, At, WorldKept
<1>2. run.conf \in Configs /\ Server \in Node
  BY <1>1, AtNode
<1>3. /\ k \in KnowledgeType
      /\ KnowsTruly(k, Server)
      /\ \A x : Knowing(x, know[Server], Server) => Knowing(x, k, Server)
      /\ Knowing("list-roles-once", k, Server)
  BY <1>2, RolesLearned
<1>4. Brought("list-roles-once", Server)
  BY <1>2, InertSteps DEF Inert
<1> HIDE DEF k
<1> QED
  BY <1>1, <1>3, <1>4, Learns

(* And to each node, the default role among them: a run makes it, or it    *)
(* stands in an addition's way.                                            *)
LEMMA ListRolesKeeps ==
    ASSUME InstallIInv, NEW n \in Node, ListRoles(n), UNCHANGED machineVars
    PROVE  InstallIInv'
<1> DEFINE k == [know[n] EXCEPT !.roles = Existing]
<1>1. /\ n \in run.todo /\ Head(run.steps) = "list-nebula-roles" /\ WorldKept
      /\ Looks(n, TRUE, k)
  BY DEF ListRoles, At, WorldKept
<1>2. /\ run.conf \in Configs /\ run.steps # <<>> /\ "list-nebula-roles" \in Asked
      /\ n \in run.nodes /\ RunInv
  BY <1>1, AtNode DEF PerNode, MeshSteps
<1>3. /\ k \in KnowledgeType
      /\ KnowsTruly(k, n)
      /\ \A x : Knowing(x, know[n], n) => Knowing(x, k, n)
      /\ k.roles = Existing
  BY RolesLearned
<1>4. Brought("list-nebula-roles", n)
  BY <1>2, InertSteps DEF Inert
<1>5. ~run.failed /\ run.able => DefaultRole \in Existing
  <2>1. SUFFICES ASSUME ~run.failed, run.able PROVE DefaultRole \in Existing
    OBVIOUS
  <2>2. OnNetwork(run.conf) /\ run.what \in {"install", "add-node"}
    <3>1. OnNetwork(run.conf)
      BY <1>2, Together DEF MeshSteps
    <3>2. run.what # "nothing" /\ run.what \notin Unverified /\ run.what \in Commands
      BY <1>1, <2>1, AtStep DEF InstallIInv, RunInv, Resting
    <3> QED
      BY <3>1, <3>2 DEF Commands
  <2>3. CASE run.what = "add-node"
    BY <2>1, <2>2, <2>3 DEF InstallIInv, AbleInv
  <2>4. CASE run.what = "install"
    <3>1. "verify-nebula-roles" \in Asked
      BY <1>2, <2>2, <2>4, Together DEF NetworkSteps
    <3>2. Brought("verify-nebula-roles", Server)
      BY <1>1, <1>2, <2>1, <3>1, Follows DEF RestsOnAnother, Once
    <3> QED
      BY <1>2, <3>2, BroughtIs
  <2> QED
    BY <2>2, <2>3, <2>4
<1> HIDE DEF k
<1>6. ~run.failed => Knowing("list-nebula-roles", k, n)
  BY <1>3, <1>5 DEF Knowing
<1> QED
  BY <1>1, <1>3, <1>4, <1>6, Learns

(* A code is asked for of a host that is known by then.                    *)
LEMMA CreateEnrollmentCodeKeeps ==
    ASSUME InstallIInv, NEW n \in Node, CreateEnrollmentCode(n), UNCHANGED machineVars
    PROVE  InstallIInv'
<1> DEFINE k == [know[n] EXCEPT !.code = TRUE]
           isSo == know[n].host # "none"
<1>1. /\ n \in run.todo /\ Head(run.steps) = "create-nebula-enrollment-code" /\ WorldKept
      /\ Looks(n, isSo, k)
  BY DEF CreateEnrollmentCode, At, WorldKept
<1>2. /\ run.conf \in Configs /\ run.steps # <<>> /\ n \in run.nodes
      /\ ~run.verifying
  BY <1>1, AtNode DEF PerNode, MeshSteps, Prompt
<1>3. know[n] \in KnowledgeType
  BY DEF InstallIInv, Typed, KnowType
<1>4. /\ k \in KnowledgeType
      /\ k.roles = know[n].roles /\ k.host = know[n].host /\ k.ipv4 = know[n].ipv4
      /\ k.code /\ k.active = know[n].active /\ k.nodeIp = know[n].nodeIp
      /\ k.stale = know[n].stale /\ k.driver = know[n].driver /\ k.enrolled = know[n].enrolled
  BY <1>3 DEF KnowledgeType
<1> HIDE DEF k
<1>5. isSo => KnowsTruly(k, n)
  BY <1>4, TrulyIs DEF InstallIInv, KnowsTruly
<1>6. \A x : Knowing(x, know[n], n) => Knowing(x, k, n)
  BY <1>4 DEF Knowing
<1>7. Knowing("create-nebula-enrollment-code", k, n)
  BY <1>4 DEF Knowing
<1>8. Brought("create-nebula-enrollment-code", n)
  BY <1>2, InertSteps DEF Inert
<1>9. ~run.failed => isSo
  <2>1. ~run.failed => Learned("create-nebula-host", n)
    BY <1>1, <1>2, Follows DEF RestsOn, PerNode, MeshSteps
  <2> QED
    BY <2>1, LearnedIs
<1>10. isSo \in BOOLEAN
  OBVIOUS
<1> HIDE DEF isSo
<1> QED
  BY <1>1, <1>4, <1>5, <1>6, <1>7, <1>8, <1>9, <1>10, Learns

(* What of lower rank is asked has been done.                              *)
LEMMA Lower ==
    ASSUME InstallIInv, ~run.failed, run.steps # <<>>, NEW x \in Asked, x # Repeated,
           Head(run.steps) # Repeated,
           Rank(run.conf, x) < Rank(run.conf, Head(run.steps)), NEW n \in For(x)
    PROVE  /\ Brought(x, n)
           /\ (run.verifying => x \in Prompt) => Learned(x, n)
<1>1. x \notin Left
  BY HeadIs DEF InstallIInv
<1>2. Has(x, n) /\ ((run.verifying => x \in Prompt) => Through(x, n))
  BY <1>1 DEF Has, Through
<1> QED
  BY <1>2 DEF InstallIInv, BroughtInv, LearnedInv

(* A cluster's roles are all there once they are checked.                  *)
LEMMA RolesAreThere ==
    ASSUME InstallIInv, ~run.failed, run.steps # <<>>,
           Head(run.steps) = "verify-nebula-roles"
    PROVE  RolesOf(run.conf) \subseteq Existing
<1>1. RunInv /\ run.conf \in Configs /\ "verify-nebula-roles" \in Asked
  BY HeadIs DEF InstallIInv
<1>2. RolesOf(run.conf) \subseteq Asked
  BY <1>1, Together DEF NetworkSteps
<1>3. SUFFICES ASSUME NEW r \in RolesOf(run.conf) PROVE r \in Existing
  OBVIOUS
<1>4. PICK i \in DOMAIN run.conf.roles : r = run.conf.roles[i].name
  BY DEF RolesOf
<1> DEFINE m == Len(run.conf.roles)
<1>5. m \in Nat /\ i \in 1..m
  BY <1>1, ConfigsAssumption, LenProperties
<1>6. Rank(run.conf, r) = 2 + i
  BY <1>1, <1>4, RoleRanks
<1>7. Rank(run.conf, "verify-nebula-roles") = 3 + m
  <2>1. "verify-nebula-roles" \in Prompt \cup Applied
    BY DEF Prompt
  <2>2. Base("verify-nebula-roles") = 3
    BY Bases
  <2> QED
    BY <1>1, <2>1, <2>2, RankIsBase
<1> HIDE DEF m
<1>8. Rank(run.conf, r) < Rank(run.conf, "verify-nebula-roles")
  BY <1>5, <1>6, <1>7
<1>9. r # Repeated /\ "verify-nebula-roles" # Repeated
  BY <1>1, NamesAssumption DEF Repeated, Prompt
<1>10. Server \in For(r)
  BY <1>1, Fors
<1>11. Brought(r, Server)
  BY <1>2, <1>8, <1>9, <1>10, Lower
<1> QED
  BY <1>1, <1>11, RolesBrought

(* The roles there have to be were made, each by its step.                 *)
LEMMA VerifyRolesKeeps ==
    ASSUME InstallIInv, VerifyRoles, UNCHANGED machineVars
    PROVE  InstallIInv'
<1> DEFINE k == [know[Server] EXCEPT !.roles = Existing]
           isSo == RolesOf(run.conf) \cup {DefaultRole} \subseteq Existing
<1>1. /\ Server \in run.todo /\ Head(run.steps) = "verify-nebula-roles" /\ WorldKept
      /\ Looks(Server, isSo, k)
  BY DEF VerifyRoles, At, WorldKept
<1>2. /\ run.conf \in Configs /\ Server \in Node /\ run.steps # <<>> /\ RunInv
      /\ "verify-nebula-roles" \in Asked
  BY <1>1, AtNode
<1>3. /\ k \in KnowledgeType
      /\ KnowsTruly(k, Server)
      /\ \A x : Knowing(x, know[Server], Server) => Knowing(x, k, Server)
  BY <1>2, RolesLearned
<1>4. isSo => Brought("verify-nebula-roles", Server)
  BY <1>2, BroughtIs
<1>5. Knowing("verify-nebula-roles", k, Server)
  BY DEF Knowing
<1>6. run.able /\ ~run.faulted => isSo
  <2>1. SUFFICES ASSUME run.able, ~run.faulted PROVE isSo
    OBVIOUS
  <2>2. ~run.failed
    BY <2>1, Standing
  <2>3. RolesOf(run.conf) \subseteq Existing
    BY <1>1, <1>2, <2>2, RolesAreThere
  <2>4. run.what = "install" /\ OnNetwork(run.conf)
    BY <1>2, Together DEF NetworkSteps
  <2>5. RolesInOrder(run.conf)
    BY <2>1, <2>4 DEF InstallIInv, AbleInv
  <2> QED
    BY <2>3, <2>5 DEF RolesInOrder
<1>7. run.able \in BOOLEAN /\ run.faulted \in BOOLEAN /\ isSo \in BOOLEAN
  BY <1>1, AtStep DEF RunType
<1> HIDE DEF k, isSo
<1>8. ~isSo => run.failed \/ ~run.able \/ run.faulted
  BY <1>6, <1>7
<1> QED
  BY <1>1, <1>3, <1>4, <1>5, <1>7, <1>8, Learns

(* The network is there, or stands in the way.                             *)
LEMMA FindNetworkKeeps ==
    ASSUME InstallIInv, NEW n \in run.todo, NEW y \in {"find-network-once", "find-nebula-network"},
           Head(run.steps) = y, WorldKept, Looks(n, run.conf.network \in Networks, know[n])
    PROVE  InstallIInv'
<1>1. run.conf \in Configs /\ y \in Asked /\ RunInv
  BY AtNode
<1>2. Brought(y, n) /\ Learned(y, n)
  BY <1>1, InertSteps, MuteSteps DEF Mute, Inert
<1>3. OnNetwork(run.conf)
  BY <1>1, Together DEF NetworkSteps, MeshSteps
<1> DEFINE isSo == run.conf.network \in Networks
<1>4. ~isSo => run.failed \/ ~run.able \/ run.faulted
  BY <1>3 DEF InstallIInv, AbleInv
<1>5. Looks(n, isSo, know[n]) /\ isSo \in BOOLEAN
  OBVIOUS
<1> HIDE DEF isSo
<1> QED
  BY <1>2, <1>4, <1>5, LooksAround

(* A node's host is known, whatever the case of its name, and isn't        *)
(* blocked unless that stands in the way.                                  *)
LEMMA FindHostKeeps ==
    ASSUME InstallIInv, NEW n \in Node, FindHost(n), UNCHANGED machineVars
    PROVE  InstallIInv'
<1>1. n \in run.todo /\ Head(run.steps) = "find-nebula-host" /\ WorldKept
  BY DEF FindHost, At, WorldKept
<1>2. /\ run.conf \in Configs /\ run.steps # <<>> /\ "find-nebula-host" \in Asked
      /\ n \in run.nodes /\ RunInv
  BY <1>1, AtNode DEF PerNode, MeshSteps
<1>3. know[n] \in KnowledgeType
  BY DEF InstallIInv, Typed, KnowType
<1>4. CASE HostsOf(n) = {} /\ Looks(n, TRUE, know[n])
  <2>1. Learned("find-nebula-host", n)
    BY <1>4, LearnedIs DEF KnowsHost
  <2>2. Brought("find-nebula-host", n)
    BY <1>2, <1>4, BroughtIs
  <2> QED
    BY <1>1, <1>4, <2>1, <2>2, LooksAround
<1>5. ASSUME NEW h \in HostsOf(n),
             Looks(n, ~h.blocked, [know[n] EXCEPT !.host = h.name, !.ipv4 = h.ipv4])
      PROVE  InstallIInv'
  <2> DEFINE k == [know[n] EXCEPT !.host = h.name, !.ipv4 = h.ipv4]
             isSo == ~h.blocked
  <2>1. /\ h \in hosts /\ h.node = n /\ h.name \in {"as configured", "capitalised"}
        /\ h.ipv4 \in BOOLEAN /\ h.blocked \in BOOLEAN
    BY <1>5 DEF HostsOf, InstallIInv, Typed, MeshTypeOK
  <2>2. \A g \in HostsOf(n) : g = h
    BY <2>1 DEF HostsOf, InstallIInv, WorldInv
  <2>3. /\ k \in KnowledgeType
        /\ k.roles = know[n].roles /\ k.host = h.name /\ (k.ipv4 <=> h.ipv4)
        /\ k.code = know[n].code /\ k.active = know[n].active /\ k.nodeIp = know[n].nodeIp
        /\ k.stale = know[n].stale /\ k.driver = know[n].driver /\ k.enrolled = know[n].enrolled
    BY <1>3, <2>1 DEF KnowledgeType
  <2>4. Looks(n, isSo, k) /\ isSo \in BOOLEAN
    BY <1>5
  <2> HIDE DEF k
  <2>5. KnowsTruly(k, n)
    <3>1. KnowsTruly(know[n], n)
      BY TrulyIs DEF InstallIInv
    <3> QED
      BY <2>1, <2>3, <3>1 DEF KnowsTruly
  <2>6. k.host # "none"
    BY <2>1, <2>3
  <2>7. \A x : x # "find-nebula-host" /\ Knowing(x, know[n], n) => Knowing(x, k, n)
    BY <2>3, <2>6 DEF Knowing
  <2>8. Knowing("find-nebula-host", k, n)
    BY <2>2, <2>3 DEF Knowing
  <2>9. isSo => Brought("find-nebula-host", n)
    BY <1>2, <2>2, BroughtIs
  <2>10. ~isSo => run.failed \/ ~run.able \/ run.faulted
    <3>1. OnNetwork(run.conf)
      BY <1>2, Together DEF MeshSteps
    <3> QED
      BY <1>2, <2>1, <3>1 DEF InstallIInv, AbleInv
  <2> HIDE DEF isSo
  <2> QED
    BY <1>1, <2>3, <2>4, <2>5, <2>7, <2>8, <2>9, <2>10, Learns
<1> QED
  BY <1>4, <1>5 DEF FindHost

(* The address K3s is to have is one the node has by then: the mesh's was  *)
(* verified before.                                                        *)
LEMMA FindNodeIpKeeps ==
    ASSUME InstallIInv, NEW n \in Node, FindNodeIp(n), UNCHANGED meshVars
    PROVE  InstallIInv'
<1> DEFINE address == AddressFor(run.conf, n)
           k == [know[n] EXCEPT !.nodeIp = address]
           isSo == address = "mesh" => client[n].ipv4
<1>1. /\ n \in run.todo /\ Head(run.steps) = "find-node-ip" /\ WorldKept
      /\ Looks(n, isSo, k) /\ ChecksAddress(run.conf, n)
  BY DEF FindNodeIp, Doing, At, WorldKept, NothingToDo
<1>2. /\ run.conf \in Configs /\ run.steps # <<>> /\ "find-node-ip" \in Asked
      /\ n \in run.nodes /\ RunInv
  BY <1>1, AtNode DEF PerNode
<1>3. know[n] \in KnowledgeType /\ address \in {"local", "mesh"} /\ isSo \in BOOLEAN
  BY DEF InstallIInv, Typed, KnowType, AddressFor, MeshTypeOK
<1>4. /\ k \in KnowledgeType
      /\ k.roles = know[n].roles /\ k.host = know[n].host /\ k.ipv4 = know[n].ipv4
      /\ k.code = know[n].code /\ k.active = know[n].active /\ k.nodeIp = address
      /\ k.stale = know[n].stale /\ k.driver = know[n].driver /\ k.enrolled = know[n].enrolled
  BY <1>3 DEF KnowledgeType
<1> HIDE DEF k
<1>5. KnowsTruly(k, n)
  <2>1. KnowsTruly(know[n], n)
    BY TrulyIs DEF InstallIInv
  <2> QED
    BY <1>1, <1>4, <2>1 DEF KnowsTruly
<1>6. \A x : x # "find-node-ip" /\ Knowing(x, know[n], n) => Knowing(x, k, n)
  BY <1>4 DEF Knowing
<1>7. Knowing("find-node-ip", k, n)
  BY <1>4 DEF Knowing
<1>8. Brought("find-node-ip", n)
  BY <1>2, InertSteps DEF Inert
<1>9. run.able /\ ~run.faulted => isSo
  <2>1. SUFFICES ASSUME run.able, ~run.faulted, address = "mesh" PROVE client[n].ipv4
    OBVIOUS
  <2>2. ~run.failed /\ run.what \in {"install", "add-node"}
    BY <2>1, Standing
  <2>3. "verify-nebula-host" \in Asked
    BY <1>2, <2>1, <2>2, Together DEF AddressFor, MeshSteps
  <2>4. Brought("verify-nebula-host", n)
    BY <1>1, <1>2, <2>2, <2>3, Follows DEF RestsOnAnother, PerNode, MeshSteps
  <2> QED
    BY <1>2, <2>4, BroughtIs
<1>10. run.able \in BOOLEAN /\ run.faulted \in BOOLEAN
  BY <1>1, AtStep DEF RunType
<1> HIDE DEF isSo
<1>11. ~isSo => run.failed \/ ~run.able \/ run.faulted
  BY <1>3, <1>9, <1>10
<1> QED
  BY <1>1, <1>3, <1>4, <1>5, <1>6, <1>7, <1>8, <1>11, Learns

(* A client has its IPv4 address, or its host has one that it will be      *)
(* told of.                                                                *)
LEMMA VerifyHostKeeps ==
    ASSUME InstallIInv, NEW n \in Node, VerifyHost(n), UNCHANGED machineVars
    PROVE  InstallIInv'
<1> DEFINE isSo == client[n].as # "none" /\ (know[n].ipv4 => client[n].ipv4)
           mayCome == client[n].as # "none" /\ AddressOf(n)
<1>1. /\ n \in run.todo /\ Head(run.steps) = "verify-nebula-host" /\ WorldKept
      /\ WaitsFor(n, isSo, mayCome)
  BY DEF VerifyHost, At, WorldKept
<1>2. /\ run.conf \in Configs /\ run.steps # <<>> /\ "verify-nebula-host" \in Asked
      /\ n \in run.nodes /\ RunInv /\ n \in For("verify-nebula-host")
  BY <1>1, AtNode DEF PerNode, MeshSteps
<1>3. ~run.failed => client[n].as # "none" /\ AddressOf(n) /\ KnowsHost(n)
  <2>1. ~run.failed => Brought("enroll-nebula-host", n) /\ Brought("add-nebula-ipv4-address", n)
    BY <1>1, <1>2, Follows DEF RestsOn, PerNode, MeshSteps
  <2>2. ~run.failed => Learned("find-nebula-host", n)
    <3>1. "find-nebula-host" \in Prompt
      BY DEF Prompt
    <3> QED
      BY <1>1, <1>2, <3>1, Follows DEF RestsOn, PerNode, MeshSteps
  <2> QED
    BY <1>2, <2>1, <2>2, BroughtIs, LearnedIs
<1>4. isSo /\ ~run.failed => Brought("verify-nebula-host", n)
  <2>1. ~run.failed => know[n].ipv4
    BY <1>3 DEF AddressOf, KnowsHost, HostsOf
  <2> QED
    BY <1>2, <1>3, <2>1, BroughtIs
<1>5. Learned("verify-nebula-host", n)
  BY MuteSteps DEF Mute
<1>6. ~run.failed /\ run.verifying => isSo
  <2>1. ~run.failed /\ run.verifying => Brought("verify-nebula-host", n)
    BY <1>2, Verified
  <2> QED
    BY <1>2, <1>3, <2>1, BroughtIs
<1>7. ~isSo /\ (run.verifying \/ ~mayCome) => run.failed \/ ~run.able \/ run.faulted
  BY <1>3, <1>6
<1>8. isSo \in BOOLEAN /\ mayCome \in BOOLEAN
  BY DEF InstallIInv, Typed, MeshTypeOK
<1> HIDE DEF isSo, mayCome
<1> QED
  BY <1>1, <1>4, <1>5, <1>7, <1>8, WaitsAround

-----------------------------------------------------------------------------
(* Steps that have nothing to do                                           *)

(* A step of the mesh that is passed over has nothing to do: what it       *)
(* would bring about is so already.                                        *)
LEMMA NothingToEnrollIsDone ==
    ASSUME InstallIInv, NEW n \in run.todo, NEW y, y = Head(run.steps), ~run.failed,
           NothingToEnroll(y, n)
    PROVE  Learned(y, n) /\ Brought(y, n)
<1>1. /\ run.conf \in Configs /\ run.steps # <<>> /\ RunInv /\ n \in Node
      /\ run.verifying => y \in Prompt
  BY AtNode
<1>2. know[n] \in KnowledgeType /\ KnowsTruly(know[n], n)
  BY <1>1, TrulyIs DEF InstallIInv, Typed, KnowType
<1>3. /\ y \in {"create-nebula-host", "create-nebula-enrollment-code",
                "add-nebula-ipv4-address", "enroll-nebula-host", "refresh-nebula-config"}
      /\ ~run.verifying /\ n \in run.nodes
  <2>1. y \in {"create-nebula-host", "create-nebula-enrollment-code",
               "add-nebula-ipv4-address", "enroll-nebula-host", "refresh-nebula-config"}
    BY DEF NothingToEnroll
  <2>2. y \notin Prompt /\ y \in PerNode
    BY <2>1 DEF Prompt, PerNode, MeshSteps
  <2> QED
    BY <1>1, <2>1, <2>2, AtNode
<1>4. CASE y = "create-nebula-host"
  <2>1. Learned("find-nebula-host", n)
    BY <1>1, <1>3, <1>4, Follows DEF RestsOn, PerNode, MeshSteps
  <2>2. KnowsHost(n)
    BY <2>1, LearnedIs
  <2>3. know[n].host # "none"
    <3>1. CASE know[n].host # "none"
      BY <3>1
    <3>2. CASE know[n].enrolled
      <4>1. \E h \in hosts : h.node = n
        BY <1>1, <1>2, <3>2 DEF KnowsTruly, InstallIInv, WorldInv
      <4>2. PICK h \in hosts : h.node = n
        BY <4>1
      <4>3. h.name # "none"
        BY <4>2 DEF InstallIInv, Typed, MeshTypeOK
      <4> QED
        BY <2>2, <4>2, <4>3 DEF KnowsHost, HostsOf
    <3> QED
      BY <1>4, <3>1, <3>2 DEF NothingToEnroll
  <2> QED
    BY <1>1, <1>4, <2>3, LearnedIs, InertSteps DEF Inert
<1>5. CASE y = "create-nebula-enrollment-code"
  BY <1>1, <1>5, LearnedIs, InertSteps DEF Inert, NothingToEnroll
<1>6. CASE y = "add-nebula-ipv4-address"
  <2>1. Learned("create-nebula-host", n) /\ Brought("find-nebula-host", n)
    BY <1>1, <1>3, <1>6, Follows DEF RestsOn, PerNode, MeshSteps
  <2>2. know[n].ipv4
    BY <1>6, <2>1, LearnedIs DEF NothingToEnroll
  <2>3. AddressOf(n)
    BY <1>1, <1>2, <2>1, <2>2, BroughtIs DEF KnowsTruly, AddressOf, HostsOf
  <2> QED
    BY <1>1, <1>6, <2>3, BroughtIs, MuteSteps DEF Mute
<1>7. CASE y = "enroll-nebula-host"
  <2>1. client[n].as # "none"
    BY <1>2, <1>7 DEF NothingToEnroll, KnowsTruly
  <2> QED
    BY <1>1, <1>7, <2>1, BroughtIs, MuteSteps DEF Mute
<1>8. CASE y = "refresh-nebula-config"
  BY <1>1, <1>8, InertSteps, MuteSteps DEF Inert, Mute
<1> QED
  BY <1>3, <1>4, <1>5, <1>6, <1>7, <1>8

(* NVIDIA's steps and the sign-in's.                                       *)
LEMMA NvidiaSteps ==
    /\ {Nvidia[i] : i \in DOMAIN Nvidia} =
          {"install-nvidia-container-toolkit", "check-k3s-nvidia-runtime",
           "restart-k3s-for-nvidia", "check-nvidia-driver", "label-nvidia-driver",
           "verify-nvidia-runtime"}
    /\ SignIn[1] = "write-authentication-config" /\ SignIn[2] = "verify-authentication-config"
<1>1. DOMAIN Nvidia = 1..6 /\ 1..6 = {1, 2, 3, 4, 5, 6}
  BY DEF Nvidia
<1>2. /\ Nvidia[1] = "install-nvidia-container-toolkit"
      /\ Nvidia[2] = "check-k3s-nvidia-runtime"
      /\ Nvidia[3] = "restart-k3s-for-nvidia"
      /\ Nvidia[4] = "check-nvidia-driver"
      /\ Nvidia[5] = "label-nvidia-driver"
      /\ Nvidia[6] = "verify-nvidia-runtime"
  BY DEF Nvidia
<1>3. {Nvidia[i] : i \in DOMAIN Nvidia} =
        {Nvidia[1], Nvidia[2], Nvidia[3], Nvidia[4], Nvidia[5], Nvidia[6]}
  <2> HIDE DEF Nvidia
  <2> QED
    BY <1>1
<1>4. SignIn[1] = "write-authentication-config" /\ SignIn[2] = "verify-authentication-config"
  BY DEF SignIn
<1> QED
  BY <1>2, <1>3, <1>4

(* And so has any step that is passed over (the bundles' skipWhen).        *)
LEMMA NothingToDoIsDone ==
    ASSUME InstallIInv, NEW n \in run.todo, NEW y, y = Head(run.steps), ~run.failed,
           NothingToDo(y, n)
    PROVE  Learned(y, n) /\ Brought(y, n)
<1> DEFINE c == run.conf
<1>1. /\ run.conf \in Configs /\ run.steps # <<>> /\ RunInv /\ n \in Node
      /\ run.verifying => y \in Prompt
      /\ y \in PerNode => n \in run.nodes
  BY AtNode
<1>2. know[n] \in KnowledgeType
  BY <1>1 DEF InstallIInv, Typed, KnowType
<1>3. CASE NothingToEnroll(y, n)
  BY <1>3, NothingToEnrollIsDone
<1>4. CASE y \in {"check-gateway-interfaces", "verify-registry-access", "label-gateway-nodes",
                  "verify-gateway", "verify-cluster-gateway"}
  BY <1>1, <1>4, InertSteps, MuteSteps DEF Inert, Mute
<1>5. CASE y = "write-registries-config" /\ c.registries = 0
  BY <1>1, <1>5, BroughtIs, MuteSteps DEF Mute, HasRegistries
<1>6. CASE y = "restart-k3s" /\ (c.registries = 0 \/ ~know[n].active)
  <2>1. Learned("restart-k3s", n)
    BY MuteSteps DEF Mute
  <2>2. CASE c.registries = 0
    BY <1>1, <1>6, <2>1, <2>2, BroughtIs DEF HasRegistries, Loaded
  <2>3. CASE ~know[n].active
    <3>1. n \in run.nodes /\ "check-k3s-service" \in Prompt
      BY <1>1, <1>6 DEF PerNode, Prompt
    <3>2. Learned("check-k3s-service", n) /\ Brought("write-registries-config", n)
      BY <1>1, <1>6, <3>1, Follows DEF RestsOn, PerNode
    <3>3. HasRegistries(n) /\ Loaded(n)
      BY <1>1, <2>3, <3>2, BroughtIs, LearnedIs
    <3> QED
      BY <1>1, <1>6, <2>1, <3>3, BroughtIs
  <2> QED
    BY <1>6, <2>2, <2>3
<1>7. CASE y = "find-node-ip" /\ ~ChecksAddress(c, n)
  BY <1>1, <1>7, LearnedIs, InertSteps DEF Inert, KnowsAddress
<1>8. CASE y \in {SignIn[1], SignIn[2]} /\ c.clients = 0
  <2>1. y \in {"write-authentication-config", "verify-authentication-config"}
    BY <1>8, NvidiaSteps
  <2>2. Learned(y, n)
    BY <2>1, MuteSteps DEF Mute
  <2> QED
    BY <1>1, <1>8, <2>1, <2>2, BroughtIs
<1>9. CASE y = "verify-node-ip" /\ know[n].nodeIp = "none"
  <2>1. n \in run.nodes /\ "find-node-ip" \in Prompt
    BY <1>1, <1>9 DEF PerNode, Prompt
  <2>2. Learned("find-node-ip", n)
    BY <1>1, <1>9, <2>1, Follows DEF RestsOn, PerNode
  <2>3. KnowsAddress(n)
    BY <2>2, LearnedIs
  <2>4. ~ChecksAddress(c, n)
    BY <1>9, <2>3 DEF KnowsAddress, AddressFor
  <2> QED
    BY <1>1, <1>9, <2>4, BroughtIs, MuteSteps DEF Mute
<1>10. CASE y = "apply-lb-ip-pool" /\ ~HasGateway(c)
  BY <1>1, <1>10, BroughtIs, MuteSteps DEF Mute
<1>11. CASE y = "apply-l2-announcement" /\ (~HasGateway(c) \/ c.mode # "port-forward")
  BY <1>1, <1>11, BroughtIs, MuteSteps DEF Mute
<1>12. CASE y \in {Nvidia[i] : i \in DOMAIN Nvidia} /\ n \notin Gpu
  <2>1. y \in {"install-nvidia-container-toolkit", "check-k3s-nvidia-runtime",
               "restart-k3s-for-nvidia", "check-nvidia-driver", "label-nvidia-driver",
               "verify-nvidia-runtime"}
    BY <1>12, NvidiaSteps
  <2>2. CASE y \in {"install-nvidia-container-toolkit", "restart-k3s-for-nvidia",
                    "label-nvidia-driver"}
    BY <1>1, <1>12, <2>2, BroughtIs, MuteSteps DEF Mute
  <2>3. CASE y \in {"check-k3s-nvidia-runtime", "check-nvidia-driver"}
    BY <1>1, <1>12, <2>3, LearnedIs, InertSteps DEF Inert
  <2>4. CASE y = "verify-nvidia-runtime"
    BY <1>1, <2>4, InertSteps, MuteSteps DEF Inert, Mute
  <2> QED
    BY <2>1, <2>2, <2>3, <2>4
<1>13. CASE y = "restart-k3s-for-nvidia" /\ ~know[n].stale
  <2>1. n \in run.nodes /\ "check-k3s-nvidia-runtime" \in Prompt
    BY <1>1, <1>13 DEF PerNode, Prompt
  <2>2. Learned("check-k3s-nvidia-runtime", n)
    BY <1>1, <1>13, <2>1, Follows DEF RestsOn, PerNode
  <2>3. n \in Gpu => disk[n].toolkit /\ RuntimeLoaded(n)
    BY <1>13, <2>2, LearnedIs
  <2> QED
    BY <1>1, <1>13, <2>3, BroughtIs, MuteSteps DEF Mute
<1> QED
  BY <1>3, <1>4, <1>5, <1>6, <1>7, <1>8, <1>9, <1>10, <1>11, <1>12, <1>13 DEF NothingToDo

(* To pass a step over is to have taken it.                                *)
LEMMA PassOverKeeps ==
    ASSUME InstallIInv, PassOver
    PROVE  InstallIInv'
<1>1. PICK n \in run.todo : NothingToDo(Head(run.steps), n) /\ Looks(n, TRUE, know[n])
  BY DEF PassOver
<1>2. WorldKept
  BY DEF PassOver, WorldKept
<1> DEFINE y == Head(run.steps)
<1>3. ~run.failed => Learned(y, n) /\ Brought(y, n)
  BY <1>1, NothingToDoIsDone
<1> QED
  BY <1>1, <1>2, <1>3, LooksAround

-----------------------------------------------------------------------------
(* Steps that change something                                             *)

(* What doing something does to the run: it goes on, having learned what   *)
(* there was to learn, or fails and is known to have had bad luck.         *)
LEMMA DoesRun ==
    ASSUME InstallIInv, NEW n \in run.todo, NEW k, Does(n, k)
    PROVE  /\ SameRun(run', run) /\ config' = config /\ edits' = edits
           /\ CountsType'
           /\ \/ /\ run' = After(n, TRUE, FALSE) /\ know' = [know EXCEPT ![n] = k]
              \/ /\ run' = After(n, FALSE, TRUE) /\ know' = know
<1>1. /\ config' = config /\ edits' = edits
      /\ faults' = faults \/ Fault
      /\ \/ /\ run' = After(n, TRUE, FALSE) /\ know' = [know EXCEPT ![n] = k]
         \/ /\ run' = After(n, FALSE, TRUE) /\ know' = know
  BY DEF Does, Passes, LosesAnswer
<1>2. RunInv /\ CountsType
  BY DEF InstallIInv, Typed
<1>3. SameRun(run', run)
  BY <1>1, <1>2, Moved
<1>4. CountsType'
  BY <1>1, <1>2, CountsKept
<1> QED
  BY <1>1, <1>3, <1>4

(* A step that changes the world and learns nothing.                       *)
LEMMA DoesKeeps ==
    ASSUME InstallIInv, NEW n \in run.todo, NEW y, y = Head(run.steps), Does(n, know[n]),
           MeshTypeOK', MachineType', WorldInv', KnowInv', AbleInv', RolesOnce',
           ~run.failed =>
              /\ \A x \in Asked : \A m \in For(x) : Learned(x, m) => Learned(x, m)'
              /\ \A x \in Asked : \A m \in For(x) : Brought(x, m) => Brought(x, m)'
              /\ Learned(y, n)' /\ Brought(y, n)',
           Stays
    PROVE  InstallIInv'
<1>1. know' = know
  BY DEF InstallIInv, Typed, KnowType, Does
<1>2. config' = config /\ CountsType'
  BY DoesRun
<1>3. Typed'
  BY <1>1, <1>2 DEF Typed, KnowType, InstallIInv
<1>4. CASE run' = After(n, TRUE, FALSE)
  BY <1>2, <1>3, <1>4, StepKeeps
<1>5. CASE run' = After(n, FALSE, TRUE)
  BY <1>2, <1>3, <1>5, StepKeeps
<1> QED
  BY <1>4, <1>5 DEF Does, Passes, LosesAnswer

(* What is known, and what it says of the mesh.                            *)
LEMMA KnowsStay ==
    ASSUME SameRun(run', run), know' = know, UNCHANGED <<hosts, roles>>
    PROVE  \A m : /\ KnowsRoles(m)' <=> KnowsRoles(m)
                  /\ KnowsAddress(m)' <=> KnowsAddress(m)
                  /\ KnowsHost(m)' <=> KnowsHost(m)
BY DEF KnowsRoles, KnowsAddress, KnowsHost, SameRun, Existing, HostsOf

(* A step that writes to the disk of its node: no K3s has loaded it yet.   *)
LEMMA DiskKeeps ==
    ASSUME InstallIInv, NEW n \in run.todo,
           NEW y \in {"write-registries-config", "write-authentication-config",
                      "install-nvidia-container-toolkit"},
           y = Head(run.steps), Does(n, know[n]),
           UNCHANGED <<meshVars, k3s, byHand, cluster>>,
           disk' \in [Node -> DiskType],
           \A m \in Node : /\ disk'[m].driver = disk[m].driver
                           /\ disk[m].toolkit => disk'[m].toolkit
                           /\ \/ disk'[m].registries = disk[m].registries
                              \/ disk'[m].registries = run.conf.registries
                           /\ \/ disk'[m].auth = disk[m].auth
                              \/ disk'[m].auth = run.conf.clients,
           DiskBrought(y, n)'
    PROVE  InstallIInv'
<1>1. SameRun(run', run) /\ know' = know /\ config' = config
  <2>1. know' = know
    BY DEF InstallIInv, Typed, KnowType, Does
  <2> QED
    BY <2>1, DoesRun
<1>2. run.conf \in Configs /\ n \in Node /\ RunInv
  BY AtNode
<1>3. UNCHANGED <<hosts, roles, client>>
  BY DEF meshVars
<1>4. MeshTypeOK' /\ MachineType' /\ WorldInv' /\ RolesOnce'
  BY <1>3 DEF InstallIInv, Typed, MeshTypeOK, MachineType, WorldInv, RolesOnce
<1>5. KnowInv'
  BY <1>1, <1>3 DEF InstallIInv, KnowInv, SameRun, Existing
<1>6. AbleInv'
  BY <1>1, <1>3 DEF InstallIInv, AbleInv, SameRun, Registered, RolesInOrder, Existing, ServerUp
<1>7. Stays
  BY <1>1, <1>3, KnowsStay DEF Stays, ServerUp
<1>8. \A x \in Asked : \A m \in For(x) : m \in Node
  BY <1>2, ScopeType DEF RunInv, RunType, For
<1>9. \A x : \A m \in Node : Learned(x, m) => Learned(x, m)'
  <2>1. \A m : /\ KnowsRoles(m)' <=> KnowsRoles(m)
               /\ KnowsAddress(m)' <=> KnowsAddress(m)
               /\ KnowsHost(m)' <=> KnowsHost(m)
    BY <1>1, <1>3, KnowsStay
  <2>2. \A m : (Loaded(m)' <=> Loaded(m)) /\ (RuntimeLoaded(m)' <=> RuntimeLoaded(m))
    BY <1>1 DEF Loaded, RuntimeLoaded, SameRun
  <2> QED
    BY <1>1, <2>1, <2>2 DEF Learned, SameRun
<1>10. ASSUME NEW x, NEW m \in Node, Brought(x, m)
       PROVE  Brought(x, m)'
  <2>1. MeshBrought(x, m)'
    BY <1>1, <1>3, <1>10 DEF Brought, MeshBrought, SameRun, Existing, HostsOf, AddressOf
  <2>2. HasRegistries(m) => HasRegistries(m)'
    BY <1>1 DEF HasRegistries, SameRun
  <2>3. DiskBrought(x, m)'
    BY <1>1, <1>10, <2>2 DEF Brought, DiskBrought, SameRun
  <2>4. K3sBrought(x, m)'
    BY <1>1, <1>10, <2>2 DEF Brought, K3sBrought, SameRun, Loaded, RuntimeLoaded, ServerUp
  <2>5. JoinBrought(x, m)'
    BY <1>1, <1>10 DEF Brought, JoinBrought, SameRun, Registered, Ready
  <2>6. ClusterBrought(x, m)'
    BY <1>1, <1>10 DEF Brought, ClusterBrought, SameRun
  <2> QED
    BY <2>1, <2>3, <2>4, <2>5, <2>6 DEF Brought
<1>11. Learned(y, n)'
  BY DEF Learned
<1>12. Brought(y, n)'
  <2>1. y \notin RolesOf(run'.conf)
    BY <1>1, <1>2, NoRole DEF SameRun, Applied
  <2>2. MeshBrought(y, n)' /\ K3sBrought(y, n)' /\ JoinBrought(y, n)' /\ ClusterBrought(y, n)'
    BY <2>1 DEF MeshBrought, K3sBrought, JoinBrought, ClusterBrought
  <2> QED
    BY <2>2 DEF Brought
<1> QED
  BY <1>4, <1>5, <1>6, <1>7, <1>8, <1>9, <1>10, <1>11, <1>12, DoesKeeps

(* A step that changes the cluster, and not who is in it.                  *)
LEMMA ClusterKeeps ==
    ASSUME InstallIInv, NEW n \in run.todo, NEW y \in Applied,
           y = Head(run.steps), Does(n, know[n]),
           UNCHANGED <<meshVars, disk, k3s, byHand>>,
           cluster' \in ClusterType,
           cluster'.registered = cluster.registered,
           cluster'.cilium # "without",
           cluster.cilium = "with controller" => cluster'.cilium = "with controller",
           cluster.crds => cluster'.crds,
           run'.conf = run.conf /\ ~run.failed =>
              \A x \in Asked : \A m \in For(x) : ClusterBrought(x, m) => ClusterBrought(x, m)',
           ~run.failed => /\ Learned(y, n)' /\ MeshBrought(y, n)' /\ DiskBrought(y, n)'
                          /\ K3sBrought(y, n)' /\ JoinBrought(y, n)' /\ ClusterBrought(y, n)'
    PROVE  InstallIInv'
<1>1. SameRun(run', run) /\ know' = know /\ config' = config
  <2>1. know' = know
    BY DEF InstallIInv, Typed, KnowType, Does
  <2> QED
    BY <2>1, DoesRun
<1>2. run.conf \in Configs /\ n \in Node /\ RunInv
  BY AtNode
<1>3. UNCHANGED <<hosts, roles, client>>
  BY DEF meshVars
<1>4. Registered' = Registered
  BY DEF Registered
<1>5. MeshTypeOK' /\ MachineType' /\ WorldInv' /\ RolesOnce'
  BY <1>3 DEF InstallIInv, Typed, MeshTypeOK, MachineType, WorldInv, RolesOnce
<1>6. KnowInv'
  BY <1>1, <1>3 DEF InstallIInv, KnowInv, SameRun, Existing
<1>7. AbleInv'
  BY <1>1, <1>3, <1>4 DEF InstallIInv, AbleInv, SameRun, RolesInOrder, Existing, ServerUp
<1>8. Stays
  BY <1>1, <1>3, KnowsStay DEF Stays, ServerUp
<1>9. \A x : \A m : Learned(x, m) => Learned(x, m)'
  <2>1. disk' = disk /\ know' = know /\ run'.conf = run.conf /\ run'.able = run.able
    BY <1>1 DEF SameRun
  <2>2. \A m : /\ KnowsRoles(m)' <=> KnowsRoles(m)
               /\ KnowsAddress(m)' <=> KnowsAddress(m)
               /\ KnowsHost(m)' <=> KnowsHost(m)
    BY <1>1, <1>3, KnowsStay
  <2>3. \A m : (Loaded(m)' <=> Loaded(m)) /\ (RuntimeLoaded(m)' <=> RuntimeLoaded(m))
    BY <1>1 DEF Loaded, RuntimeLoaded, SameRun
  <2> SUFFICES ASSUME NEW x, NEW m, Learned(x, m) PROVE Learned(x, m)'
    OBVIOUS
  <2> QED
    BY <2>1, <2>2, <2>3, LearnedIsSame
<1>10. ASSUME ~run.failed, NEW x \in Asked, NEW m \in For(x), Brought(x, m)
       PROVE  Brought(x, m)'
  <2>1. MeshBrought(x, m)'
    BY <1>1, <1>3, <1>10 DEF Brought, MeshBrought, SameRun, Existing, HostsOf, AddressOf
  <2>2. DiskBrought(x, m)'
    BY <1>1, <1>10 DEF Brought, DiskBrought, SameRun, HasRegistries
  <2>3. K3sBrought(x, m)'
    BY <1>1, <1>10 DEF Brought, K3sBrought, SameRun, Loaded, RuntimeLoaded, ServerUp, HasRegistries
  <2>4. JoinBrought(x, m)'
    BY <1>1, <1>4, <1>10 DEF Brought, JoinBrought, SameRun, Ready
  <2>5. ClusterBrought(x, m)'
    BY <1>1, <1>10 DEF Brought, SameRun
  <2> QED
    BY <2>1, <2>2, <2>3, <2>4, <2>5 DEF Brought
<1>11. ~run.failed => Learned(y, n)' /\ Brought(y, n)'
  BY DEF Brought
<1> QED
  BY <1>5, <1>6, <1>7, <1>8, <1>9, <1>10, <1>11, DoesKeeps

(* K3s started on a node, with what is on its disk.                        *)
LEMMA K3sKeeps ==
    ASSUME InstallIInv, NEW n \in run.todo,
           NEW y \in {"restart-k3s", "install-k3s-server", "install-k3s-agent",
                      "restart-k3s-for-nvidia"},
           y = Head(run.steps), Does(n, know[n]),
           UNCHANGED <<meshVars, disk, byHand, cluster>>,
           NEW k, k3s' = [k3s EXCEPT ![n] = k],
           k \in K3sType, k.up, ~k.joined,
           k.registries = disk[n].registries, k.runtime = disk[n].toolkit,
           k.credentials = k3s[n].credentials,
           k.address = k3s[n].address \/ k.address = AddressFor(run.conf, n),
           n = Server /\ run.conf.clients # 0 /\ k3s[n].flag => k.flag,
           ~run.failed /\ "check-k3s-service" \in Asked => HasRegistries(n),
           ~run.failed => K3sBrought(y, n)'
    PROVE  InstallIInv'
<1>1. SameRun(run', run) /\ know' = know /\ config' = config
  <2>1. know' = know
    BY DEF InstallIInv, Typed, KnowType, Does
  <2> QED
    BY <2>1, DoesRun
<1>2. run.conf \in Configs /\ n \in Node /\ RunInv /\ k3s \in [Node -> K3sType]
  BY AtNode DEF InstallIInv, Typed, MachineType
<1>3. UNCHANGED <<hosts, roles, client>>
  BY DEF meshVars
<1>4. /\ k3s' \in [Node -> K3sType] /\ k3s'[n] = k
      /\ \A m \in Node : m # n => k3s'[m] = k3s[m]
  BY <1>2
<1>5. Registered' = Registered
  BY DEF Registered
<1>6. MeshTypeOK' /\ MachineType' /\ RolesOnce'
  BY <1>3, <1>4 DEF InstallIInv, Typed, MeshTypeOK, MachineType, RolesOnce
<1>7. WorldInv'
  <2>1. \A m \in Node : k3s'[m].joined => cluster.registered[m] = k3s'[m].address
    BY <1>4 DEF InstallIInv, WorldInv
  <2> QED
    BY <1>3, <2>1 DEF InstallIInv, WorldInv
<1>8. \A m \in Node : k3s[m].up => k3s'[m].up
  BY <1>4
<1>9. KnowInv'
  BY <1>1, <1>3, <1>8 DEF InstallIInv, KnowInv, SameRun, Existing
<1>10. Server \in Node
  BY ConstantsAssumption
<1>11. AbleInv'
  <2>1. run.conf.clients = 0 \/ k3s[Server].flag \/ byHand
          => run.conf.clients = 0 \/ k3s'[Server].flag \/ byHand
    BY <1>4, <1>10
  <2>2. \A m \in Registered : k3s[m].up => k3s'[m].up
    BY <1>8 DEF Registered
  <2>3. ServerUp => ServerUp'
    BY <1>8, <1>10 DEF ServerUp
  <2>4. Existing' = Existing /\ \A c : RolesInOrder(c)' <=> RolesInOrder(c)
    BY <1>3 DEF Existing, RolesInOrder
  <2> QED
    BY <1>1, <1>3, <1>5, <2>1, <2>2, <2>3, <2>4, AbleStays DEF InstallIInv
<1>12. Stays
  BY <1>1, <1>3, <1>8, <1>10, KnowsStay DEF Stays, ServerUp
<1>13. ASSUME ~run.failed, NEW x \in Asked, NEW m \in For(x)
       PROVE  /\ Learned(x, m) => Learned(x, m)'
              /\ Brought(x, m) => Brought(x, m)'
  <2>1. m \in Node /\ disk' = disk /\ know' = know /\ run'.conf = run.conf /\ run'.able = run.able
    BY <1>1, <1>2, <1>13, ScopeType DEF RunInv, RunType, For, SameRun
  <2>2. /\ KnowsRoles(m)' <=> KnowsRoles(m)
        /\ KnowsAddress(m)' <=> KnowsAddress(m)
        /\ KnowsHost(m)' <=> KnowsHost(m)
    BY <1>1, <1>3, KnowsStay
  <2>3. x = "check-k3s-service" => (Loaded(m) => Loaded(m)')
    BY <1>4, <1>13, <2>1 DEF Loaded, HasRegistries
  <2>4. disk[m].toolkit /\ RuntimeLoaded(m) => RuntimeLoaded(m)'
    BY <1>4, <2>1 DEF RuntimeLoaded
  <2>5. Learned(x, m) => Learned(x, m)'
    BY <2>1, <2>2, <2>3, <2>4 DEF Learned
  <2>6. MeshBrought(x, m) => MeshBrought(x, m)'
    BY <1>3, <2>1 DEF MeshBrought, Existing, HostsOf, AddressOf
  <2>7. HasRegistries(m)' <=> HasRegistries(m)
    BY <2>1 DEF HasRegistries
  <2>8. DiskBrought(x, m) => DiskBrought(x, m)'
    BY <2>1, <2>7 DEF DiskBrought
  <2>9. K3sBrought(x, m) => K3sBrought(x, m)'
    <3>1. HasRegistries(m) /\ Loaded(m) => Loaded(m)'
      BY <1>4, <2>1 DEF Loaded, HasRegistries
    <3>2. x = "verify-authentication-config" => m = Server
      BY <1>2, <1>13, Fors DEF OnServers
    <3>3. k3s[m].up /\ k3s[m].address = AddressFor(run.conf, m) =>
             k3s'[m].up /\ k3s'[m].address = AddressFor(run.conf, m)
      BY <1>4, <2>1
    <3>4. run.conf.clients # 0 /\ m = Server /\ k3s[m].flag => k3s'[m].flag
      BY <1>4, <2>1
    <3>5. ServerUp => ServerUp'
      BY <1>8, <1>10 DEF ServerUp
    <3> SUFFICES ASSUME K3sBrought(x, m) PROVE K3sBrought(x, m)'
      OBVIOUS
    <3>6. /\ x = "restart-k3s" => HasRegistries(m)' /\ Loaded(m)'
          /\ x = "verify-authentication-config" => (run'.conf.clients # 0 => k3s'[m].flag \/ byHand')
      BY <2>1, <2>7, <3>1, <3>2, <3>4 DEF K3sBrought
    <3>7. /\ x \in {"install-k3s-server", "install-k3s-agent"} =>
                k3s'[m].up /\ k3s'[m].address = AddressFor(run'.conf, m)
          /\ x = "restart-k3s-for-nvidia" => (m \in Gpu => disk'[m].toolkit /\ RuntimeLoaded(m)')
          /\ x = "check-cluster-online" => ServerUp'
      BY <2>1, <2>4, <3>3, <3>5 DEF K3sBrought
    <3> QED
      BY <3>6, <3>7 DEF K3sBrought
  <2>10. JoinBrought(x, m) => JoinBrought(x, m)'
    <3>1. \A i \in Node : Ready(i) => Ready(i)'
      BY <1>4, <1>5 DEF Ready
    <3>2. \A i \in Registered : i \in Node
      BY DEF Registered
    <3>3. k3s[m].credentials => k3s'[m].credentials
      BY <1>4, <2>1
    <3>4. k3s[m].address = AddressFor(run.conf, m) => k3s'[m].address = AddressFor(run.conf, m)
      BY <1>4, <2>1
    <3> SUFFICES ASSUME JoinBrought(x, m) PROVE JoinBrought(x, m)'
      OBVIOUS
    <3>5. /\ x = "verify-k3s" => IF m = Server THEN m \in Registered' ELSE k3s'[m].credentials
          /\ x = "verify-node-ip" =>
                (ChecksAddress(run'.conf, m) => /\ cluster'.registered[m] = AddressFor(run'.conf, m)
                                                /\ k3s'[m].address = AddressFor(run'.conf, m))
      BY <1>5, <2>1, <3>3, <3>4 DEF JoinBrought
    <3>6. /\ x = "check-cluster-access" => m \in Registered'
          /\ x = "verify-cilium" => \A i \in Registered' : Ready(i)'
          /\ x = "verify-node-ready" => Ready(m)'
      BY <1>5, <2>1, <3>1, <3>2 DEF JoinBrought
    <3> QED
      BY <3>5, <3>6 DEF JoinBrought
  <2>11. ClusterBrought(x, m) => ClusterBrought(x, m)'
    BY <2>1 DEF ClusterBrought
  <2> QED
    BY <2>5, <2>6, <2>8, <2>9, <2>10, <2>11 DEF Brought
<1>14. Learned(y, n)'
  BY DEF Learned
<1>15. ~run.failed => Brought(y, n)'
  <2>1. y \notin RolesOf(run'.conf)
    BY <1>1, <1>2, NoRole DEF SameRun, Applied
  <2>2. MeshBrought(y, n)' /\ DiskBrought(y, n)' /\ JoinBrought(y, n)' /\ ClusterBrought(y, n)'
    BY <2>1 DEF MeshBrought, DiskBrought, JoinBrought, ClusterBrought
  <2> QED
    BY <2>2 DEF Brought
<1> QED
  BY <1>6, <1>7, <1>9, <1>11, <1>12, <1>13, <1>14, <1>15, DoesKeeps

-----------------------------------------------------------------------------
(* The steps that change a disk, the cluster or a K3s                      *)

(* The registries are on the disk, unless they can't be rendered.          *)
LEMMA WriteRegistriesKeeps ==
    ASSUME InstallIInv, NEW n \in Node, WriteRegistries(n), UNCHANGED meshVars
    PROVE  InstallIInv'
<1>1. /\ n \in run.todo /\ Head(run.steps) = "write-registries-config"
      /\ UNCHANGED <<k3s, byHand, cluster>>
  BY DEF WriteRegistries, Doing, At
<1>2. run.conf \in Configs
  BY <1>1, AtNode
<1>3. CASE Renders(run.conf)
  <2>1. disk' = [disk EXCEPT ![n].registries = run.conf.registries] /\ Does(n, know[n])
    BY <1>3 DEF WriteRegistries
  <2>2. disk \in [Node -> DiskType] /\ run.conf.registries \in Nat
    BY <1>2, ConfigsAssumption DEF InstallIInv, Typed, MachineType
  <2>3. disk' \in [Node -> DiskType]
    BY <2>1, <2>2 DEF DiskType
  <2>4. \A m \in Node : /\ disk'[m].driver = disk[m].driver
                        /\ disk[m].toolkit => disk'[m].toolkit
                        /\ \/ disk'[m].registries = disk[m].registries
                           \/ disk'[m].registries = run.conf.registries
                        /\ disk'[m].auth = disk[m].auth
    BY <2>1, <2>2 DEF DiskType
  <2>5. run'.conf = run.conf
    BY <1>1, <2>1, DoesRun DEF SameRun
  <2>6. DiskBrought("write-registries-config", n)'
    BY <2>1, <2>2, <2>5 DEF DiskBrought, HasRegistries, DiskType
  <2> QED
    BY <1>1, <2>1, <2>3, <2>4, <2>6, DiskKeeps
<1>4. CASE ~Renders(run.conf)
  <2>1. disk' = disk /\ Looks(n, FALSE, know[n])
    BY <1>4 DEF WriteRegistries
  <2>2. WorldKept
    BY <1>1, <2>1 DEF WorldKept, machineVars
  <2>3. ~run.able
    BY <1>4 DEF InstallIInv, AbleInv
  <2> QED
    BY <1>1, <2>1, <2>2, <2>3, LooksAround
<1> QED
  BY <1>3, <1>4

(* The sign-in's clients are on the server's disk.                         *)
LEMMA WriteAuthenticationConfigKeeps ==
    ASSUME InstallIInv, WriteAuthenticationConfig, UNCHANGED meshVars
    PROVE  InstallIInv'
<1>1. /\ Server \in run.todo /\ Head(run.steps) = "write-authentication-config"
      /\ UNCHANGED <<k3s, byHand, cluster>>
      /\ disk' = [disk EXCEPT ![Server].auth = run.conf.clients] /\ Does(Server, know[Server])
  BY DEF WriteAuthenticationConfig, Doing, At
<1>2. run.conf \in Configs /\ Server \in Node
  BY <1>1, AtNode
<1>3. disk \in [Node -> DiskType] /\ run.conf.clients \in Nat
  BY <1>2, ConfigsAssumption DEF InstallIInv, Typed, MachineType
<1>4. disk' \in [Node -> DiskType]
  BY <1>1, <1>3 DEF DiskType
<1>5. \A m \in Node : /\ disk'[m].driver = disk[m].driver
                      /\ disk[m].toolkit => disk'[m].toolkit
                      /\ disk'[m].registries = disk[m].registries
                      /\ \/ disk'[m].auth = disk[m].auth
                         \/ disk'[m].auth = run.conf.clients
  BY <1>1, <1>3 DEF DiskType
<1>6. run'.conf = run.conf
  BY <1>1, DoesRun DEF SameRun
<1>7. DiskBrought("write-authentication-config", Server)'
  BY <1>1, <1>2, <1>3, <1>6 DEF DiskBrought, DiskType
<1> QED
  BY <1>1, <1>4, <1>5, <1>7, DiskKeeps

(* The toolkit is on the disk.                                             *)
LEMMA InstallToolkitKeeps ==
    ASSUME InstallIInv, NEW n \in Node, InstallToolkit(n), UNCHANGED meshVars
    PROVE  InstallIInv'
<1>1. /\ n \in run.todo /\ Head(run.steps) = "install-nvidia-container-toolkit"
      /\ UNCHANGED <<k3s, byHand, cluster>>
      /\ disk' = [disk EXCEPT ![n].toolkit = TRUE] /\ Does(n, know[n])
  BY DEF InstallToolkit, Doing, At
<1>2. disk \in [Node -> DiskType]
  BY DEF InstallIInv, Typed, MachineType
<1>3. disk' \in [Node -> DiskType]
  BY <1>1, <1>2 DEF DiskType
<1>4. \A m \in Node : /\ disk'[m].driver = disk[m].driver
                      /\ disk[m].toolkit => disk'[m].toolkit
                      /\ disk'[m].registries = disk[m].registries
                      /\ disk'[m].auth = disk[m].auth
  BY <1>1, <1>2 DEF DiskType
<1>5. DiskBrought("install-nvidia-container-toolkit", n)'
  BY <1>1, <1>2 DEF DiskBrought, DiskType
<1> QED
  BY <1>1, <1>3, <1>4, <1>5, DiskKeeps

\* Steps whose only trace is in the cluster.
InCluster ==
    {"apply-node-labels", "install-gateway-api", "install-cilium", "label-gateway-nodes",
     "apply-lb-ip-pool", "apply-l2-announcement", "apply-cluster-gateway",
     "label-nvidia-driver", "write-cluster-config"}

(* There is nothing else to be shown of such a step.                       *)
LEMMA InClusterSteps ==
    ASSUME NEW y \in InCluster, NEW n, run'.conf \in Configs
    PROVE  /\ y \in Applied
           /\ Learned(y, n)' /\ MeshBrought(y, n)' /\ DiskBrought(y, n)'
           /\ K3sBrought(y, n)' /\ JoinBrought(y, n)'
<1>1. y \in Applied
  BY DEF InCluster, Applied
<1>2. y \notin RolesOf(run'.conf)
  BY <1>1, NamesAssumption
<1> QED
  BY <1>1, <1>2 DEF InCluster, Learned, MeshBrought, DiskBrought, K3sBrought, JoinBrought

(* What is asked for of the cluster, one step at a time.                   *)
LEMMA AppliedKeeps ==
    ASSUME InstallIInv, NEW n \in run.todo, NEW y \in InCluster,
           y = Head(run.steps), Does(n, know[n]),
           UNCHANGED <<meshVars, disk, k3s, byHand>>,
           cluster' \in ClusterType,
           cluster'.registered = cluster.registered,
           cluster'.cilium # "without",
           cluster.cilium = "with controller" => cluster'.cilium = "with controller",
           cluster.crds => cluster'.crds,
           run'.conf = run.conf /\ ~run.failed =>
              /\ \A x \in Asked : \A m \in For(x) : ClusterBrought(x, m) => ClusterBrought(x, m)'
              /\ ClusterBrought(y, n)'
    PROVE  InstallIInv'
<1>1. SameRun(run', run)
  BY DoesRun
<1>2. run.conf \in Configs /\ run'.conf = run.conf
  BY <1>1, AtNode DEF SameRun
<1>3. /\ y \in Applied
      /\ Learned(y, n)' /\ MeshBrought(y, n)' /\ DiskBrought(y, n)'
      /\ K3sBrought(y, n)' /\ JoinBrought(y, n)'
  BY <1>2, InClusterSteps
<1> QED
  BY <1>2, <1>3, ClusterKeeps

(* The labels of one node; those of the others stay.                       *)
LEMMA ApplyNodeLabelsKeeps ==
    ASSUME InstallIInv, NEW n \in Node, ApplyNodeLabels(n), UNCHANGED meshVars
    PROVE  InstallIInv'
<1>1. /\ n \in run.todo /\ Head(run.steps) = "apply-node-labels"
      /\ UNCHANGED <<disk, k3s, byHand>> /\ Does(n, know[n])
      /\ cluster' = [cluster EXCEPT !.gateways = LabelledAsMeant(n)]
  BY DEF ApplyNodeLabels, Doing, At
<1>2. cluster \in ClusterType /\ cluster.cilium # "without"
  BY DEF InstallIInv, Typed, MachineType, WorldInv
<1>3. /\ cluster'.registered = cluster.registered /\ cluster'.cilium = cluster.cilium
      /\ cluster'.crds = cluster.crds /\ cluster'.pool = cluster.pool
      /\ cluster'.policy = cluster.policy /\ cluster'.gateway = cluster.gateway
      /\ cluster'.gpus = cluster.gpus /\ cluster'.record = cluster.record
      /\ cluster'.gateways = LabelledAsMeant(n)
  BY <1>1, <1>2 DEF ClusterType
<1>4. LabelledAsMeant(n) \in SUBSET Node
  BY <1>2 DEF ClusterType, LabelledAsMeant
<1>5. cluster' \in ClusterType
  BY <1>1, <1>2, <1>4 DEF ClusterType
<1>6. ASSUME run'.conf = run.conf
      PROVE  /\ \A x, m : ClusterBrought(x, m) => ClusterBrought(x, m)'
             /\ ClusterBrought("apply-node-labels", n)'
  <2>1. \A m : (m \in cluster.gateways <=> m \in run.conf.gateways)
                  => (m \in cluster'.gateways <=> m \in run.conf.gateways)
    BY <1>3 DEF LabelledAsMeant
  <2>2. n \in cluster'.gateways <=> n \in run.conf.gateways
    BY <1>3 DEF LabelledAsMeant
  <2> QED
    BY <1>1, <1>3, <1>6, <2>1, <2>2 DEF ClusterBrought
<1> QED
  BY <1>1, <1>2, <1>3, <1>5, <1>6, AppliedKeeps DEF InCluster

(* The Gateway API.                                                        *)
LEMMA InstallGatewayApiKeeps ==
    ASSUME InstallIInv, InstallGatewayApi, UNCHANGED meshVars
    PROVE  InstallIInv'
<1>1. /\ Server \in run.todo /\ Head(run.steps) = "install-gateway-api"
      /\ UNCHANGED <<disk, k3s, byHand>> /\ Does(Server, know[Server])
      /\ cluster' = [cluster EXCEPT !.crds = TRUE]
  BY DEF InstallGatewayApi, Doing, At
<1>2. cluster \in ClusterType /\ cluster.cilium # "without" /\ run.conf \in Configs
  BY <1>1, AtNode DEF InstallIInv, Typed, MachineType, WorldInv
<1>3. /\ cluster'.registered = cluster.registered
      /\ cluster'.cilium = cluster.cilium
      /\ cluster'.pool = cluster.pool
      /\ cluster'.policy = cluster.policy
      /\ cluster'.gateway = cluster.gateway
      /\ cluster'.gpus = cluster.gpus
      /\ cluster'.record = cluster.record
      /\ cluster'.gateways = cluster.gateways
      /\ cluster'.crds = TRUE
  BY <1>1, <1>2 DEF ClusterType
<1>4. TRUE \in BOOLEAN
  OBVIOUS
<1>5. cluster' \in ClusterType
  BY <1>1, <1>2, <1>4 DEF ClusterType
<1>6. ASSUME run'.conf = run.conf
      PROVE  /\ \A x, m : ClusterBrought(x, m) => ClusterBrought(x, m)'
             /\ ClusterBrought("install-gateway-api", Server)'
  BY <1>1, <1>3, <1>6 DEF ClusterBrought
<1> QED
  BY <1>1, <1>2, <1>3, <1>5, <1>6, AppliedKeeps DEF InCluster

(* The addresses to hand out.                                              *)
LEMMA ApplyLbIpPoolKeeps ==
    ASSUME InstallIInv, ApplyLbIpPool, UNCHANGED meshVars
    PROVE  InstallIInv'
<1>1. /\ Server \in run.todo /\ Head(run.steps) = "apply-lb-ip-pool"
      /\ UNCHANGED <<disk, k3s, byHand>> /\ Does(Server, know[Server])
      /\ cluster' = [cluster EXCEPT !.pool = Addresses(run.conf)]
  BY DEF ApplyLbIpPool, Doing, At
<1>2. cluster \in ClusterType /\ cluster.cilium # "without" /\ run.conf \in Configs
  BY <1>1, AtNode DEF InstallIInv, Typed, MachineType, WorldInv
<1>3. /\ cluster'.registered = cluster.registered
      /\ cluster'.cilium = cluster.cilium
      /\ cluster'.crds = cluster.crds
      /\ cluster'.policy = cluster.policy
      /\ cluster'.gateway = cluster.gateway
      /\ cluster'.gpus = cluster.gpus
      /\ cluster'.record = cluster.record
      /\ cluster'.gateways = cluster.gateways
      /\ cluster'.pool = Addresses(run.conf)
  BY <1>1, <1>2 DEF ClusterType
<1>4. Addresses(run.conf) \in SUBSET (Node \cup {"lan"})
  BY <1>2, ConfigsAssumption, ConstantsAssumption DEF Addresses
<1>5. cluster' \in ClusterType
  BY <1>1, <1>2, <1>4 DEF ClusterType
<1>6. ASSUME run'.conf = run.conf
      PROVE  /\ \A x, m : ClusterBrought(x, m) => ClusterBrought(x, m)'
             /\ ClusterBrought("apply-lb-ip-pool", Server)'
  BY <1>1, <1>3, <1>6 DEF ClusterBrought
<1> QED
  BY <1>1, <1>2, <1>3, <1>5, <1>6, AppliedKeeps DEF InCluster

(* The announcement of those of a forwarded port.                          *)
LEMMA ApplyL2AnnouncementKeeps ==
    ASSUME InstallIInv, ApplyL2Announcement, UNCHANGED meshVars
    PROVE  InstallIInv'
<1>1. /\ Server \in run.todo /\ Head(run.steps) = "apply-l2-announcement"
      /\ UNCHANGED <<disk, k3s, byHand>> /\ Does(Server, know[Server])
      /\ cluster' = [cluster EXCEPT !.policy = TRUE]
  BY DEF ApplyL2Announcement, Doing, At
<1>2. cluster \in ClusterType /\ cluster.cilium # "without" /\ run.conf \in Configs
  BY <1>1, AtNode DEF InstallIInv, Typed, MachineType, WorldInv
<1>3. /\ cluster'.registered = cluster.registered
      /\ cluster'.cilium = cluster.cilium
      /\ cluster'.crds = cluster.crds
      /\ cluster'.pool = cluster.pool
      /\ cluster'.gateway = cluster.gateway
      /\ cluster'.gpus = cluster.gpus
      /\ cluster'.record = cluster.record
      /\ cluster'.gateways = cluster.gateways
      /\ cluster'.policy = TRUE
  BY <1>1, <1>2 DEF ClusterType
<1>4. TRUE \in BOOLEAN
  OBVIOUS
<1>5. cluster' \in ClusterType
  BY <1>1, <1>2, <1>4 DEF ClusterType
<1>6. ASSUME run'.conf = run.conf
      PROVE  /\ \A x, m : ClusterBrought(x, m) => ClusterBrought(x, m)'
             /\ ClusterBrought("apply-l2-announcement", Server)'
  BY <1>1, <1>3, <1>6 DEF ClusterBrought
<1> QED
  BY <1>1, <1>2, <1>3, <1>5, <1>6, AppliedKeeps DEF InCluster

(* The gateway, on the addresses there are.                                *)
LEMMA ApplyClusterGatewayKeeps ==
    ASSUME InstallIInv, ApplyClusterGateway, UNCHANGED meshVars
    PROVE  InstallIInv'
<1>1. /\ Server \in run.todo /\ Head(run.steps) = "apply-cluster-gateway"
      /\ UNCHANGED <<disk, k3s, byHand>> /\ Does(Server, know[Server])
      /\ cluster' = [cluster EXCEPT !.gateway = Addresses(run.conf)]
  BY DEF ApplyClusterGateway, Doing, At
<1>2. cluster \in ClusterType /\ cluster.cilium # "without" /\ run.conf \in Configs
  BY <1>1, AtNode DEF InstallIInv, Typed, MachineType, WorldInv
<1>3. /\ cluster'.registered = cluster.registered
      /\ cluster'.cilium = cluster.cilium
      /\ cluster'.crds = cluster.crds
      /\ cluster'.pool = cluster.pool
      /\ cluster'.policy = cluster.policy
      /\ cluster'.gpus = cluster.gpus
      /\ cluster'.record = cluster.record
      /\ cluster'.gateways = cluster.gateways
      /\ cluster'.gateway = Addresses(run.conf)
  BY <1>1, <1>2 DEF ClusterType
<1>4. Addresses(run.conf) \in SUBSET (Node \cup {"lan"})
  BY <1>2, ConfigsAssumption, ConstantsAssumption DEF Addresses
<1>5. cluster' \in ClusterType
  BY <1>1, <1>2, <1>4 DEF ClusterType
<1>6. ASSUME run'.conf = run.conf
      PROVE  /\ \A x, m : ClusterBrought(x, m) => ClusterBrought(x, m)'
             /\ ClusterBrought("apply-cluster-gateway", Server)'
  BY <1>1, <1>3, <1>6 DEF ClusterBrought
<1> QED
  BY <1>1, <1>2, <1>3, <1>5, <1>6, AppliedKeeps DEF InCluster

(* The record.                                                             *)
LEMMA WriteClusterConfigKeeps ==
    ASSUME InstallIInv, WriteClusterConfig, UNCHANGED meshVars
    PROVE  InstallIInv'
<1>1. /\ Server \in run.todo /\ Head(run.steps) = "write-cluster-config"
      /\ UNCHANGED <<disk, k3s, byHand>> /\ Does(Server, know[Server])
      /\ cluster' = [cluster EXCEPT !.record = {run.conf}]
  BY DEF WriteClusterConfig, Doing, At
<1>2. cluster \in ClusterType /\ cluster.cilium # "without" /\ run.conf \in Configs
  BY <1>1, AtNode DEF InstallIInv, Typed, MachineType, WorldInv
<1>3. /\ cluster'.registered = cluster.registered
      /\ cluster'.cilium = cluster.cilium
      /\ cluster'.crds = cluster.crds
      /\ cluster'.pool = cluster.pool
      /\ cluster'.policy = cluster.policy
      /\ cluster'.gateway = cluster.gateway
      /\ cluster'.gpus = cluster.gpus
      /\ cluster'.gateways = cluster.gateways
      /\ cluster'.record = {run.conf}
  BY <1>1, <1>2 DEF ClusterType
<1>4. {run.conf} \in SUBSET Configs
  BY <1>2
<1>5. cluster' \in ClusterType
  BY <1>1, <1>2, <1>4 DEF ClusterType
<1>6. ASSUME run'.conf = run.conf
      PROVE  /\ \A x, m : ClusterBrought(x, m) => ClusterBrought(x, m)'
             /\ ClusterBrought("write-cluster-config", Server)'
  BY <1>1, <1>3, <1>6 DEF ClusterBrought
<1> QED
  BY <1>1, <1>2, <1>3, <1>5, <1>6, AppliedKeeps DEF InCluster

(* Cilium gets a controller, the Gateway API being there: whatever has     *)
(* failed meanwhile, no node is at this step before all are through that   *)
(* one.                                                                    *)
LEMMA InstallCiliumKeeps ==
    ASSUME InstallIInv, InstallCilium, UNCHANGED meshVars
    PROVE  InstallIInv'
<1> DEFINE found == IF cluster.cilium # "absent" THEN cluster.cilium
                    ELSE IF cluster.crds THEN "with controller" ELSE "without"
<1>1. /\ Server \in run.todo /\ Head(run.steps) = "install-cilium"
      /\ UNCHANGED <<disk, k3s, byHand>> /\ Does(Server, know[Server])
      /\ cluster' = [cluster EXCEPT !.cilium = found]
  BY DEF InstallCilium, Doing, At
<1>2. /\ cluster \in ClusterType /\ cluster.cilium # "without"
      /\ run.conf \in Configs /\ run.steps # <<>> /\ RunInv /\ Server \in Node
      /\ "install-cilium" \in Asked /\ (run.verifying => "install-cilium" \in Prompt)
  BY <1>1, AtNode DEF InstallIInv, Typed, MachineType, WorldInv
<1>3. cluster.crds
  <2>1. ~run.verifying
    BY <1>2 DEF Prompt
  <2>2. "install-gateway-api" \in Asked
    BY <1>2, Together DEF InstallSteps
  <2>3. Base("install-gateway-api") = 30 /\ Base("install-cilium") = 31
    BY Bases
  <2>4. Head(run.steps) = "install-cilium"
    BY <1>1
  <2>5. Base(Head(run.steps)) = 31
    BY <2>3, <2>4
  <2>6. Base("install-gateway-api") < Base(Head(run.steps))
    BY <2>3, <2>5
  <2>7. "install-gateway-api" \in Prompt \cup Applied /\ "install-cilium" \in Prompt \cup Applied
    BY DEF Applied
  <2>8. "install-gateway-api" # Repeated /\ "install-cilium" # Repeated
    BY DEF Repeated
  <2>9. Server \in For("install-gateway-api")
    BY <1>2, Fors DEF Once
  <2>10. Behind("install-gateway-api", Server)
    BY <1>1, <1>2, <2>1, <2>2, <2>6, <2>7, <2>8, <2>9, Before
  <2> QED
    BY <1>2, <2>10 DEF InstallIInv, BehindInv
<1>4. found = "with controller"
  BY <1>2, <1>3 DEF ClusterType
<1> HIDE DEF found
<1>5. /\ cluster'.registered = cluster.registered /\ cluster'.gateways = cluster.gateways
      /\ cluster'.crds = cluster.crds /\ cluster'.pool = cluster.pool
      /\ cluster'.policy = cluster.policy /\ cluster'.gateway = cluster.gateway
      /\ cluster'.gpus = cluster.gpus /\ cluster'.record = cluster.record
  BY <1>1, <1>2 DEF ClusterType
<1>6. cluster'.cilium = "with controller"
  BY <1>1, <1>2, <1>4 DEF ClusterType
<1>7. cluster' \in ClusterType
  BY <1>1, <1>2, <1>4 DEF ClusterType
<1>8. ASSUME run'.conf = run.conf
      PROVE  /\ \A x, m : ClusterBrought(x, m) => ClusterBrought(x, m)'
             /\ ClusterBrought("install-cilium", Server)'
  <2>1. cluster'.cilium # "absent"
    BY <1>6
  <2> QED
    BY <1>1, <1>5, <1>8, <2>1 DEF ClusterBrought
<1> QED
  BY <1>1, <1>5, <1>6, <1>7, <1>8, AppliedKeeps DEF InCluster

(* The label of a node with a driver.                                      *)
LEMMA LabelDriverKeeps ==
    ASSUME InstallIInv, NEW n \in Node, LabelDriver(n), UNCHANGED meshVars
    PROVE  InstallIInv'
<1> DEFINE labelled == IF know[n].driver THEN cluster.gpus \cup {n} ELSE cluster.gpus \ {n}
<1>1. /\ n \in run.todo /\ Head(run.steps) = "label-nvidia-driver"
      /\ UNCHANGED <<disk, k3s, byHand>> /\ Does(n, know[n])
      /\ cluster' = [cluster EXCEPT !.gpus = labelled]
  BY DEF LabelDriver, Doing, At
<1>2. n \in Gpu
  <2>1. Nvidia[5] = "label-nvidia-driver" /\ 5 \in DOMAIN Nvidia
    BY DEF Nvidia
  <2> QED
    BY <2>1 DEF LabelDriver, Doing, NothingToDo
<1>3. /\ cluster \in ClusterType /\ cluster.cilium # "without" /\ run.conf \in Configs
      /\ run.steps # <<>> /\ n \in run.nodes
      /\ (run.verifying => "label-nvidia-driver" \in Prompt)
  BY <1>1, AtNode DEF InstallIInv, Typed, MachineType, WorldInv, PerNode
<1>4. ~run.failed => (know[n].driver <=> disk[n].driver)
  <2>1. SUFFICES ASSUME ~run.failed PROVE know[n].driver <=> disk[n].driver
    OBVIOUS
  <2>2. Learned("check-nvidia-driver", n)
    BY <1>1, <1>3, <2>1, Follows DEF RestsOn, PerNode, Prompt
  <2> QED
    BY <1>2, <2>2, LearnedIs
<1>5. labelled \in SUBSET Node
  BY <1>3 DEF ClusterType
<1>6. /\ n \in labelled <=> know[n].driver
      /\ \A m : m # n => (m \in labelled <=> m \in cluster.gpus)
  OBVIOUS
<1> HIDE DEF labelled
<1>7. /\ cluster'.registered = cluster.registered /\ cluster'.gateways = cluster.gateways
      /\ cluster'.crds = cluster.crds /\ cluster'.pool = cluster.pool
      /\ cluster'.policy = cluster.policy /\ cluster'.gateway = cluster.gateway
      /\ cluster'.gpus = labelled /\ cluster'.record = cluster.record
      /\ cluster'.cilium = cluster.cilium
  BY <1>1, <1>3 DEF ClusterType
<1>8. cluster' \in ClusterType
  BY <1>1, <1>3, <1>5 DEF ClusterType
<1>9. ASSUME run'.conf = run.conf, ~run.failed
      PROVE  /\ \A x, m : ClusterBrought(x, m) => ClusterBrought(x, m)'
             /\ ClusterBrought("label-nvidia-driver", n)'
  BY <1>1, <1>4, <1>6, <1>7, <1>9 DEF ClusterBrought
<1> QED
  BY <1>1, <1>3, <1>7, <1>8, <1>9, AppliedKeeps DEF InCluster

(* The gateways' labels, which were to be given, or had been.              *)
LEMMA LabelGatewayNodesKeeps ==
    ASSUME InstallIInv, LabelGatewayNodes, UNCHANGED meshVars
    PROVE  InstallIInv'
<1>1. /\ Server \in run.todo /\ Head(run.steps) = "label-gateway-nodes"
      /\ UNCHANGED <<disk, k3s, byHand>>
  BY DEF LabelGatewayNodes, Doing, At
<1>2. /\ cluster \in ClusterType /\ cluster.cilium # "without" /\ run.conf \in Configs
      /\ run.steps # <<>> /\ RunInv /\ "label-gateway-nodes" \in Asked
  BY <1>1, AtNode DEF InstallIInv, Typed, MachineType, WorldInv
<1>3. CASE run.conf.gateways \subseteq Registered
  <2>1. /\ cluster' = [cluster EXCEPT !.gateways = cluster.gateways \cup run.conf.gateways]
        /\ Does(Server, know[Server])
    BY <1>3 DEF LabelGatewayNodes
  <2>2. /\ cluster'.registered = cluster.registered /\ cluster'.cilium = cluster.cilium
        /\ cluster'.crds = cluster.crds /\ cluster'.pool = cluster.pool
        /\ cluster'.policy = cluster.policy /\ cluster'.gateway = cluster.gateway
        /\ cluster'.gpus = cluster.gpus /\ cluster'.record = cluster.record
        /\ cluster'.gateways = cluster.gateways \cup run.conf.gateways
    BY <2>1, <1>2 DEF ClusterType
  <2>3. run.conf.gateways \subseteq Node
    BY <1>2, ConfigsAssumption, ConstantsAssumption
  <2>4. cluster' \in ClusterType
    BY <1>2, <2>1, <2>3 DEF ClusterType
  <2>5. ASSUME run'.conf = run.conf
        PROVE  /\ \A x, m : ClusterBrought(x, m) => ClusterBrought(x, m)'
               /\ ClusterBrought("label-gateway-nodes", Server)'
    <3>1. \A m : (m \in cluster.gateways <=> m \in run.conf.gateways)
                    => (m \in cluster'.gateways <=> m \in run.conf.gateways)
      BY <2>2
    <3> QED
      BY <1>1, <2>2, <2>5, <3>1 DEF ClusterBrought
  <2> QED
    BY <1>1, <1>2, <2>1, <2>2, <2>4, <2>5, AppliedKeeps DEF InCluster
<1>4. CASE ~(run.conf.gateways \subseteq Registered)
  <2>1. cluster' = cluster /\ Looks(Server, FALSE, know[Server])
    BY <1>4 DEF LabelGatewayNodes
  <2>2. WorldKept
    BY <1>1, <2>1 DEF WorldKept, machineVars
  <2>3. ASSUME run.able, ~run.faulted
        PROVE  FALSE
    <3>1. ~run.failed
      BY <2>3, Standing
    <3>2. run.what = "install"
      BY <1>2, Together DEF InstallSteps
    <3>3. run.conf.gateways \subseteq run.nodes
      BY <1>2, <3>2, Fors, ConfigsAssumption
    <3>4. \A m \in run.nodes : Brought("check-cluster-access", m)
      BY <1>1, <1>2, <3>1, Follows DEF RestsOn, PerNode
    <3>5. \A m \in run.nodes : m \in Registered
      BY <1>2, <3>4, BroughtIs
    <3> QED
      BY <1>4, <3>3, <3>5
  <2>4. run.able \in BOOLEAN /\ run.faulted \in BOOLEAN
    BY <1>1, AtStep DEF RunType
  <2>5. run.failed \/ ~run.able \/ run.faulted
    BY <2>3, <2>4
  <2> QED
    BY <1>1, <2>1, <2>2, <2>5, LooksAround
<1> QED
  BY <1>3, <1>4

(* A K3s that is started has loaded what is on the disk and has yet to     *)
(* join; its address and its credentials stay.                             *)
LEMMA RestartedIs ==
    ASSUME NEW k \in K3sType, NEW d \in DiskType
    PROVE  LET r == Restarted(k, d)
           IN  /\ r \in K3sType
               /\ r.up /\ ~r.joined /\ r.registries = d.registries /\ r.runtime = d.toolkit
               /\ r.credentials = k.credentials /\ r.address = k.address /\ r.flag = k.flag
BY DEF Restarted, K3sType, DiskType

(* A restart is of a K3s that is up, which has loaded the registries now.  *)
LEMMA RestartK3sKeeps ==
    ASSUME InstallIInv, NEW n \in Node, RestartK3s(n), UNCHANGED meshVars
    PROVE  InstallIInv'
<1> DEFINE k == Restarted(k3s[n], disk[n])
<1>1. /\ n \in run.todo /\ Head(run.steps) = "restart-k3s"
      /\ UNCHANGED <<disk, byHand, cluster>> /\ Does(n, know[n])
      /\ k3s' = [k3s EXCEPT ![n] = k]
  BY DEF RestartK3s, Doing, At
<1>2. run.conf \in Configs /\ run.steps # <<>> /\ n \in run.nodes
  BY <1>1, AtNode DEF PerNode
<1>3. k3s \in [Node -> K3sType] /\ disk \in [Node -> DiskType]
  BY DEF InstallIInv, Typed, MachineType
<1>4. /\ k \in K3sType
      /\ k.up /\ ~k.joined /\ k.registries = disk[n].registries /\ k.runtime = disk[n].toolkit
      /\ k.credentials = k3s[n].credentials /\ k.address = k3s[n].address
      /\ k.flag = k3s[n].flag
  BY <1>3, RestartedIs
<1> HIDE DEF k
<1>5. ~run.failed => HasRegistries(n)
  <2>1. ~run.failed => Brought("write-registries-config", n)
    BY <1>1, <1>2, Follows DEF RestsOn, PerNode
  <2> QED
    BY <1>2, <2>1, BroughtIs
<1>6. run'.conf = run.conf
  BY <1>1, DoesRun DEF SameRun
<1>7. ~run.failed => K3sBrought("restart-k3s", n)'
  BY <1>1, <1>3, <1>4, <1>5, <1>6 DEF K3sBrought, HasRegistries, Loaded
<1> QED
  BY <1>1, <1>4, <1>5, <1>7, K3sKeeps

(* And one that has the toolkit now.                                       *)
LEMMA RestartForNvidiaKeeps ==
    ASSUME InstallIInv, NEW n \in Node, RestartForNvidia(n), UNCHANGED meshVars
    PROVE  InstallIInv'
<1> DEFINE k == Restarted(k3s[n], disk[n])
<1>1. /\ n \in run.todo /\ Head(run.steps) = "restart-k3s-for-nvidia"
      /\ UNCHANGED <<disk, byHand, cluster>> /\ Does(n, know[n])
      /\ k3s' = [k3s EXCEPT ![n] = k]
  BY DEF RestartForNvidia, Doing, At
<1>2. run.conf \in Configs /\ run.steps # <<>> /\ n \in run.nodes
  BY <1>1, AtNode DEF PerNode
<1>3. k3s \in [Node -> K3sType] /\ disk \in [Node -> DiskType]
  BY DEF InstallIInv, Typed, MachineType
<1>4. /\ k \in K3sType
      /\ k.up /\ ~k.joined /\ k.registries = disk[n].registries /\ k.runtime = disk[n].toolkit
      /\ k.credentials = k3s[n].credentials /\ k.address = k3s[n].address
      /\ k.flag = k3s[n].flag
  BY <1>3, RestartedIs
<1> HIDE DEF k
<1>5. ~run.failed => HasRegistries(n) /\ (n \in Gpu => disk[n].toolkit)
  <2>1. ~run.failed => /\ Brought("write-registries-config", n)
                       /\ Brought("install-nvidia-container-toolkit", n)
    BY <1>1, <1>2, Follows DEF RestsOn, PerNode
  <2> QED
    BY <1>2, <2>1, BroughtIs
<1>6. run'.conf = run.conf
  BY <1>1, DoesRun DEF SameRun
<1>7. ~run.failed => K3sBrought("restart-k3s-for-nvidia", n)'
  BY <1>1, <1>3, <1>4, <1>5, <1>6 DEF K3sBrought, RuntimeLoaded
<1> QED
  BY <1>1, <1>4, <1>5, <1>7, K3sKeeps

(* The address K3s is given, once a run has looked it up.                  *)
LEMMA AddressIsKnown ==
    ASSUME InstallIInv, NEW n \in run.nodes, run.steps # <<>>, n \in Node,
           Head(run.steps) \in {"install-k3s-server", "install-k3s-agent"}
    PROVE  (IF know[n].nodeIp = "none" THEN "local" ELSE know[n].nodeIp)
              = AddressFor(run.conf, n)
<1>1. RunInv /\ Head(run.steps) \in Asked /\ (run.verifying => Head(run.steps) \in Prompt)
  BY HeadIs DEF InstallIInv, RunInv, Due
<1>2. ~run.verifying
  BY <1>1 DEF Prompt
<1>3. "find-node-ip" \in Asked
  BY <1>1, Together DEF K3sSteps
<1>4. Base("find-node-ip") = 19 /\ Base("install-k3s-server") = 22
      /\ Base("install-k3s-agent") = 23
  BY Bases
<1>5. Base("find-node-ip") < Base(Head(run.steps))
  BY <1>4
<1>6. /\ "find-node-ip" \in Prompt \cup Applied /\ "find-node-ip" # Repeated
      /\ Head(run.steps) \in Prompt \cup Applied /\ Head(run.steps) # Repeated
  BY DEF Prompt, Applied, Repeated
<1>7. n \in For("find-node-ip")
  BY <1>1, Fors DEF Prompt, Once, OnServers, OnAgents
<1>8. Behind("find-node-ip", n)
  BY <1>1, <1>2, <1>3, <1>5, <1>6, <1>7, Before
<1>9. KnowsAddress(n)
  BY <1>8 DEF InstallIInv, BehindInv
<1>10. know[n].nodeIp # "none" =>
          ChecksAddress(run.conf, n) /\ know[n].nodeIp = AddressFor(run.conf, n)
  BY DEF InstallIInv, KnowInv
<1> QED
  BY <1>9, <1>10 DEF KnowsAddress, ChecksAddress, AddressFor

(* K3s as the install script leaves it is up, on its address, and has      *)
(* loaded what is on the disk.                                             *)
LEMMA InstallK3sKeeps ==
    ASSUME InstallIInv, NEW n \in run.todo, n \in Node, n \in run.nodes, UNCHANGED meshVars,
           NEW y \in {"install-k3s-server", "install-k3s-agent"}, y = Head(run.steps),
           InstallK3s(n)
    PROVE  InstallIInv'
<1> DEFINE a == IF know[n].nodeIp = "none" THEN "local" ELSE know[n].nodeIp
           f == n = Server /\ run.conf.clients # 0
           flagged == [k3s[n] EXCEPT !.address = a, !.flag = f]
           k == Restarted(flagged, disk[n])
<1>1. /\ \/ k3s' = [k3s EXCEPT ![n] = k]
         \/ flagged = k3s[n] /\ k3s[n].up /\ UNCHANGED k3s
      /\ Does(n, know[n])
      /\ UNCHANGED <<disk, byHand, cluster>>
  BY DEF InstallK3s
<1>2. run.conf \in Configs /\ run.steps # <<>> /\ RunInv /\ y \in Asked
  BY AtNode
<1>3. k3s \in [Node -> K3sType] /\ disk \in [Node -> DiskType]
  BY DEF InstallIInv, Typed, MachineType
<1>4. a = AddressFor(run.conf, n)
  BY <1>2, AddressIsKnown
<1>5. a \in {"local", "mesh"} /\ f \in BOOLEAN
  BY <1>4 DEF AddressFor
<1> HIDE DEF a, f
<1>6. flagged \in K3sType /\ flagged.address = a /\ flagged.flag = f
      /\ flagged.credentials = k3s[n].credentials
  BY <1>3, <1>5 DEF K3sType
<1> HIDE DEF flagged
<1>7. /\ k \in K3sType
      /\ k.up /\ ~k.joined /\ k.registries = disk[n].registries /\ k.runtime = disk[n].toolkit
      /\ k.credentials = k3s[n].credentials /\ k.address = AddressFor(run.conf, n)
      /\ k.flag = f
  BY <1>3, <1>4, <1>6, RestartedIs
<1> HIDE DEF k
<1>8. ~run.failed /\ "check-k3s-service" \in Asked => HasRegistries(n)
  <2>1. SUFFICES ASSUME ~run.failed, "check-k3s-service" \in Asked
                 PROVE  HasRegistries(n)
    OBVIOUS
  <2>2. "write-registries-config" \in Asked
    BY <1>2, <2>1, Together DEF ServiceSteps
  <2>3. Brought("write-registries-config", n)
    BY <1>2, <2>1, <2>2, Follows DEF RestsOnAnother, PerNode
  <2> QED
    BY <1>2, <2>3, BroughtIs
<1>9. run'.conf = run.conf
  BY <1>1, DoesRun DEF SameRun
<1>10. CASE k3s' = [k3s EXCEPT ![n] = k]
  <2>1. K3sBrought(y, n)'
    BY <1>3, <1>7, <1>9, <1>10 DEF K3sBrought
  <2>2. n = Server /\ run.conf.clients # 0 => k.flag
    BY <1>7 DEF f
  <2> QED
    BY <1>1, <1>7, <1>8, <1>10, <2>1, <2>2, K3sKeeps
<1>11. CASE flagged = k3s[n] /\ k3s[n].up /\ UNCHANGED k3s
  <2>1. k3s[n].up /\ k3s[n].address = AddressFor(run.conf, n)
    BY <1>4, <1>6, <1>11
  <2>2. Learned(y, n) /\ Brought(y, n)
    BY <1>2, <2>1, MuteSteps, BroughtIs DEF Mute
  <2>3. WorldKept
    BY <1>1, <1>11 DEF WorldKept, machineVars
  <2>4. know' = know /\ config' = config /\ edits' = edits /\ (faults' = faults \/ Fault)
    BY <1>1 DEF InstallIInv, Typed, KnowType, Does, Passes, LosesAnswer
  <2> QED
    BY <1>1, <2>2, <2>3, Looked DEF InstallIInv, Typed, KnowType, Does, Passes, LosesAnswer
<1> QED
  BY <1>1, <1>10, <1>11

(* The server's K3s.                                                       *)
LEMMA InstallK3sServerKeeps ==
    ASSUME InstallIInv, InstallK3sServer, UNCHANGED meshVars
    PROVE  InstallIInv'
<1>1. Server \in run.todo /\ Head(run.steps) = "install-k3s-server" /\ InstallK3s(Server)
  BY DEF InstallK3sServer, Doing, At
<1>2. Server \in Node /\ Server \in run.nodes
  BY <1>1, AtNode DEF OnServers
<1> QED
  BY <1>1, <1>2, InstallK3sKeeps

(* An agent's.                                                             *)
LEMMA InstallK3sAgentKeeps ==
    ASSUME InstallIInv, NEW n \in Node, InstallK3sAgent(n), UNCHANGED meshVars
    PROVE  InstallIInv'
<1>1. n \in run.todo /\ Head(run.steps) = "install-k3s-agent" /\ InstallK3s(n)
  BY DEF InstallK3sAgent, Doing, At
<1>2. n \in run.nodes
  BY <1>1, AtNode DEF OnAgents
<1> QED
  BY <1>1, <1>2, InstallK3sKeeps

-----------------------------------------------------------------------------
(* The steps that change the mesh                                          *)

\* What a step may make of the mesh: nothing is taken from it.
MeshGrows ==
    /\ \A r \in Existing : r \in Existing'
    /\ \A h \in hosts : \E g \in hosts' :
          g.node = h.node /\ g.name = h.name /\ (h.ipv4 => g.ipv4)
    /\ \A g \in hosts' : g.blocked => \E h \in hosts : h.node = g.node /\ h.blocked
    /\ \A m \in Node :
          /\ client[m].as # "none" => client'[m].as # "none"
          /\ client[m].installed => client'[m].installed
          /\ AddressOf(m) => AddressOf(m)'
          /\ AddressOf(m) /\ client[m].ipv4 => client'[m].ipv4

(* What is known of a mesh that grows stays true.                          *)
LEMMA TrulyStays ==
    ASSUME MeshGrows, UNCHANGED machineVars, run'.conf = run.conf,
           NEW q, NEW m \in Node, KnowsTruly(q, m)
    PROVE  KnowsTruly(q, m)'
<1>1. k3s' = k3s
  BY DEF machineVars
<1> QED
  BY <1>1 DEF KnowsTruly, MeshGrows

(* What has been learned is what is known, of the state a step leads to.   *)
LEMMA LearnedAs ==
    ASSUME NEW q, NEW m, NEW x, know'[m] = q
    PROVE  Learned(x, m)' <=> Knowing(x, q, m)'
BY DEF Learned, Knowing, KnowsRoles, KnowsHost, KnowsAddress

(* What has been brought about stays so while the mesh grows.              *)
LEMMA BroughtGrows ==
    ASSUME Typed, MeshGrows, UNCHANGED machineVars, run'.conf = run.conf, NEW x, NEW m \in Node,
           Brought(x, m)
    PROVE  Brought(x, m)'
<1>1. UNCHANGED <<disk, k3s, byHand, cluster>>
  BY DEF machineVars
<1>2. MeshBrought(x, m)'
  <2>1. (\A h \in HostsOf(m) : ~h.blocked) => \A h \in HostsOf(m)' : ~h.blocked
    BY DEF MeshGrows, HostsOf
  <2> QED
    BY <2>1 DEF Brought, MeshBrought, MeshGrows
<1>3. DiskBrought(x, m)'
  BY <1>1 DEF Brought, DiskBrought, HasRegistries
<1>4. K3sBrought(x, m)'
  BY <1>1 DEF Brought, K3sBrought, Loaded, RuntimeLoaded, ServerUp, HasRegistries
<1>5. Registered' = Registered
  BY <1>1 DEF Registered
<1>6. JoinBrought(x, m)'
  BY <1>1, <1>5 DEF Brought, JoinBrought, Ready
<1>7. ClusterBrought(x, m)'
  BY <1>1 DEF Brought, ClusterBrought
<1> QED
  BY <1>2, <1>3, <1>4, <1>6, <1>7 DEF Brought

\* What a run is able to do on a mesh it goes on being able to do.
LEMMA AbleGrows ==
    ASSUME AbleInv, MeshGrows, UNCHANGED machineVars, SameRun(run', run)
    PROVE  AbleInv'
<1>1. UNCHANGED <<disk, k3s, byHand, cluster>>
  BY DEF machineVars
<1>2. Registered' = Registered /\ (ServerUp' <=> ServerUp)
  BY <1>1 DEF Registered, ServerUp
<1>3. \A c : RolesInOrder(c) => RolesInOrder(c)'
  BY DEF RolesInOrder, MeshGrows
<1>4. (\A h \in hosts : h.node \in run.nodes => ~h.blocked)
         => (\A h \in hosts' : h.node \in run.nodes => ~h.blocked)
  BY DEF MeshGrows
<1>5. DefaultRole \in Existing => DefaultRole \in Existing'
  BY DEF MeshGrows
<1> QED
  BY <1>1, <1>2, <1>3, <1>4, <1>5 DEF AbleInv, SameRun

(* A step that changes the mesh, and learns what it did: unless it is      *)
(* alone at work, it leaves the roles as they are.                         *)
LEMMA MeshDoes ==
    ASSUME InstallIInv, NEW n \in run.todo, NEW y, y = Head(run.steps),
           y \in MeshSteps \cup RolesOf(run.conf),
           NEW k \in KnowledgeType, Does(n, k), UNCHANGED machineVars,
           MeshGrows, MeshTypeOK', WorldInv', RolesOnce',
           run.todo = {n} \/ roles' = roles,
           know[n].roles \subseteq k.roles, k.nodeIp = know[n].nodeIp,
           KnowsTruly(k, n)',
           ~run.failed =>
              /\ \A x \in Asked : n \in For(x) /\ Knowing(x, know[n], n) => Knowing(x, k, n)'
              /\ \A m \in Node : m # n => HostsOf(m)' = HostsOf(m)
              /\ roles' = roles \/ y \in RolesOf(run.conf)
              /\ Knowing(y, k, n)' /\ MeshBrought(y, n)'
    PROVE  InstallIInv'
<1>1. /\ SameRun(run', run) /\ config' = config /\ CountsType'
      /\ \/ run' = After(n, TRUE, FALSE) /\ know' = [know EXCEPT ![n] = k]
         \/ run' = After(n, FALSE, TRUE) /\ know' = know
  BY DoesRun
<1>2. /\ run'.conf = run.conf /\ run.conf \in Configs /\ n \in Node /\ RunInv
      /\ know \in [Node -> KnowledgeType] /\ y \in Asked /\ run.steps # <<>>
  BY <1>1, AtNode DEF SameRun, InstallIInv, Typed, KnowType
<1>3. UNCHANGED <<disk, k3s, byHand, cluster>>
  BY DEF machineVars
<1>4. MachineType' /\ AbleInv' /\ (ServerUp => ServerUp') /\ (cluster.crds => cluster'.crds)
  BY <1>1, <1>3, AbleGrows DEF InstallIInv, Typed, MachineType, ServerUp
<1>5. \A m \in Node : KnowsTruly(know[m], m)
  BY TrulyIs DEF InstallIInv
<1>6. ASSUME NEW m \in Node, know'[m] = know[m]
      PROVE  KnowsTruly(know[m], m)'
  <2>1. PICK q : q = know[m]
    OBVIOUS
  <2>2. KnowsTruly(q, m)'
    BY <1>2, <1>5, <2>1, TrulyStays
  <2>3. know'[m] = q
    BY <1>6, <2>1
  <2> QED
    BY <2>2, <2>3 DEF KnowsTruly
<1>7. know'[n] = k => KnowsTruly(know[n], n)'
  BY DEF KnowsTruly
<1>8. \A m \in Node : know'[m] = know[m] \/ (m = n /\ know'[m] = k)
  BY <1>1, <1>2
<1>9. KnowInv'
  <2>1. \A m \in Node : KnowsTruly(know[m], m)'
    BY <1>6, <1>7, <1>8
  <2> QED
    BY <2>1 DEF KnowInv, KnowsTruly
<1>10. Typed'
  <2>1. KnowType'
    BY <1>1, <1>2 DEF KnowType
  <2> QED
    BY <1>1, <1>4, <2>1 DEF Typed
<1>11. run.todo # {n} => Stays
  <2>1. SUFFICES ASSUME roles' = roles PROVE Stays
    BY DEF InstallIInv
  <2>2. \A m \in Node : know[m].roles \subseteq know'[m].roles /\ know'[m].nodeIp = know[m].nodeIp
    BY <1>8
  <2>3. Existing' = Existing
    BY <2>1 DEF Existing
  <2> QED
    BY <1>2, <1>4, <2>2, <2>3 DEF Stays, KnowsRoles, KnowsAddress
<1>12. \A x \in Asked : \A m \in For(x) : m \in Node
  BY <1>2, ScopeType DEF RunInv, RunType, For
<1>13. CASE run' = After(n, FALSE, TRUE)
  BY <1>1, <1>4, <1>9, <1>10, <1>11, <1>13, StepKeeps
<1>14. CASE run' = After(n, TRUE, FALSE) /\ know' = [know EXCEPT ![n] = k]
  <2>1. know'[n] = k /\ \A m \in Node : m # n => know'[m] = know[m]
    BY <1>2, <1>14
  <2>2. ASSUME ~run.failed, NEW x \in Asked, NEW m \in For(x), Learned(x, m)
        PROVE  Learned(x, m)'
    <3>1. CASE m = n
      <4>1. Knowing(x, know[n], n)
        BY <2>2, <3>1, KnowingIs
      <4>2. Knowing(x, k, n)'
        BY <2>2, <3>1, <4>1
      <4> QED
        BY <2>1, <3>1, <4>2, LearnedAs
    <3>2. CASE m # n
      <4>1. m \in Node /\ know'[m] = know[m] /\ HostsOf(m)' = HostsOf(m)
        BY <1>12, <2>1, <2>2, <3>2
      <4>2. x = "list-roles-once" => Existing' = Existing
        <5>1. CASE y \in RolesOf(run.conf)
          <6>1. n = Server
            BY <1>2, <5>1, AtNode
          <6>2. For("list-roles-once") = {Server}
            BY <1>2, Fors DEF Once
          <6> QED
            BY <2>2, <3>2, <6>1, <6>2
        <5>2. CASE roles' = roles
          BY <5>2 DEF Existing
        <5> QED
          BY <2>2, <5>1, <5>2
      <4>3. /\ x = "list-roles-once" => (KnowsRoles(m) => KnowsRoles(m)')
            /\ KnowsHost(m) => KnowsHost(m)'
            /\ KnowsAddress(m) => KnowsAddress(m)'
            /\ Loaded(m) => Loaded(m)'
            /\ RuntimeLoaded(m) => RuntimeLoaded(m)'
        BY <1>2, <1>3, <4>1, <4>2
        DEF KnowsRoles, KnowsHost, KnowsAddress, Loaded, RuntimeLoaded
      <4>4. run'.able = run.able
        BY <1>1 DEF SameRun
      <4> QED
        BY <1>3, <2>2, <4>1, <4>3, <4>4 DEF Learned
    <3> QED
      BY <3>1, <3>2
  <2>3. ASSUME NEW x \in Asked, NEW m \in For(x), Brought(x, m)
        PROVE  Brought(x, m)'
    BY <1>2, <1>12, <2>3, BroughtGrows DEF InstallIInv
  <2>4. ~run.failed => Learned(y, n)' /\ Brought(y, n)'
    <3>1. SUFFICES ASSUME ~run.failed PROVE Learned(y, n)' /\ Brought(y, n)'
      OBVIOUS
    <3>2. Learned(y, n)'
      BY <2>1, <3>1, LearnedAs
    <3>3. DiskBrought(y, n)' /\ K3sBrought(y, n)' /\ JoinBrought(y, n)' /\ ClusterBrought(y, n)'
      <4>1. CASE y \in MeshSteps
        BY <4>1 DEF MeshSteps, DiskBrought, K3sBrought, JoinBrought, ClusterBrought
      <4>2. CASE y \in RolesOf(run.conf)
        <5>1. y \notin Prompt \cup Applied
          BY <1>2, <4>2, NamesAssumption
        <5> QED
          BY <5>1 DEF Prompt, Applied, DiskBrought, K3sBrought, JoinBrought, ClusterBrought
      <4> QED
        BY <4>1, <4>2
    <3> QED
      BY <3>1, <3>2, <3>3 DEF Brought
  <2> QED
    BY <1>1, <1>4, <1>9, <1>10, <1>11, <1>14, <2>2, <2>3, <2>4, StepKeeps
<1> QED
  BY <1>1, <1>13, <1>14

(* A node's dnclient, installed, enrolled or told its configuration.       *)
LEMMA ClientDoes ==
    ASSUME InstallIInv, NEW n \in run.todo,
           NEW y \in {"install-dnclient", "enroll-nebula-host", "refresh-nebula-config"},
           y = Head(run.steps), Does(n, know[n]), UNCHANGED machineVars,
           UNCHANGED <<hosts, roles>>, NEW c, client' = [client EXCEPT ![n] = c],
           c \in [installed : BOOLEAN, ipv4 : BOOLEAN,
                  as : {"none", "as configured", "capitalised"}],
           c.as # "none" => \E h \in hosts : h.node = n,
           client[n].as # "none" => c.as # "none",
           client[n].installed => c.installed,
           AddressOf(n) /\ client[n].ipv4 => c.ipv4,
           y = "install-dnclient" => c.installed,
           ~run.failed /\ y = "enroll-nebula-host" => c.as # "none"
    PROVE  InstallIInv'
<1>1. n \in Node /\ run.conf \in Configs
  BY AtNode
<1>2. MeshTypeOK /\ WorldInv /\ RolesOnce /\ know \in [Node -> KnowledgeType]
  BY DEF InstallIInv, Typed, KnowType
<1>3. client'[n] = c /\ \A m \in Node : m # n => client'[m] = client[m]
  BY <1>1, <1>2 DEF MeshTypeOK
<1>4. \A m : AddressOf(m)' <=> AddressOf(m)
  BY DEF AddressOf
<1>5. MeshGrows
  BY <1>3, <1>4 DEF MeshGrows, Existing
<1>6. MeshTypeOK'
  <2>1. client' \in [Node -> [installed : BOOLEAN, ipv4 : BOOLEAN,
                              as : {"none", "as configured", "capitalised"}]]
    BY <1>2 DEF MeshTypeOK
  <2> QED
    BY <1>2, <2>1 DEF MeshTypeOK
<1>7. WorldInv'
  <2>1. UNCHANGED <<k3s, cluster>>
    BY DEF machineVars
  <2> QED
    BY <1>2, <1>3, <2>1 DEF WorldInv
<1>8. RolesOnce'
  BY <1>2 DEF RolesOnce
<1>9. run'.conf = run.conf
  BY DoesRun DEF SameRun
<1> DEFINE q == know[n]
<1>10. PICK k : k = know[n]
  OBVIOUS
<1>11. KnowsTruly(k, n)'
  <2>1. KnowsTruly(k, n)
    BY <1>1, <1>10, TrulyIs DEF InstallIInv
  <2> QED
    BY <1>1, <1>5, <1>9, <2>1, TrulyStays
<1>12. \A x : Knowing(x, know[n], n) => Knowing(x, k, n)'
  <2>1. SUFFICES ASSUME NEW x, Knowing(x, k, n) PROVE Knowing(x, k, n)'
    BY <1>10
  <2>2. UNCHANGED <<k3s, disk>> /\ run'.able = run.able
    BY DoesRun DEF machineVars, SameRun
  <2>3. Existing' = Existing /\ HostsOf(n)' = HostsOf(n)
    BY DEF Existing, HostsOf
  <2>4. (Loaded(n)' <=> Loaded(n)) /\ (RuntimeLoaded(n)' <=> RuntimeLoaded(n))
    BY <1>9, <2>2 DEF Loaded, RuntimeLoaded
  <2> QED
    BY <1>9, <2>1, <2>2, <2>3, <2>4 DEF Knowing
<1>13. \A m : HostsOf(m)' = HostsOf(m)
  BY DEF HostsOf
<1>14. Knowing(y, k, n)'
  BY DEF Knowing
<1>15. ~run.failed => MeshBrought(y, n)'
  <2>1. y \notin RolesOf(run'.conf)
    BY <1>1, <1>9, NoRole DEF Applied
  <2> QED
    BY <1>3, <2>1 DEF MeshBrought
<1>16. y \in MeshSteps /\ k \in KnowledgeType
  BY <1>1, <1>2, <1>10 DEF MeshSteps
<1>17. Does(n, k) /\ know[n].roles \subseteq k.roles /\ k.nodeIp = know[n].nodeIp
  BY <1>10
<1> QED
  BY <1>5, <1>6, <1>7, <1>8, <1>11, <1>12, <1>13, <1>14, <1>15, <1>16, <1>17, MeshDoes

(* dnclient is installed.                                                  *)
LEMMA InstallDnclientKeeps ==
    ASSUME InstallIInv, NEW n \in Node, InstallDnclient(n), UNCHANGED machineVars
    PROVE  InstallIInv'
<1> DEFINE e == [client[n] EXCEPT !.installed = TRUE]
<1>1. /\ n \in run.todo /\ Head(run.steps) = "install-dnclient" /\ UNCHANGED <<hosts, roles>>
      /\ Does(n, know[n]) /\ client' = [client EXCEPT ![n] = e]
  BY DEF InstallDnclient, At
<1>2. client[n] \in [installed : BOOLEAN, ipv4 : BOOLEAN,
                     as : {"none", "as configured", "capitalised"}]
  BY DEF InstallIInv, Typed, MeshTypeOK
<1>3. /\ e \in [installed : BOOLEAN, ipv4 : BOOLEAN,
                as : {"none", "as configured", "capitalised"}]
      /\ e.as = client[n].as /\ e.ipv4 = client[n].ipv4 /\ e.installed
  BY <1>2
<1> HIDE DEF e
<1>4. client[n].as # "none" => \E h \in hosts : h.node = n
  BY DEF InstallIInv, WorldInv
<1>5. PICK c : c = e
  OBVIOUS
<1> QED
  BY <1>1, <1>3, <1>4, <1>5, ClientDoes

(* It is enrolled, with the code the run has for it, once it is            *)
(* installed.                                                              *)
LEMMA EnrollHostKeeps ==
    ASSUME InstallIInv, NEW n \in Node, EnrollHost(n), UNCHANGED machineVars
    PROVE  InstallIInv'
<1>1. /\ n \in run.todo /\ Head(run.steps) = "enroll-nebula-host" /\ UNCHANGED <<hosts, roles>>
      /\ ~know[n].enrolled
  BY DEF EnrollHost, At, NothingToEnroll
<1>2. /\ run.conf \in Configs /\ run.steps # <<>> /\ n \in run.nodes
      /\ (run.verifying => "enroll-nebula-host" \in Prompt)
  BY <1>1, AtNode DEF PerNode, MeshSteps
<1>3. client[n] \in [installed : BOOLEAN, ipv4 : BOOLEAN,
                     as : {"none", "as configured", "capitalised"}]
  BY DEF InstallIInv, Typed, MeshTypeOK
<1>4. KnowsTruly(know[n], n) /\ know[n] \in KnowledgeType
  BY TrulyIs DEF InstallIInv, Typed, KnowType
<1>5. CASE know[n].code /\ client[n].installed
  <2> DEFINE e == [client[n] EXCEPT !.as = know[n].host, !.ipv4 = AddressOf(n)]
  <2>1. client' = [client EXCEPT ![n].as = know[n].host, ![n].ipv4 = AddressOf(n)]
        /\ Does(n, know[n])
    BY <1>5 DEF EnrollHost
  <2>2. client' = [client EXCEPT ![n] = e]
    BY <2>1, <1>3 DEF InstallIInv, Typed, MeshTypeOK
  <2>3. know[n].host # "none" /\ know[n].host \in {"none", "as configured", "capitalised"}
    BY <1>4, <1>5 DEF KnowsTruly, KnowledgeType
  <2>4. AddressOf(n) \in BOOLEAN
    BY DEF AddressOf
  <2>5. /\ e \in [installed : BOOLEAN, ipv4 : BOOLEAN,
                  as : {"none", "as configured", "capitalised"}]
        /\ e.as # "none" /\ (e.ipv4 <=> AddressOf(n)) /\ e.installed
    BY <1>3, <1>5, <2>3, <2>4
  <2> HIDE DEF e
  <2>6. \E h \in hosts : h.node = n
    BY <1>4, <2>3 DEF KnowsTruly
  <2>7. PICK c : c = e
    OBVIOUS
  <2> QED
    BY <1>1, <2>1, <2>2, <2>5, <2>6, <2>7, ClientDoes
<1>6. CASE ~(know[n].code /\ client[n].installed)
  <2>1. client' = client /\ Looks(n, FALSE, know[n])
    BY <1>6 DEF EnrollHost
  <2>2. WorldKept
    BY <1>1, <2>1 DEF WorldKept, meshVars
  <2>3. run.failed
    <3>1. ASSUME ~run.failed PROVE FALSE
      <4>1. ~run.verifying
        BY <1>2 DEF Prompt
      <4>2. /\ Learned("create-nebula-enrollment-code", n)
            /\ Brought("install-dnclient", n)
        BY <1>1, <1>2, <3>1, <4>1, Follows DEF RestsOn, PerNode, MeshSteps
      <4>3. know[n].code /\ client[n].installed
        BY <1>1, <1>2, <4>2, LearnedIs, BroughtIs
      <4> QED
        BY <1>6, <4>3
    <3>2. run.failed \in BOOLEAN
      BY <1>1, AtStep DEF RunType
    <3> QED
      BY <3>1, <3>2
  <2> QED
    BY <1>1, <2>1, <2>2, <2>3, LooksAround
<1> QED
  BY <1>5, <1>6

(* It is told its configuration.                                           *)
LEMMA RefreshConfigKeeps ==
    ASSUME InstallIInv, NEW n \in Node, RefreshConfig(n), UNCHANGED machineVars
    PROVE  InstallIInv'
<1> DEFINE e == [client[n] EXCEPT !.ipv4 = AddressOf(n)]
<1>1. /\ n \in run.todo /\ Head(run.steps) = "refresh-nebula-config"
      /\ UNCHANGED <<hosts, roles>>
      /\ Does(n, know[n]) /\ client' = [client EXCEPT ![n] = e]
  BY DEF RefreshConfig, At
<1>2. client[n] \in [installed : BOOLEAN, ipv4 : BOOLEAN,
                     as : {"none", "as configured", "capitalised"}]
  BY DEF InstallIInv, Typed, MeshTypeOK
<1>3. AddressOf(n) \in BOOLEAN
  BY DEF AddressOf
<1>4. /\ e \in [installed : BOOLEAN, ipv4 : BOOLEAN,
                as : {"none", "as configured", "capitalised"}]
      /\ e.as = client[n].as /\ (e.ipv4 <=> AddressOf(n)) /\ e.installed = client[n].installed
  BY <1>2, <1>3
<1> HIDE DEF e
<1>5. client[n].as # "none" => \E h \in hosts : h.node = n
  BY DEF InstallIInv, WorldInv
<1>6. PICK c : c = e
  OBVIOUS
<1> QED
  BY <1>1, <1>4, <1>5, <1>6, ClientDoes

(* A host is made by its node's run alone, which has looked for one        *)
(* before: there are never two.                                            *)
LEMMA CreateHostKeeps ==
    ASSUME InstallIInv, NEW n \in Node, CreateHost(n), UNCHANGED machineVars
    PROVE  InstallIInv'
<1>1. /\ n \in run.todo /\ Head(run.steps) = "create-nebula-host" /\ UNCHANGED <<roles, client>>
      /\ ~know[n].enrolled /\ know[n].host = "none"
  BY DEF CreateHost, At, NothingToEnroll
<1>2. /\ run.conf \in Configs /\ run.steps # <<>> /\ n \in run.nodes
      /\ (run.verifying => "create-nebula-host" \in Prompt)
  BY <1>1, AtNode DEF PerNode, MeshSteps
<1>3. MeshTypeOK /\ WorldInv /\ RolesOnce
  BY DEF InstallIInv, Typed
<1>4. KnowsTruly(know[n], n) /\ know[n] \in KnowledgeType
  BY TrulyIs DEF InstallIInv, Typed, KnowType
<1>5. \A h \in hosts : h.name # "none"
  BY <1>3 DEF MeshTypeOK
<1>6. CASE DefaultRole \in know[n].roles /\ ~\E h \in hosts : h.node = n
  <2> DEFINE new == [node |-> n, name |-> "as configured", ipv4 |-> TRUE, blocked |-> FALSE]
             e == [know[n] EXCEPT !.host = "as configured", !.ipv4 = TRUE, !.code = TRUE]
  <2>1. hosts' = hosts \cup {new} /\ Does(n, e)
    BY <1>6 DEF CreateHost
  <2>2. /\ new \in [node : Node, name : {"as configured", "capitalised"},
                    ipv4 : BOOLEAN, blocked : BOOLEAN]
        /\ new.node = n /\ new.ipv4 /\ ~new.blocked /\ new.name # "none"
    OBVIOUS
  <2>3. PICK k : k = e
    OBVIOUS
  <2>4. /\ k \in KnowledgeType
        /\ k.roles = know[n].roles /\ k.host = new.name /\ k.ipv4 /\ k.code
        /\ k.active = know[n].active /\ k.nodeIp = know[n].nodeIp
        /\ k.stale = know[n].stale /\ k.driver = know[n].driver /\ k.enrolled = know[n].enrolled
    BY <1>4, <2>3 DEF KnowledgeType
  <2>5. Does(n, k)
    BY <2>1, <2>3
  <2> HIDE DEF new, e
  <2>6. \A m \in Node : AddressOf(m) => AddressOf(m)'
    BY <2>1 DEF AddressOf
  <2>7. MeshGrows
    <3>1. Existing' = Existing
      BY <1>1 DEF Existing
    <3> QED
      BY <1>1, <2>1, <2>2, <2>6, <3>1 DEF MeshGrows
  <2>8. MeshTypeOK'
    BY <1>1, <1>3, <2>1, <2>2 DEF MeshTypeOK
  <2>9. WorldInv'
    <3>1. \A g, h \in hosts' : g.node = h.node => g = h
      BY <1>3, <1>6, <2>1, <2>2 DEF WorldInv
    <3>2. UNCHANGED <<k3s, cluster>>
      BY DEF machineVars
    <3> QED
      BY <1>1, <1>3, <2>1, <3>1, <3>2 DEF WorldInv
  <2>10. RolesOnce'
    BY <1>1, <1>3 DEF RolesOnce
  <2>11. run'.conf = run.conf /\ run'.able = run.able
    BY <1>1, <2>5, DoesRun DEF SameRun
  <2>12. UNCHANGED <<disk, k3s>>
    BY DEF machineVars
  <2>13. Existing' = Existing
    BY <1>1 DEF Existing
  <2>14. KnowsTruly(k, n)'
    BY <1>1, <1>4, <2>1, <2>2, <2>4, <2>11, <2>12, <2>13 DEF KnowsTruly
  <2>15. HostsOf(n)' = {new} /\ \A m \in Node : m # n => HostsOf(m)' = HostsOf(m)
    BY <1>6, <2>1, <2>2 DEF HostsOf
  <2>16. \A x : Knowing(x, know[n], n) => Knowing(x, k, n)'
    <3>1. SUFFICES ASSUME NEW x, Knowing(x, know[n], n) PROVE Knowing(x, k, n)'
      OBVIOUS
    <3>2. (Loaded(n)' <=> Loaded(n)) /\ (RuntimeLoaded(n)' <=> RuntimeLoaded(n))
      BY <2>11, <2>12 DEF Loaded, RuntimeLoaded
    <3>3. \A h \in HostsOf(n)' : k.host = h.name /\ (k.ipv4 <=> h.ipv4)
      BY <2>2, <2>4, <2>15
    <3>4. k.host # "none"
      BY <2>2, <2>4
    <3> QED
      BY <2>4, <2>11, <2>12, <2>13, <3>1, <3>2, <3>3, <3>4 DEF Knowing
  <2>17. Knowing("create-nebula-host", k, n)'
    BY <2>2, <2>4 DEF Knowing
  <2>18. MeshBrought("create-nebula-host", n)'
    <3>1. "create-nebula-host" \notin RolesOf(run'.conf)
      BY <1>2, <2>11, NoRole DEF Applied
    <3> QED
      BY <3>1 DEF MeshBrought
  <2>19. "create-nebula-host" \in MeshSteps
    BY DEF MeshSteps
  <2> QED
    BY <1>1, <2>4, <2>5, <2>7, <2>8, <2>9, <2>10, <2>14, <2>15, <2>16, <2>17, <2>18, <2>19, MeshDoes
<1>7. CASE ~(DefaultRole \in know[n].roles /\ ~\E h \in hosts : h.node = n)
  <2>1. hosts' = hosts /\ Looks(n, FALSE, know[n])
    BY <1>7 DEF CreateHost
  <2>2. WorldKept
    BY <1>1, <2>1 DEF WorldKept, meshVars
  <2>3. ASSUME run.able, ~run.failed PROVE FALSE
    <3>1. ~run.verifying
      BY <1>2 DEF Prompt
    <3>2. Learned("list-nebula-roles", n) /\ Learned("find-nebula-host", n)
      BY <1>1, <1>2, <2>3, <3>1, Follows DEF RestsOn, PerNode, MeshSteps
    <3>3. DefaultRole \in know[n].roles /\ KnowsHost(n)
      BY <2>3, <3>2, LearnedIs
    <3>4. ~\E h \in hosts : h.node = n
      BY <1>1, <1>5, <3>3 DEF KnowsHost, HostsOf
    <3> QED
      BY <1>7, <3>3, <3>4
  <2>4. run.failed \in BOOLEAN /\ run.able \in BOOLEAN
    BY <1>1, AtStep DEF RunType
  <2>5. run.failed \/ ~run.able
    BY <2>3, <2>4
  <2> QED
    BY <1>1, <2>1, <2>2, <2>5, LooksAround
<1> QED
  BY <1>6, <1>7

(* A host is given an IPv4 address.                                        *)
LEMMA AddIPv4AddressKeeps ==
    ASSUME InstallIInv, NEW n \in Node, AddIPv4Address(n), UNCHANGED machineVars
    PROVE  InstallIInv'
<1> DEFINE e == [know[n] EXCEPT !.ipv4 = TRUE, !.added = TRUE]
           Given(h) == IF h.node = n THEN [h EXCEPT !.ipv4 = TRUE] ELSE h
<1>1. /\ n \in run.todo /\ Head(run.steps) = "add-nebula-ipv4-address"
      /\ UNCHANGED <<roles, client>>
      /\ know[n].host # "none" /\ Does(n, e)
      /\ hosts' = {Given(h) : h \in hosts}
  BY DEF AddIPv4Address, At, NothingToEnroll
<1>2. /\ run.conf \in Configs /\ run.steps # <<>> /\ n \in run.nodes
      /\ (run.verifying => "add-nebula-ipv4-address" \in Prompt)
  BY <1>1, AtNode DEF PerNode, MeshSteps
<1>3. MeshTypeOK /\ WorldInv /\ RolesOnce
  BY DEF InstallIInv, Typed
<1>4. KnowsTruly(know[n], n) /\ know[n] \in KnowledgeType
  BY TrulyIs DEF InstallIInv, Typed, KnowType
<1>5. \A h \in hosts :
         /\ Given(h) \in [node : Node, name : {"as configured", "capitalised"},
                          ipv4 : BOOLEAN, blocked : BOOLEAN]
         /\ Given(h).node = h.node /\ Given(h).name = h.name
         /\ (Given(h).blocked <=> h.blocked)
         /\ (Given(h).ipv4 <=> h.ipv4 \/ h.node = n)
         /\ h.node # n => Given(h) = h
  BY <1>3 DEF MeshTypeOK
<1>6. PICK k : k = e
  OBVIOUS
<1>7. /\ k \in KnowledgeType
      /\ k.roles = know[n].roles /\ k.host = know[n].host /\ k.ipv4 /\ k.code = know[n].code
      /\ k.active = know[n].active /\ k.nodeIp = know[n].nodeIp
      /\ k.stale = know[n].stale /\ k.driver = know[n].driver /\ k.enrolled = know[n].enrolled
  BY <1>4, <1>6 DEF KnowledgeType
<1>8. Does(n, k)
  BY <1>1, <1>6
<1> HIDE DEF Given, e
<1>9. \A g \in hosts' : \E h \in hosts : g = Given(h)
  BY <1>1
<1>10. \A h \in hosts : Given(h) \in hosts'
  BY <1>1
<1>11. Existing' = Existing
  BY <1>1 DEF Existing
<1>12. \A m \in Node : AddressOf(m) => AddressOf(m)'
  BY <1>5, <1>10 DEF AddressOf
<1>13. MeshGrows
  <2>1. \A h \in hosts : \E g \in hosts' :
           g.node = h.node /\ g.name = h.name /\ (h.ipv4 => g.ipv4)
    BY <1>5, <1>10
  <2>2. \A g \in hosts' : g.blocked => \E h \in hosts : h.node = g.node /\ h.blocked
    <3>1. SUFFICES ASSUME NEW g \in hosts', g.blocked
                   PROVE  \E h \in hosts : h.node = g.node /\ h.blocked
      OBVIOUS
    <3>2. PICK h \in hosts : g = Given(h)
      BY <1>9
    <3>3. Given(h).node = h.node /\ (Given(h).blocked <=> h.blocked)
      BY <1>5
    <3> QED
      BY <3>1, <3>2, <3>3
  <2> QED
    BY <1>1, <1>11, <1>12, <2>1, <2>2 DEF MeshGrows
<1>14. MeshTypeOK'
  <2>1. ASSUME NEW g \in hosts'
        PROVE  g \in [node : Node, name : {"as configured", "capitalised"},
                      ipv4 : BOOLEAN, blocked : BOOLEAN]
    <3>1. PICK h \in hosts : g = Given(h)
      BY <1>9
    <3>2. Given(h) \in [node : Node, name : {"as configured", "capitalised"},
                        ipv4 : BOOLEAN, blocked : BOOLEAN]
      BY <1>5
    <3> QED
      BY <3>1, <3>2
  <2> QED
    BY <1>1, <1>3, <2>1 DEF MeshTypeOK
<1>15. WorldInv'
  <2>1. \A g, h \in hosts' : g.node = h.node => g = h
    <3>1. SUFFICES ASSUME NEW g \in hosts', NEW h \in hosts', g.node = h.node PROVE g = h
      OBVIOUS
    <3>2. PICK a \in hosts : g = Given(a)
      BY <1>9
    <3>3. PICK b \in hosts : h = Given(b)
      BY <1>9
    <3>4. a.node = b.node
      BY <1>5, <3>1, <3>2, <3>3
    <3> QED
      BY <1>3, <3>2, <3>3, <3>4 DEF WorldInv
  <2>2. \A m \in Node : client'[m].as # "none" => \E h \in hosts' : h.node = m
    <3>1. \A m \in Node : client[m].as # "none" => \E h \in hosts : h.node = m
      BY <1>3 DEF WorldInv
    <3>2. \A h \in hosts : \E g \in hosts' : g.node = h.node
      BY <1>5, <1>10
    <3> QED
      BY <1>1, <3>1, <3>2
  <2>3. UNCHANGED <<k3s, cluster>>
    BY DEF machineVars
  <2> QED
    BY <1>3, <2>1, <2>2, <2>3 DEF WorldInv
<1>16. RolesOnce'
  BY <1>1, <1>3 DEF RolesOnce
<1>17. run'.conf = run.conf /\ run'.able = run.able
  BY <1>1, <1>8, DoesRun DEF SameRun
<1>18. UNCHANGED <<disk, k3s>>
  BY DEF machineVars
<1>19. PICK own \in hosts : own.node = n /\ own.name = know[n].host
  BY <1>1, <1>4 DEF KnowsTruly
<1>20. KnowsTruly(k, n)'
  <2>1. /\ Given(own) \in hosts' /\ Given(own).node = n /\ Given(own).ipv4
        /\ Given(own).name = k.host
    BY <1>5, <1>7, <1>10, <1>19
  <2>2. /\ k.host # "none" => \E h \in hosts' : h.node = n /\ h.name = k.host
        /\ k.ipv4 => \E h \in hosts' : h.node = n /\ h.ipv4
    BY <2>1
  <2> HIDE DEF Given
  <2> QED
    BY <1>1, <1>4, <1>7, <1>11, <1>17, <1>18, <2>2 DEF KnowsTruly
<1>21. ASSUME NEW m, NEW h \in HostsOf(m)'
       PROVE  \E g \in HostsOf(m) : h = Given(g)
  <2>1. h \in hosts' /\ h.node = m
    BY <1>21 DEF HostsOf
  <2>2. PICK g \in hosts : h = Given(g)
    BY <1>9, <2>1
  <2>3. g.node = m
    BY <1>5, <2>1, <2>2
  <2> QED
    BY <2>2, <2>3 DEF HostsOf
<1>22. \A m \in Node : m # n => HostsOf(m)' = HostsOf(m)
  <2>1. SUFFICES ASSUME NEW m \in Node, m # n PROVE HostsOf(m)' = HostsOf(m)
    OBVIOUS
  <2>2. \A h \in HostsOf(m)' : h \in HostsOf(m)
    <3>1. SUFFICES ASSUME NEW h \in HostsOf(m)' PROVE h \in HostsOf(m)
      OBVIOUS
    <3>2. PICK g \in HostsOf(m) : h = Given(g)
      BY <1>21, <3>1
    <3>3. Given(g) = g
      BY <1>5, <2>1, <3>2 DEF HostsOf
    <3> QED
      BY <3>2, <3>3
  <2>3. \A h \in HostsOf(m) : h \in HostsOf(m)'
    BY <1>5, <1>10, <2>1 DEF HostsOf
  <2> QED
    BY <2>2, <2>3 DEF HostsOf
<1>23. \A x : Knowing(x, know[n], n) => Knowing(x, k, n)'
  <2>1. SUFFICES ASSUME NEW x, Knowing(x, know[n], n) PROVE Knowing(x, k, n)'
    OBVIOUS
  <2>2. (Loaded(n)' <=> Loaded(n)) /\ (RuntimeLoaded(n)' <=> RuntimeLoaded(n))
    BY <1>17, <1>18 DEF Loaded, RuntimeLoaded
  <2>3. x = "find-nebula-host" => \A h \in HostsOf(n)' : k.host = h.name /\ (k.ipv4 <=> h.ipv4)
    <3>1. SUFFICES ASSUME x = "find-nebula-host", NEW h \in HostsOf(n)'
                   PROVE  k.host = h.name /\ (k.ipv4 <=> h.ipv4)
      OBVIOUS
    <3>2. PICK g \in HostsOf(n) : h = Given(g)
      BY <1>21, <3>1
    <3>3. g \in hosts /\ g.node = n
      BY <3>2 DEF HostsOf
    <3>4. know[n].host = g.name
      BY <2>1, <3>1, <3>2 DEF Knowing
    <3> QED
      BY <1>5, <1>7, <3>2, <3>3, <3>4
  <2> QED
    BY <1>7, <1>11, <1>17, <1>18, <2>1, <2>2, <2>3 DEF Knowing
<1>24. Knowing("add-nebula-ipv4-address", k, n)'
  BY DEF Knowing
<1>25. ~run.failed => MeshBrought("add-nebula-ipv4-address", n)'
  <2>1. SUFFICES ASSUME ~run.failed PROVE MeshBrought("add-nebula-ipv4-address", n)'
    OBVIOUS
  <2>2. "add-nebula-ipv4-address" \notin RolesOf(run'.conf)
    BY <1>2, <1>17, NoRole DEF Applied
  <2>3. Brought("find-nebula-host", n)
    BY <1>1, <1>2, <2>1, Follows DEF RestsOn, PerNode, MeshSteps
  <2>4. ~own.blocked
    BY <1>2, <1>19, <2>3, BroughtIs DEF HostsOf
  <2>5. AddressOf(n)'
    BY <1>5, <1>10, <1>19, <2>4 DEF AddressOf
  <2> QED
    BY <2>2, <2>5 DEF MeshBrought
<1>26. "add-nebula-ipv4-address" \in MeshSteps
  BY DEF MeshSteps
<1> QED
  BY <1>1, <1>7, <1>8, <1>13, <1>14, <1>15, <1>16, <1>20, <1>22, <1>23, <1>24, <1>25, <1>26,
     MeshDoes

(* By the time a role is made, the roles there were are known, and those   *)
(* before it are there.                                                    *)
LEMMA AtRole ==
    ASSUME InstallIInv, run.steps # <<>>, run.conf \in Configs,
           NEW i \in DOMAIN run.conf.roles, Head(run.steps) = run.conf.roles[i].name
    PROVE  /\ KnowsRoles(Server)
           /\ ~run.failed => \A j \in 1..i - 1 : run.conf.roles[j].name \in Existing
           /\ run.what = "install" /\ OnNetwork(run.conf)
<1> DEFINE y == run.conf.roles[i].name
<1>1. /\ RunInv /\ y \in Asked /\ (run.verifying => y \in Prompt) /\ Server \in Node
      /\ y = Head(run.steps)
  BY HeadIs, ConstantsAssumption DEF InstallIInv, RunInv, Due
<1>2. Rank(run.conf, y) = 2 + i /\ y \in RolesOf(run.conf) /\ i \in Nat /\ i >= 1
  <2>1. DOMAIN run.conf.roles = 1..Len(run.conf.roles) /\ Len(run.conf.roles) \in Nat
    BY ConfigsAssumption, LenProperties
  <2> QED
    BY <2>1, RoleRanks
<1>3. y \notin Prompt \cup Applied
  BY <1>2, NamesAssumption
<1> HIDE DEF y
<1>4. ~run.verifying
  BY <1>1, <1>3
<1>5. /\ NetworkSteps \cup RolesOf(run.conf) \subseteq Asked
      /\ run.what = "install" /\ OnNetwork(run.conf)
  BY <1>1, <1>2, Together
<1>6. y # Repeated /\ "list-roles-once" # Repeated
  BY <1>3 DEF Repeated, Prompt
<1>7. Rank(run.conf, "list-roles-once") = 2
  <2>1. "list-roles-once" \in Prompt \cup Applied
    BY DEF Prompt
  <2>2. Base("list-roles-once") = 2
    BY Bases
  <2> QED
    BY <2>1, <2>2, RankIsBase
<1>8. "list-roles-once" \in Asked /\ Server \in For("list-roles-once")
  BY <1>1, <1>5, Fors DEF NetworkSteps, Once
<1>9. "list-roles-once" \notin Left
  <2>1. Rank(run.conf, "list-roles-once") < Rank(run.conf, Head(run.steps))
    BY <1>1, <1>2, <1>7
  <2> QED
    BY <1>1, <1>6, <1>8, <2>1, HeadIs
<1>10. KnowsRoles(Server)
  <2>1. Behind("list-roles-once", Server)
    BY <1>4, <1>8, <1>9 DEF Behind
  <2> QED
    BY <1>1, <2>1 DEF InstallIInv, BehindInv
<1>11. ASSUME ~run.failed, NEW j \in 1..i - 1
       PROVE  run.conf.roles[j].name \in Existing
  <2>1. j \in DOMAIN run.conf.roles /\ j < i /\ j \in Nat
    <3>1. DOMAIN run.conf.roles = 1..Len(run.conf.roles) /\ Len(run.conf.roles) \in Nat
      BY ConfigsAssumption, LenProperties
    <3> QED
      BY <1>2, <3>1
  <2> DEFINE x == run.conf.roles[j].name
  <2>2. Rank(run.conf, x) = 2 + j /\ x \in RolesOf(run.conf)
    BY <2>1, RoleRanks
  <2> HIDE DEF x
  <2>3. x # Repeated
    BY <2>2, NamesAssumption DEF Repeated, Prompt
  <2>4. Rank(run.conf, x) < Rank(run.conf, Head(run.steps))
    BY <1>1, <1>2, <2>1, <2>2
  <2>5. Server \in For(x) /\ x \in Asked
    BY <1>1, <1>5, <2>2, Fors
  <2>6. Brought(x, Server)
    BY <1>1, <1>6, <1>11, <2>3, <2>4, <2>5, Lower
  <2>7. x \in Existing
    BY <2>2, <2>6, RolesBrought
  <2> QED
    BY <2>7 DEF x
<1> QED
  BY <1>5, <1>10, <1>11

(* A role is made by the server alone, which has asked which there are:    *)
(* it is never made twice.                                                 *)
LEMMA CreateRoleKeeps ==
    ASSUME InstallIInv, NEW i \in DOMAIN run.conf.roles, CreateRole(run.conf.roles[i]),
           UNCHANGED machineVars
    PROVE  InstallIInv'
<1> DEFINE role == run.conf.roles[i]
           known == know[Server].roles
           e == [know[Server] EXCEPT !.roles = known \cup {role.name}]
<1>1. /\ Server \in run.todo /\ Head(run.steps) = role.name /\ UNCHANGED <<hosts, client>>
      /\ \/ /\ role.name \in known
            /\ Looks(Server, TRUE, know[Server])
            /\ UNCHANGED roles
         \/ /\ role.name \notin known /\ role.allows \notin known \cup {"none"}
            /\ Looks(Server, FALSE, know[Server])
            /\ UNCHANGED roles
         \/ /\ role.name \notin known /\ role.allows \in known \cup {"none"}
            /\ roles' = [roles EXCEPT ![role.name] = roles[role.name] + 1]
            /\ Does(Server, e)
  BY DEF CreateRole, At
<1>2. /\ run.conf \in Configs /\ run.steps # <<>> /\ RunInv /\ Server \in Node
      /\ role.name \in Asked
  BY <1>1, AtNode
<1>3. role.name \in RolesOf(run.conf) /\ role.name \in RoleNames
  <2>1. role.name \in RolesOf(run.conf)
    BY <1>2, RoleRanks
  <2> HIDE DEF role
  <2> QED
    BY <1>2, <2>1 DEF RoleNames
<1>4. run.todo = {Server}
  BY <1>1, <1>3, AtNode
<1>5. /\ KnowsRoles(Server)
      /\ ~run.failed => \A j \in 1..i - 1 : run.conf.roles[j].name \in Existing
      /\ run.what = "install" /\ OnNetwork(run.conf)
  BY <1>1, <1>2, AtRole
<1>6. KnowsTruly(know[Server], Server) /\ know[Server] \in KnowledgeType
  BY <1>2, TrulyIs DEF InstallIInv, Typed, KnowType
<1>7. MeshTypeOK /\ WorldInv /\ RolesOnce
  BY DEF InstallIInv, Typed
<1>8. CASE role.name \in known /\ Looks(Server, TRUE, know[Server]) /\ UNCHANGED roles
  <2>1. role.name \in Existing
    BY <1>6, <1>8 DEF KnowsTruly
  <2>2. Learned(role.name, Server) /\ Brought(role.name, Server)
    BY <1>2, <1>3, <2>1, RolesBrought
  <2>3. WorldKept
    BY <1>1, <1>8 DEF WorldKept, meshVars
  <2> QED
    BY <1>1, <1>8, <2>2, <2>3, LooksAround
<1>9. CASE /\ role.name \notin known /\ role.allows \notin known \cup {"none"}
           /\ Looks(Server, FALSE, know[Server]) /\ UNCHANGED roles
  <2>1. WorldKept
    BY <1>1, <1>9 DEF WorldKept, meshVars
  <2>2. ASSUME run.able, ~run.failed PROVE FALSE
    <3>1. RolesInOrder(run.conf)
      BY <1>5, <2>2 DEF InstallIInv, AbleInv
    <3>2. \/ role.name \in Existing
          \/ role.allows \in Existing \cup {"none"}
          \/ \E j \in 1..i - 1 : run.conf.roles[j].name = role.allows
      BY <3>1 DEF RolesInOrder
    <3>3. role.name \in Existing \/ role.allows \in Existing \cup {"none"}
      BY <1>5, <2>2, <3>2
    <3> QED
      BY <1>5, <1>9, <3>3 DEF KnowsRoles
  <2>3. run.failed \in BOOLEAN /\ run.able \in BOOLEAN
    BY <1>1, AtStep DEF RunType
  <2>4. run.failed \/ ~run.able
    BY <2>2, <2>3
  <2> QED
    BY <1>1, <1>9, <2>1, <2>4, LooksAround
<1>10. CASE /\ role.name \notin known
            /\ roles' = [roles EXCEPT ![role.name] = roles[role.name] + 1] /\ Does(Server, e)
  <2>1. role.name \notin Existing
    BY <1>5, <1>10 DEF KnowsRoles
  <2>2. roles \in [RoleNames -> Nat] /\ roles[role.name] = 0
    <3>1. roles \in [RoleNames -> Nat]
      BY <1>7 DEF MeshTypeOK
    <3> HIDE DEF role
    <3> QED
      BY <1>3, <2>1, <3>1 DEF Existing
  <2>3. roles' \in [RoleNames -> Nat] /\ Existing' = Existing \cup {role.name}
    BY <1>3, <1>10, <2>2 DEF Existing
  <2>4. RolesOnce'
    BY <1>7, <1>10, <2>2 DEF RolesOnce
  <2>5. PICK k : k = e
    OBVIOUS
  <2>6. /\ k \in KnowledgeType
        /\ k.roles = known \cup {role.name} /\ k.host = know[Server].host
        /\ k.ipv4 = know[Server].ipv4 /\ k.code = know[Server].code
        /\ k.active = know[Server].active /\ k.nodeIp = know[Server].nodeIp
        /\ k.stale = know[Server].stale /\ k.driver = know[Server].driver
        /\ k.enrolled = know[Server].enrolled
    BY <1>3, <1>6, <2>5 DEF KnowledgeType
  <2>7. Does(Server, k)
    BY <1>10, <2>5
  <2> HIDE DEF e
  <2>8. \A m : AddressOf(m)' <=> AddressOf(m)
    BY <1>1 DEF AddressOf
  <2>9. MeshGrows
    BY <1>1, <2>3, <2>8 DEF MeshGrows
  <2>10. MeshTypeOK'
    BY <1>1, <1>7, <2>3 DEF MeshTypeOK
  <2>11. WorldInv'
    <3>1. UNCHANGED <<k3s, cluster>>
      BY DEF machineVars
    <3> QED
      BY <1>1, <1>7, <3>1 DEF WorldInv
  <2>12. run'.conf = run.conf /\ run'.able = run.able
    BY <1>1, <2>7, DoesRun DEF SameRun
  <2>13. UNCHANGED <<disk, k3s>>
    BY DEF machineVars
  <2>14. KnowsTruly(k, Server)'
    <3>1. k.roles \subseteq Existing'
      BY <1>6, <2>3, <2>6 DEF KnowsTruly
    <3> QED
      BY <1>1, <1>6, <2>6, <2>12, <2>13, <3>1 DEF KnowsTruly
  <2>15. HostsOf(Server)' = HostsOf(Server) /\ \A m : HostsOf(m)' = HostsOf(m)
    BY <1>1 DEF HostsOf
  <2>16. \A x : Knowing(x, know[Server], Server) => Knowing(x, k, Server)'
    <3>1. SUFFICES ASSUME NEW x, Knowing(x, know[Server], Server)
                   PROVE  Knowing(x, k, Server)'
      OBVIOUS
    <3>2. (Loaded(Server)' <=> Loaded(Server)) /\ (RuntimeLoaded(Server)' <=> RuntimeLoaded(Server))
      BY <2>12, <2>13 DEF Loaded, RuntimeLoaded
    <3>3. x = "list-roles-once" => Existing' \subseteq k.roles
      BY <2>3, <2>6, <3>1 DEF Knowing
    <3> QED
      BY <2>6, <2>12, <2>13, <2>15, <3>1, <3>2, <3>3 DEF Knowing
  <2>17. role.name \notin Prompt \cup Applied
    BY <1>2, <1>3, NamesAssumption
  <2>18. PICK y : y = role.name
    OBVIOUS
  <2> HIDE DEF role
  <2>19. y \notin Prompt \cup Applied /\ y \in Existing' /\ y \in RolesOf(run.conf)
    BY <1>3, <2>3, <2>17, <2>18
  <2>20. Knowing(y, k, Server)'
    BY <2>19 DEF Knowing, Prompt, Applied
  <2>21. MeshBrought(y, Server)'
    BY <2>19 DEF MeshBrought, Prompt, Applied
  <2> QED
    BY <1>1, <1>4, <2>4, <2>6, <2>7, <2>9, <2>10, <2>11, <2>14, <2>15, <2>16, <2>18, <2>19,
       <2>20, <2>21, MeshDoes
<1> QED
  BY <1>1, <1>8, <1>9, <1>10

-----------------------------------------------------------------------------
(* Runs that begin, and runs that end                                      *)

(* A step that goes wrong has made nothing of what it was at.              *)
LEMMA StepBreaksKeeps ==
    ASSUME InstallIInv, StepBreaks, WorldKept
    PROVE  InstallIInv'
<1>1. PICK n \in run.todo : LosesAnswer(n)
  BY DEF StepBreaks
<1>2. run' = After(n, FALSE, TRUE) /\ Fault
  BY <1>1 DEF LosesAnswer
<1>3. UNCHANGED <<config, know, edits>>
  BY DEF StepBreaks
<1> DEFINE y == Head(run.steps)
<1>4. PICK z : z = y
  OBVIOUS
<1> QED
  BY <1>2, <1>3, <1>4, Looked

\* A run that has been through nothing yet.
FreshState ==
    /\ RunInv /\ CountsType /\ MeshTypeOK /\ MachineType
    /\ WorldInv /\ RolesOnce /\ AbleInv
    /\ know = NothingKnown
    /\ ~run.failed
    /\ \A x, m : ~Through(x, m) /\ ~Behind(x, m)
    /\ run.verifying => \A x \in Asked : \A m \in For(x) : Brought(x, m)

(* Nothing has been learned and nothing brought about.                     *)
LEMMA FreshIsRight == FreshState => InstallIInv
<1> SUFFICES ASSUME FreshState PROVE InstallIInv
  OBVIOUS
<1>1. Nothing \in KnowledgeType
  BY DEF Nothing, KnowledgeType
<1>2. Typed
  BY <1>1 DEF FreshState, Typed, KnowType, NothingKnown
<1>3. KnowInv
  <2>1. \A n \in Node : know[n] = Nothing
    BY DEF FreshState, NothingKnown
  <2> QED
    <3>1. /\ Nothing.roles = {} /\ ~Nothing.enrolled /\ Nothing.host = "none"
          /\ ~Nothing.code /\ ~Nothing.ipv4 /\ Nothing.nodeIp = "none"
          /\ ~Nothing.active /\ ~Nothing.stale
      BY DEF Nothing
    <3> QED
      BY <2>1, <3>1 DEF KnowInv
<1>4. LearnedInv
  BY DEF LearnedInv, FreshState
<1>5. BroughtInv
  BY DEF BroughtInv, FreshState, Has
<1>6. BehindInv
  BY DEF BehindInv, FreshState
<1>7. RerunSucceeds
  BY DEF RerunSucceeds, FreshState
<1> QED
  BY <1>2, <1>3, <1>4, <1>5, <1>6, <1>7 DEF FreshState, InstallIInv

\* No run is under way.
RestState ==
    /\ Rest
    /\ CountsType /\ MeshTypeOK /\ MachineType /\ WorldInv /\ RolesOnce

(* Nor is anything asked for.                                              *)
LEMMA RestIsRight == RestState => InstallIInv
<1>1. RestState => FreshState
  <2> SUFFICES ASSUME RestState PROVE FreshState
    OBVIOUS
  <2>1. /\ RunInv
        /\ Asked = {} /\ ~run.failed /\ ~run.able /\ ~run.verifying
    BY AtRest DEF RestState
  <2>2. AbleInv
    BY <2>1 DEF AbleInv
  <2>3. \A x, m : ~Through(x, m) /\ ~Behind(x, m)
    BY <2>1 DEF Through, Behind
  <2> QED
    BY <2>1, <2>2, <2>3 DEF FreshState, RestState, Rest
<1> QED
  BY <1>1, FreshIsRight

(* So it is in the beginning.                                              *)
LEMMA InitIsRight == Init => InstallIInv
<1> SUFFICES ASSUME Init PROVE RestState
  BY RestIsRight
<1>1. Rest /\ CountsType
  BY ConstantsAssumption DEF Init, RunInit, Rest, CountsType
<1>2. MeshTypeOK /\ RolesOnce
  BY DEF Init, MeshInit, MeshTypeOK, RolesOnce, NoClient
<1>3. MachineType
  <2>1. NoDisk \in DiskType
    BY DEF NoDisk, DiskType
  <2>2. NoK3s \in K3sType
    BY DEF NoK3s, K3sType
  <2>3. NoCluster \in ClusterType
    BY DEF NoCluster, ClusterType
  <2> QED
    BY <2>1, <2>2, <2>3 DEF Init, MachineType
<1>4. WorldInv
  BY DEF Init, WorldInv, MeshInit, NoClient, NoK3s, NoCluster
<1> QED
  BY <1>1, <1>2, <1>3, <1>4 DEF RestState

(* Both of them, of the state a step leads to.                             *)
LEMMA FreshNext == FreshState' => InstallIInv'
BY FreshIsRight, PTL

(* Of the state a step leads to.                                           *)
LEMMA RestNext == RestState' => InstallIInv'
BY RestIsRight, PTL

(* A world that is as it was.                                              *)
LEMMA SameWorld ==
    ASSUME InstallIInv, WorldKept
    PROVE  /\ MeshTypeOK' /\ MachineType' /\ WorldInv' /\ RolesOnce'
           /\ MeshGrows /\ UNCHANGED machineVars
<1>1. UNCHANGED <<hosts, roles, client, disk, k3s, byHand, cluster>>
  BY DEF WorldKept, meshVars, machineVars
<1>2. Existing' = Existing /\ \A m : AddressOf(m)' <=> AddressOf(m)
  BY <1>1 DEF Existing, AddressOf
<1>3. MeshGrows
  BY <1>1, <1>2 DEF MeshGrows
<1> QED
  BY <1>1, <1>3 DEF InstallIInv, Typed, MeshTypeOK, MachineType, WorldInv, RolesOnce, machineVars

(* A run ends, or the configuration is written anew between runs.          *)
LEMMA EndsKeeps ==
    ASSUME InstallIInv, Ends \/ Abandon \/ Reconfigure, WorldKept
    PROVE  InstallIInv'
<1>1. config \in Configs /\ CountsType /\ (Resting => know = NothingKnown)
  BY DEF InstallIInv, Typed, RunInv, RunType
<1>2. Rest'
  BY <1>1 DEF Rest, Ends, Abandon, Reconfigure, Edit
<1>3. CountsType'
  BY <1>1, ConstantsAssumption DEF CountsType, Ends, Abandon, Reconfigure, Edit, Fault
<1> QED
  BY <1>2, <1>3, SameWorld, RestNext DEF RestState

(* A command given, with a verdict on whether something stands in its way. *)
LEMMA BeginKeeps ==
    ASSUME InstallIInv, WorldKept, NEW what \in Commands \ {"nothing"}, NEW ns \in SUBSET Node,
           NEW able \in BOOLEAN, Begin(what, ns, PipelineOf(what, config), able),
           what \in {"install"} \cup Unverified => ns = config.nodes,
           what = "add-node" => \E n \in config.nodes \ {Server} : ns = {n},
           what \in Unverified => ~able,
           able =>
              LET c == config
              IN  /\ OnNetwork(c) => /\ c.network \in Networks
                                     /\ \A h \in hosts : h.node \in ns => ~h.blocked
                  /\ Renders(c)
                  /\ c.clients = 0 \/ k3s[Server].flag \/ byHand
                  /\ c.mode = "floating" => c.gateways \cap ns \subseteq Held
                  /\ what = "install" =>
                        /\ OnNetwork(c) => RolesInOrder(c)
                        /\ \A n \in Registered \ ns : k3s[n].up
                  /\ what = "add-node" =>
                        /\ OnNetwork(c) => DefaultRole \in Existing
                        /\ ServerUp /\ cluster.cilium = "with controller"
    PROVE  InstallIInv'
<1> DEFINE e == [Idle(config) EXCEPT !.what = what, !.nodes = ns, !.able = able]
<1>1. /\ config \in Configs /\ CountsType
  BY DEF InstallIInv, Typed, RunInv, RunType
<1>2. /\ run' = StartingOn(e, PipelineOf(what, config)) /\ know' = NothingKnown
      /\ config' = config /\ edits' = edits /\ faults' = faults
  BY DEF Begin
<1>3. PICK r : r = e
  OBVIOUS
<1>4. /\ r \in RunType /\ r.what = what /\ r.conf = config /\ r.nodes = ns /\ r.able = able
      /\ ~r.failed /\ ~r.verifying
  BY <1>1, <1>3, EmptySeq DEF Idle, RunType
<1>5. run' = StartingOn(r, PipelineOf(r.what, r.conf))
  BY <1>2, <1>3, <1>4
<1> HIDE DEF e
<1>6. /\ RunInv'
      /\ SameRun(run', r) /\ run'.failed = r.failed
      /\ \A x, m : ~Through(x, m)' /\ ~Behind(x, m)'
  <2>1. r.what # "nothing" /\ r.conf = config'
    BY <1>2, <1>4
  <2>2. r.what \in {"install"} \cup Unverified => r.nodes = r.conf.nodes
    BY <1>4
  <2>3. r.what = "add-node" => \E n \in r.conf.nodes \ {Server} : r.nodes = {n}
    BY <1>4
  <2>4. r.what \in Unverified => ~r.verifying /\ ~r.able
    BY <1>4
  <2> QED
    BY <1>4, <1>5, <2>1, <2>2, <2>3, <2>4, Begun
<1>7. /\ run'.what = what /\ run'.conf = config /\ run'.nodes = ns /\ run'.able = able
      /\ ~run'.verifying /\ ~run'.failed
  BY <1>4, <1>6 DEF SameRun
<1>8. /\ MeshTypeOK' /\ MachineType' /\ WorldInv' /\ RolesOnce'
      /\ UNCHANGED <<hosts, roles, client, k3s, byHand, cluster>>
  BY SameWorld DEF WorldKept, meshVars, machineVars
<1>9. AbleInv'
  BY <1>7, <1>8 DEF AbleInv, Registered, RolesInOrder, Existing, ServerUp
<1>10. CountsType'
  BY <1>1, <1>2 DEF CountsType
<1> QED
  BY <1>2, <1>6, <1>7, <1>8, <1>9, <1>10, FreshNext DEF FreshState

(* Why nothing stands in the way.                                          *)
LEMMA AbleIs ==
    ASSUME NEW c, NEW ns, Able(c, ns)
    PROVE  /\ OnNetwork(c) => /\ c.network \in Networks
                              /\ \A h \in hosts : h.node \in ns => ~h.blocked
           /\ Renders(c)
           /\ c.clients = 0 \/ k3s[Server].flag \/ byHand
           /\ c.mode = "floating" => c.gateways \cap ns \subseteq Held
BY DEF Able, AbleToMesh

(* An installation begins.                                                 *)
LEMMA BeginInstallKeeps ==
    ASSUME InstallIInv, BeginInstall, WorldKept
    PROVE  InstallIInv'
<1> DEFINE able == /\ Able(config, config.nodes)
                   /\ OnNetwork(config) => RolesInOrder(config)
                   /\ \A n \in Registered \ config.nodes : k3s[n].up
<1>1. config \in Configs /\ config.nodes \subseteq Node
  BY ConstantsAssumption DEF InstallIInv, RunInv, RunType
<1>2. Begin("install", config.nodes, PipelineOf("install", config), able)
  BY PipelineIs DEF BeginInstall
<1>3. able \in BOOLEAN
  OBVIOUS
<1>4. able => /\ OnNetwork(config) => /\ config.network \in Networks
                                      /\ \A h \in hosts : h.node \in config.nodes => ~h.blocked
              /\ Renders(config)
              /\ config.clients = 0 \/ k3s[Server].flag \/ byHand
              /\ config.mode = "floating" => config.gateways \cap config.nodes \subseteq Held
              /\ OnNetwork(config) => RolesInOrder(config)
              /\ \A n \in Registered \ config.nodes : k3s[n].up
  BY AbleIs
<1> HIDE DEF able
<1>5. "install" \in Commands \ {"nothing"} /\ "install" \notin Unverified
  BY DEF Commands, Unverified
<1> QED
  BY <1>1, <1>2, <1>3, <1>4, <1>5, BeginKeeps

(* An addition begins.                                                     *)
LEMMA BeginAddNodeKeeps ==
    ASSUME InstallIInv, BeginAddNode, WorldKept
    PROVE  InstallIInv'
<1>1. config \in Configs /\ config.nodes \subseteq Node
  BY ConstantsAssumption DEF InstallIInv, RunInv, RunType
<1>2. PICK n \in config.nodes \ {Server} :
         Begin("add-node", {n}, AddNodePipeline(config),
               /\ Able(config, {n})
               /\ OnNetwork(config) => DefaultRole \in Existing
               /\ ServerUp /\ cluster.cilium = "with controller")
  BY DEF BeginAddNode
<1> DEFINE able == /\ Able(config, {n})
                   /\ OnNetwork(config) => DefaultRole \in Existing
                   /\ ServerUp /\ cluster.cilium = "with controller"
<1>3. Begin("add-node", {n}, PipelineOf("add-node", config), able)
  BY <1>2, PipelineIs
<1>4. able \in BOOLEAN
  OBVIOUS
<1>5. able => /\ OnNetwork(config) => /\ config.network \in Networks
                                      /\ \A h \in hosts : h.node \in {n} => ~h.blocked
              /\ Renders(config)
              /\ config.clients = 0 \/ k3s[Server].flag \/ byHand
              /\ config.mode = "floating" => config.gateways \cap {n} \subseteq Held
              /\ OnNetwork(config) => DefaultRole \in Existing
              /\ ServerUp /\ cluster.cilium = "with controller"
  BY AbleIs
<1> HIDE DEF able
<1>6. "add-node" \in Commands \ {"nothing"} /\ "add-node" \notin {"install"} \cup Unverified
  BY DEF Commands, Unverified
<1>7. {n} \in SUBSET Node
  BY <1>1
<1> QED
  BY <1>3, <1>4, <1>5, <1>6, <1>7, BeginKeeps

(* A bundle begins.                                                        *)
LEMMA BeginBundleKeeps ==
    ASSUME InstallIInv, BeginBundle, WorldKept
    PROVE  InstallIInv'
<1>1. config \in Configs /\ config.nodes \in SUBSET Node
  BY ConstantsAssumption DEF InstallIInv, RunInv, RunType
<1>2. PICK what \in Unverified : Begin(what, config.nodes, PipelineOf(what, config), FALSE)
  BY DEF BeginBundle
<1>3. what \in Commands \ {"nothing"} /\ what # "add-node"
  BY DEF Commands, Unverified
<1> QED
  BY <1>1, <1>2, <1>3, BeginKeeps

(* A run that got to its end has brought about all that was asked of it.   *)
LEMMA DoneHasAll ==
    ASSUME InstallIInv, Done, ~run.verifying, NEW x \in Asked, NEW m \in For(x)
    PROVE  Through(x, m) /\ Brought(x, m)
<1>1. Left = {}
  BY DEF Done, Left, Elems
<1>2. Through(x, m) /\ Has(x, m)
  BY <1>1 DEF Through, Has
<1> QED
  BY <1>2 DEF InstallIInv, BroughtInv, Done

(* A run begins to verify what it did: what it brought about by all of     *)
(* its steps is so, and stays so through its checks.                       *)
LEMMA VerifyKeeps ==
    ASSUME InstallIInv, Verify, WorldKept
    PROVE  InstallIInv'
<1>1. /\ run.what \in {"install", "add-node"} /\ Done /\ ~run.verifying
      /\ run' = StartingOn([run EXCEPT !.verifying = TRUE], PipelineOf(run.what, run.conf))
      /\ know' = NothingKnown
      /\ config' = config /\ edits' = edits /\ faults' = faults
  BY DEF Verify, StartVerifying
<1>2. RunInv /\ run \in RunType /\ run.conf = config /\ CountsType
  BY DEF InstallIInv, Typed, RunInv
<1>3. PICK r : r = [run EXCEPT !.verifying = TRUE]
  OBVIOUS
<1>4. /\ r \in RunType /\ r.what = run.what /\ r.conf = run.conf /\ r.nodes = run.nodes
      /\ r.able = run.able /\ r.failed = run.failed /\ r.verifying = TRUE
  BY <1>2, <1>3 DEF RunType
<1>5. /\ RunInv'
      /\ SameRun(run', r) /\ run'.failed = r.failed
      /\ \A x, m : ~Through(x, m)' /\ ~Behind(x, m)'
  <2>1. r.what # "nothing" /\ r.conf = config' /\ r.what \notin Unverified /\ ~r.failed
    BY <1>1, <1>2, <1>4 DEF Done, Unverified
  <2>2. run' = StartingOn(r, PipelineOf(r.what, r.conf))
    BY <1>1, <1>3, <1>4
  <2>3. r.what \in {"install"} \cup Unverified => r.nodes = r.conf.nodes
    BY <1>2, <1>4 DEF RunInv
  <2>4. r.what = "add-node" => \E n \in r.conf.nodes \ {Server} : r.nodes = {n}
    BY <1>2, <1>4 DEF RunInv
  <2> QED
    BY <1>4, <2>1, <2>2, <2>3, <2>4, Begun
<1>6. /\ run'.what = run.what /\ run'.conf = run.conf /\ run'.nodes = run.nodes
      /\ run'.able = run.able /\ ~run'.failed
  BY <1>1, <1>4, <1>5 DEF SameRun, Done
<1>7. /\ MeshTypeOK' /\ MachineType' /\ WorldInv' /\ RolesOnce' /\ MeshGrows
      /\ UNCHANGED machineVars
      /\ UNCHANGED <<hosts, roles, client, k3s, byHand, cluster>>
  BY SameWorld DEF WorldKept, meshVars, machineVars
<1>8. AbleInv'
  BY <1>6, <1>7
  DEF InstallIInv, AbleInv, Registered, RolesInOrder, Existing, ServerUp
<1>9. CountsType'
  BY <1>1, <1>2 DEF CountsType
<1>10. Asked' = Asked /\ \A x : For(x)' = For(x)
  BY <1>6 DEF Asked, Pipe, For
<1>11. ASSUME NEW x \in Asked', NEW m \in For(x)'
       PROVE  Brought(x, m)'
  <2>1. Brought(x, m)
    BY <1>1, <1>10, <1>11, DoneHasAll
  <2>2. m \in Node
    BY <1>2, <1>10, <1>11, ScopeType DEF RunType, For
  <2> QED
    BY <1>6, <1>7, <2>1, <2>2, BroughtGrows DEF InstallIInv
<1> QED
  BY <1>1, <1>5, <1>6, <1>7, <1>8, <1>9, <1>11, FreshNext DEF FreshState

-----------------------------------------------------------------------------
(* What others do                                                          *)

(* A run is none the wiser, and nothing it brought about is undone.        *)
LEMMA OthersKeep ==
    ASSUME InstallIInv, UNCHANGED runVars, MeshTypeOK', MachineType',
           WorldInv', KnowInv', AbleInv', RolesOnce', Stays,
           \A x \in Asked : \A m \in For(x) : Learned(x, m) => Learned(x, m)',
           \A x \in Asked : \A m \in For(x) : Brought(x, m) => Brought(x, m)'
    PROVE  InstallIInv'
<1>1. config' = config /\ run' = run /\ know' = know /\ edits' = edits /\ faults' = faults
  BY DEF runVars
<1>2. /\ Pipe' = Pipe /\ Asked' = Asked /\ \A x : For(x)' = For(x)
      /\ Left' = Left
  BY <1>1 DEF Pipe, Asked, For, Left
<1>3. \A x, m : (Through(x, m)' <=> Through(x, m)) /\ (Behind(x, m)' <=> Behind(x, m))
  BY <1>1, <1>2 DEF Through, Behind
<1>4. \A x, m : Has(x, m)' <=> Has(x, m)
  BY <1>1, <1>2, <1>3 DEF Has
<1>5. RunInv'
  <2>1. RunInv
    BY DEF InstallIInv
  <2> QED
    BY <1>1, <1>2, <2>1 DEF RunInv, Resting, Due
<1>6. Typed'
  BY <1>1 DEF InstallIInv, Typed, CountsType, KnowType
<1>7. LearnedInv'
  BY <1>1, <1>2, <1>3 DEF InstallIInv, LearnedInv
<1>8. BroughtInv'
  BY <1>1, <1>2, <1>4 DEF InstallIInv, BroughtInv
<1>9. BehindInv'
  <2>1. SUFFICES ASSUME NEW m \in Node
                 PROVE  /\ Behind("list-roles-once", m)' => KnowsRoles(m)'
                        /\ Behind("find-node-ip", m)' => KnowsAddress(m)'
                        /\ Behind("install-k3s-server", m)' => ServerUp'
                        /\ Behind("check-cluster-online", m)' => ServerUp'
                        /\ Behind("install-gateway-api", m)' => cluster'.crds
    BY DEF BehindInv
  <2>2. /\ Behind("list-roles-once", m) => KnowsRoles(m)
        /\ Behind("find-node-ip", m) => KnowsAddress(m)
        /\ Behind("install-k3s-server", m) \/ Behind("check-cluster-online", m) => ServerUp
        /\ Behind("install-gateway-api", m) => cluster.crds
    BY DEF InstallIInv, BehindInv
  <2> QED
    BY <1>3, <2>2 DEF Stays
<1>10. RerunSucceeds'
  BY <1>1 DEF InstallIInv, RerunSucceeds
<1> QED
  BY <1>5, <1>6, <1>7, <1>8, <1>9, <1>10 DEF InstallIInv

(* Steps are for nodes there are.                                          *)
LEMMA AskedNodes ==
    ASSUME InstallIInv, NEW x \in Asked, NEW m \in For(x)
    PROVE  m \in Node /\ run.conf \in Configs
BY ScopeType DEF InstallIInv, RunInv, RunType, For

(* A client that asks for its configuration gets the address a run has     *)
(* seen to.                                                                *)
LEMMA DnclientPollsKeeps ==
    ASSUME InstallIInv, NEW n \in Node, DnclientPolls(n), UNCHANGED machineVars
    PROVE  InstallIInv'
<1>1. /\ client[n].as # "none"
      /\ client' = [client EXCEPT ![n].ipv4 = AddressOf(n)]
      /\ UNCHANGED <<config, run, know, edits, faults, hosts, roles>>
      /\ UNCHANGED <<disk, k3s, byHand, cluster>>
      /\ UNCHANGED runVars
  BY DEF DnclientPolls, runVars, machineVars
<1>2. MeshTypeOK /\ MachineType /\ WorldInv /\ KnowInv /\ AbleInv /\ RolesOnce
  BY DEF InstallIInv, Typed
<1>3. /\ Existing' = Existing
      /\ \A m : AddressOf(m)' <=> AddressOf(m)
      /\ \A m \in Node : client'[m].as = client[m].as /\ client'[m].installed = client[m].installed
      /\ client'[n].ipv4 = AddressOf(n)
      /\ \A m \in Node : m # n => client'[m].ipv4 = client[m].ipv4
  BY <1>1, <1>2 DEF Existing, AddressOf, MeshTypeOK
<1>4. MeshTypeOK'
  <2>1. client' \in [Node -> [installed : BOOLEAN, ipv4 : BOOLEAN,
                              as : {"none", "as configured", "capitalised"}]]
    <3>1. AddressOf(n) \in BOOLEAN
      BY DEF AddressOf
    <3> QED
      BY <1>1, <1>2, <3>1 DEF MeshTypeOK
  <2> QED
    BY <1>1, <1>2, <2>1 DEF MeshTypeOK
<1>5. MeshGrows
  BY <1>1, <1>3 DEF MeshGrows
<1>6. SameRun(run', run)
  BY <1>1 DEF SameRun
<1>7. AbleInv'
  BY <1>2, <1>5, <1>6, AbleGrows
<1>8. WorldInv'
  BY <1>1, <1>2, <1>3 DEF WorldInv
<1>9. KnowInv'
  BY <1>1, <1>2, <1>3 DEF KnowInv
<1>10. MachineType' /\ RolesOnce'
  BY <1>1, <1>2 DEF MachineType, RolesOnce
<1>11. \A x, m : Learned(x, m)' <=> Learned(x, m)
  BY <1>1, <1>3 DEF Learned, KnowsRoles, KnowsHost, KnowsAddress, Loaded, RuntimeLoaded, HostsOf
<1>12. Stays
  BY <1>1, <1>3 DEF Stays, KnowsRoles, KnowsAddress, ServerUp
<1>13. ASSUME NEW x \in Asked, NEW m \in For(x), Brought(x, m)
       PROVE  Brought(x, m)'
  BY <1>1, <1>5, <1>13, AskedNodes, BroughtGrows DEF InstallIInv
<1> QED
  BY <1>1, <1>4, <1>7, <1>8, <1>9, <1>10, <1>11, <1>12, <1>13, OthersKeep

(* K3s joins by itself, on the address it was started on, and no node it   *)
(* was waited for is registered elsewhere.                                 *)
LEMMA JoinsKeeps ==
    ASSUME InstallIInv, NEW n \in Node, Joins(n)
    PROVE  InstallIInv'
<1>1. /\ k3s[n].up /\ ~k3s[n].joined /\ ServerUp
      /\ k3s' = [k3s EXCEPT ![n].joined = TRUE, ![n].credentials = TRUE]
      /\ cluster' = [cluster EXCEPT !.registered[n] = k3s[n].address]
      /\ UNCHANGED <<config, run, know, edits, faults, hosts, roles, client, disk, byHand>>
      /\ UNCHANGED runVars
  BY DEF Joins, runVars, meshVars
<1>2. MeshTypeOK /\ MachineType /\ WorldInv /\ KnowInv /\ AbleInv /\ RolesOnce
  BY DEF InstallIInv, Typed
<1>3. k3s \in [Node -> K3sType] /\ cluster \in ClusterType
  BY <1>2 DEF MachineType
<1>4. /\ \A m \in Node : /\ k3s'[m].up = k3s[m].up /\ k3s'[m].address = k3s[m].address
                         /\ k3s'[m].flag = k3s[m].flag /\ k3s'[m].registries = k3s[m].registries
                         /\ k3s'[m].runtime = k3s[m].runtime
                         /\ k3s[m].credentials => k3s'[m].credentials
      /\ k3s'[n].joined /\ k3s'[n].credentials
      /\ \A m \in Node : m # n => k3s'[m] = k3s[m]
      /\ k3s' \in [Node -> K3sType]
  <2>1. PICK k \in K3sType : k = k3s[n]
    BY <1>3
  <2> DEFINE new == [k EXCEPT !.joined = TRUE, !.credentials = TRUE]
  <2>2. /\ new \in K3sType /\ new.up = k.up /\ new.address = k.address /\ new.flag = k.flag
        /\ new.registries = k.registries /\ new.runtime = k.runtime
        /\ new.joined /\ new.credentials
    BY DEF K3sType
  <2>3. k3s' = [k3s EXCEPT ![n] = new]
    BY <1>1, <1>3, <2>1
  <2> HIDE DEF new
  <2>4. k3s'[n] = new /\ (\A m \in Node : m # n => k3s'[m] = k3s[m]) /\ k3s' \in [Node -> K3sType]
    BY <1>3, <2>2, <2>3
  <2> QED
    BY <2>1, <2>2, <2>4
<1>5. /\ cluster'.registered = [cluster.registered EXCEPT ![n] = k3s[n].address]
      /\ cluster'.gateways = cluster.gateways /\ cluster'.gpus = cluster.gpus
      /\ cluster'.crds = cluster.crds /\ cluster'.cilium = cluster.cilium
      /\ cluster'.pool = cluster.pool /\ cluster'.policy = cluster.policy
      /\ cluster'.gateway = cluster.gateway /\ cluster'.record = cluster.record
  BY <1>1, <1>3 DEF ClusterType
<1>6. k3s[n].address \in {"local", "mesh"} /\ cluster.registered \in [Node -> {"none", "local",
                                                                               "mesh"}]
  BY <1>3 DEF K3sType, ClusterType
<1>7. /\ cluster'.registered[n] = k3s[n].address
      /\ \A m \in Node : m # n => cluster'.registered[m] = cluster.registered[m]
      /\ cluster'.registered \in [Node -> {"none", "local", "mesh"}]
  BY <1>5, <1>6
<1>8. cluster' \in ClusterType
  BY <1>1, <1>3, <1>7 DEF ClusterType
<1>9. /\ Registered' = Registered \cup {n}
      /\ \A m \in Node : Ready(m) => Ready(m)'
      /\ Ready(n)'
      /\ ServerUp'
  <2>1. Registered' = Registered \cup {n}
    BY <1>6, <1>7 DEF Registered
  <2>2. Server \in Node
    BY ConstantsAssumption
  <2> QED
    BY <1>1, <1>4, <2>1, <2>2 DEF Ready, ServerUp
<1>10. MeshTypeOK' /\ MachineType' /\ RolesOnce'
  BY <1>1, <1>2, <1>4, <1>8 DEF MeshTypeOK, MachineType, RolesOnce
<1>11. WorldInv'
  BY <1>1, <1>2, <1>4, <1>5, <1>7 DEF WorldInv
<1>12. Existing' = Existing
  BY <1>1 DEF Existing
<1>13. KnowInv'
  BY <1>1, <1>2, <1>4, <1>12 DEF KnowInv
<1>14. AbleInv'
  <2>1. \A c : RolesInOrder(c)' <=> RolesInOrder(c)
    BY <1>12 DEF RolesInOrder
  <2>2. k3s'[Server].flag = k3s[Server].flag /\ byHand' = byHand
    BY <1>1, <1>4, ConstantsAssumption
  <2>3. SameRun(run', run) /\ hosts' = hosts /\ cluster'.cilium = cluster.cilium
    BY <1>1, <1>5 DEF SameRun
  <2>4. \A m \in Registered \ run.nodes : k3s[m].up => k3s'[m].up
    BY <1>4 DEF Registered
  <2>5. \A m \in Registered' \ Registered : k3s'[m].up
    BY <1>1, <1>4, <1>9
  <2>6. ServerUp => ServerUp'
    BY <1>9
  <2> QED
    BY <1>2, <1>12, <2>1, <2>2, <2>3, <2>4, <2>5, <2>6, AbleStays
<1>15. ASSUME NEW m \in Node
       PROVE  /\ KnowsRoles(m)' <=> KnowsRoles(m)
              /\ KnowsHost(m)' <=> KnowsHost(m)
              /\ KnowsAddress(m)' <=> KnowsAddress(m)
              /\ Loaded(m)' <=> Loaded(m)
              /\ RuntimeLoaded(m)' <=> RuntimeLoaded(m)
              /\ HasRegistries(m)' <=> HasRegistries(m)
  BY <1>1, <1>4, <1>12
  DEF KnowsRoles, KnowsHost, KnowsAddress, Loaded, RuntimeLoaded, HostsOf, HasRegistries
<1>16. \A x : \A m \in Node : Learned(x, m)' <=> Learned(x, m)
  BY <1>1, <1>15 DEF Learned
<1>17. Stays
  BY <1>1, <1>5, <1>9, <1>15 DEF Stays
<1>18. ASSUME NEW x, NEW m \in Node, Brought(x, m)
       PROVE  Brought(x, m)'
  <2>1. MeshBrought(x, m)'
    BY <1>1, <1>12, <1>18 DEF Brought, MeshBrought, HostsOf, AddressOf
  <2>2. DiskBrought(x, m)'
    BY <1>1, <1>15, <1>18 DEF Brought, DiskBrought
  <2>3. K3sBrought(x, m)'
    BY <1>1, <1>4, <1>9, <1>15, <1>18 DEF Brought, K3sBrought
  <2>4. JoinBrought(x, m)'
    <3>1. JoinBrought(x, m)
      BY <1>18 DEF Brought
    <3>2. x = "verify-node-ip" /\ ChecksAddress(run.conf, m) =>
             /\ cluster'.registered[m] = AddressFor(run.conf, m)
             /\ k3s'[m].address = AddressFor(run.conf, m)
      BY <1>4, <1>7, <3>1 DEF JoinBrought
    <3>3. x = "verify-cilium" => \A q \in Registered' : Ready(q)'
      <4>1. \A q \in Registered : q \in Node
        BY DEF Registered
      <4> QED
        BY <1>9, <3>1, <4>1 DEF JoinBrought
    <3> QED
      BY <1>1, <1>4, <1>9, <3>1, <3>2, <3>3 DEF JoinBrought
  <2>5. ClusterBrought(x, m)'
    BY <1>1, <1>5, <1>18 DEF Brought, ClusterBrought
  <2> QED
    BY <2>1, <2>2, <2>3, <2>4, <2>5 DEF Brought
<1>19. \A x \in Asked : \A m \in For(x) : m \in Node
  BY AskedNodes
<1> QED
  BY <1>1, <1>10, <1>11, <1>13, <1>14, <1>16, <1>17, <1>18, <1>19, OthersKeep

(* Between runs nothing is known and nothing is asked for.                 *)
LEMMA EditKeeps ==
    ASSUME InstallIInv, Edit, UNCHANGED <<config, run, know, faults>>,
           MeshTypeOK', MachineType', WorldInv', RolesOnce'
    PROVE  InstallIInv'
<1>1. config \in Configs /\ run = Idle(config) /\ know = NothingKnown /\ CountsType
  BY DEF InstallIInv, Typed, RunInv, RunType, Edit
<1>2. Rest'
  BY <1>1 DEF Rest
<1>3. CountsType'
  BY <1>1, ConstantsAssumption DEF CountsType, Edit
<1> QED
  BY <1>2, <1>3, RestNext DEF RestState

(* A host somebody makes in the dashboard.                                 *)
LEMMA MadeInDashboardKeeps ==
    ASSUME InstallIInv, NEW n \in Node, MadeInDashboard(n), UNCHANGED machineVars
    PROVE  InstallIInv'
<1> DEFINE made == [node |-> n, name |-> "capitalised", ipv4 |-> FALSE, blocked |-> FALSE]
<1>1. /\ Edit /\ (\A h \in hosts : h.node # n) /\ hosts' = hosts \cup {made}
      /\ \/ UNCHANGED client
         \/ client' = [client EXCEPT ![n].installed = TRUE, ![n].as = "capitalised"]
      /\ UNCHANGED <<config, run, know, faults, roles, disk, k3s, byHand, cluster>>
  BY DEF MadeInDashboard, machineVars
<1>2. MeshTypeOK /\ MachineType /\ WorldInv /\ RolesOnce
  BY DEF InstallIInv, Typed
<1>3. MeshTypeOK'
  <2>1. made \in [node : Node, name : {"as configured", "capitalised"},
                  ipv4 : BOOLEAN, blocked : BOOLEAN]
    OBVIOUS
  <2>2. client' \in [Node -> [installed : BOOLEAN, ipv4 : BOOLEAN,
                              as : {"none", "as configured", "capitalised"}]]
    <3>1. CASE UNCHANGED client
      BY <1>2, <3>1 DEF MeshTypeOK
    <3>2. CASE client' = [client EXCEPT ![n].installed = TRUE, ![n].as = "capitalised"]
      BY <1>2, <3>2 DEF MeshTypeOK
    <3> QED
      BY <1>1, <3>1, <3>2
  <2> HIDE DEF made
  <2> QED
    BY <1>1, <1>2, <2>1, <2>2 DEF MeshTypeOK
<1>4. MachineType' /\ RolesOnce'
  BY <1>1, <1>2 DEF MachineType, RolesOnce
<1>5. made \in hosts' /\ made.node = n /\ \A h \in hosts : h \in hosts'
  BY <1>1
<1>6. \A m \in Node : m # n => client'[m].as = client[m].as
  BY <1>1, <1>2 DEF MeshTypeOK
<1>7. \A g, h \in hosts' : g.node = h.node => g = h
  <2>1. \A h \in hosts' : h \in hosts \/ h = made
    BY <1>1
  <2>2. \A g, h \in hosts : g.node = h.node => g = h
    BY <1>2 DEF WorldInv
  <2>3. \A h \in hosts : h.node # n
    BY <1>1
  <2>4. made.node = n
    OBVIOUS
  <2> HIDE DEF made
  <2> QED
    BY <2>1, <2>2, <2>3, <2>4
<1>8. \A m \in Node : client'[m].as # "none" => \E h \in hosts' : h.node = m
  BY <1>2, <1>5, <1>6 DEF WorldInv
<1>9. WorldInv'
  BY <1>1, <1>2, <1>7, <1>8 DEF WorldInv
<1> QED
  BY <1>1, <1>3, <1>4, <1>9, EditKeeps

(* One somebody blocks, or unblocks.                                       *)
LEMMA BlockKeeps ==
    ASSUME InstallIInv, NEW n \in Node, Block(n), UNCHANGED machineVars
    PROVE  InstallIInv'
<1>1. PICK h \in hosts : /\ h.node = n
                         /\ hosts' = (hosts \ {h}) \cup {[h EXCEPT !.blocked = ~@]}
  BY DEF Block
<1>2. /\ Edit
      /\ UNCHANGED <<config, run, know, faults, roles, client, disk, k3s, byHand, cluster>>
  BY DEF Block, machineVars
<1>3. MeshTypeOK /\ MachineType /\ WorldInv /\ RolesOnce
  BY DEF InstallIInv, Typed
<1>4. PICK g : g = [h EXCEPT !.blocked = ~@]
  OBVIOUS
<1>5. /\ g.node = n
      /\ g \in [node : Node, name : {"as configured", "capitalised"},
                ipv4 : BOOLEAN, blocked : BOOLEAN]
  BY <1>1, <1>3, <1>4 DEF MeshTypeOK
<1>6. hosts' = (hosts \ {h}) \cup {g}
  BY <1>1, <1>4
<1>7. MeshTypeOK'
  BY <1>2, <1>3, <1>5, <1>6 DEF MeshTypeOK
<1>8. MachineType' /\ RolesOnce'
  BY <1>2, <1>3 DEF MachineType, RolesOnce
<1>9. \A e, f \in hosts' : e.node = f.node => e = f
  <2>1. \A e, f \in hosts : e.node = f.node => e = f
    BY <1>3 DEF WorldInv
  <2>2. \A e \in hosts' : (e \in hosts /\ e # h) \/ e = g
    BY <1>6
  <2>3. h \in hosts /\ h.node = n
    BY <1>1
  <2> QED
    BY <1>5, <2>1, <2>2, <2>3
<1>10. \A m : (\E e \in hosts : e.node = m) => \E e \in hosts' : e.node = m
  BY <1>1, <1>5, <1>6
<1>11. WorldInv'
  BY <1>2, <1>3, <1>9, <1>10 DEF WorldInv
<1> QED
  BY <1>2, <1>7, <1>8, <1>11, EditKeeps

(* A machine that is set up anew.                                          *)
LEMMA RebuildKeeps ==
    ASSUME InstallIInv, NEW n \in Node, Rebuild(n)
    PROVE  InstallIInv'
<1>1. /\ Edit
      /\ client' = [client EXCEPT ![n] = NoClient]
      /\ disk' = [disk EXCEPT ![n] = NoDisk]
      /\ k3s' = [k3s EXCEPT ![n] = NoK3s]
      /\ UNCHANGED <<config, run, know, faults, hosts, roles, byHand, cluster>>
  BY DEF Rebuild
<1>2. MeshTypeOK /\ MachineType /\ WorldInv /\ RolesOnce
  BY DEF InstallIInv, Typed
<1>3. NoDisk \in DiskType /\ NoK3s \in K3sType /\ ~NoK3s.joined
  BY DEF NoDisk, DiskType, NoK3s, K3sType
<1>4. /\ NoClient.as = "none"
      /\ NoClient \in [installed : BOOLEAN, ipv4 : BOOLEAN,
                       as : {"none", "as configured", "capitalised"}]
  BY DEF NoClient
<1>5. MeshTypeOK' /\ RolesOnce'
  BY <1>1, <1>2, <1>4 DEF MeshTypeOK, RolesOnce
<1>6. MachineType'
  BY <1>1, <1>2, <1>3 DEF MachineType
<1>7. \A m \in Node : /\ client'[m] = IF m = n THEN NoClient ELSE client[m]
                      /\ k3s'[m] = IF m = n THEN NoK3s ELSE k3s[m]
  BY <1>1, <1>2 DEF MeshTypeOK, MachineType
<1>8. WorldInv'
  <2>1. /\ \A g, h \in hosts : g.node = h.node => g = h
        /\ \A m \in Node : /\ client[m].as # "none" => \E h \in hosts : h.node = m
                           /\ k3s[m].joined => cluster.registered[m] = k3s[m].address
        /\ cluster.cilium # "without"
    BY <1>2 DEF WorldInv
  <2>2. \A m \in Node : client'[m].as # "none" => client[m].as # "none"
    BY <1>4, <1>7
  <2>3. \A m \in Node : k3s'[m].joined => k3s'[m] = k3s[m] /\ k3s[m].joined
    BY <1>3, <1>7
  <2>4. hosts' = hosts /\ cluster' = cluster
    BY <1>1
  <2>5. \A m \in Node : k3s'[m].joined => cluster'.registered[m] = k3s'[m].address
    BY <2>1, <2>3, <2>4
  <2>6. \A m \in Node : client'[m].as # "none" => \E h \in hosts' : h.node = m
    BY <2>1, <2>2, <2>4
  <2> QED
    BY <2>1, <2>4, <2>5, <2>6 DEF WorldInv
<1> QED
  BY <1>1, <1>5, <1>6, <1>8, EditKeeps

(* A driver somebody installs, and a cluster whose sign-in was set up by   *)
(* hand.                                                                   *)
LEMMA MachineEditKeeps ==
    ASSUME InstallIInv, (\E n \in Node : InstallDriver(n)) \/ SetUpByHand
    PROVE  InstallIInv'
<1>1. /\ Edit /\ UNCHANGED <<config, run, know, faults, hosts, roles, client, k3s, cluster>>
  BY DEF InstallDriver, SetUpByHand, meshVars
<1>2. MeshTypeOK /\ MachineType /\ WorldInv /\ RolesOnce
  BY DEF InstallIInv, Typed
<1>3. MeshTypeOK' /\ RolesOnce' /\ WorldInv'
  BY <1>1, <1>2 DEF MeshTypeOK, RolesOnce, WorldInv
<1>4. MachineType'
  <2>1. CASE SetUpByHand
    BY <1>1, <1>2, <2>1 DEF SetUpByHand, MachineType
  <2>2. CASE \E n \in Node : InstallDriver(n)
    <3>1. PICK n \in Node : InstallDriver(n)
      BY <2>2
    <3>2. disk' = [disk EXCEPT ![n].driver = TRUE] /\ byHand' = byHand
      BY <3>1 DEF InstallDriver
    <3> QED
      BY <1>1, <1>2, <3>2 DEF MachineType, DiskType
  <2> QED
    BY <2>1, <2>2
<1> QED
  BY <1>1, <1>3, <1>4, EditKeeps

(* A step that changes nothing.                                            *)
LEMMA StutterKeeps ==
    ASSUME InstallIInv, UNCHANGED vars
    PROVE  InstallIInv'
<1>1. UNCHANGED runVars /\ WorldKept /\ UNCHANGED <<config, run, know, edits, faults>>
  BY DEF vars, WorldKept, runVars
<1>2. /\ MeshTypeOK' /\ MachineType' /\ WorldInv' /\ RolesOnce'
      /\ UNCHANGED <<hosts, roles, client, disk, k3s, byHand, cluster>>
  BY <1>1, SameWorld DEF WorldKept, meshVars, machineVars
<1>3. SameRun(run', run)
  BY <1>1 DEF SameRun
<1>4. Typed /\ WorldInv /\ AbleInv /\ RolesOnce /\ KnowInv /\ CountsType
  BY DEF InstallIInv, Typed
<1>5. CountsType'
  BY <1>1, <1>4 DEF CountsType
<1>6. /\ AbleInv' /\ (ServerUp => ServerUp') /\ (cluster.crds => cluster'.crds)
      /\ \A x, n : Brought(x, n)' <=> Brought(x, n)
  BY <1>1, <1>3, <1>4, <1>5, WorldStays
<1>7. KnowInv'
  BY <1>1, <1>2, <1>4 DEF KnowInv, Existing
<1>8. \A x, m : Learned(x, m)' <=> Learned(x, m)
  BY <1>1, <1>2
  DEF Learned, KnowsRoles, KnowsHost, KnowsAddress, Loaded, RuntimeLoaded, HostsOf, Existing
<1>9. Stays
  BY <1>1, <1>2, <1>6 DEF Stays, KnowsRoles, KnowsAddress, Existing
<1> QED
  BY <1>1, <1>2, <1>6, <1>7, <1>8, <1>9, OthersKeep

-----------------------------------------------------------------------------
(* Every step keeps it                                                     *)

(* The steps that put the nodes on the mesh.                               *)
LEMMA MeshStepKeeps ==
    ASSUME InstallIInv, MeshStep, UNCHANGED machineVars
    PROVE  InstallIInv'
<1>1. CASE FindNetworkOnce
  <2>1. /\ Server \in run.todo /\ Head(run.steps) = "find-network-once"
        /\ Looks(Server, run.conf.network \in Networks, know[Server]) /\ WorldKept
    BY <1>1 DEF FindNetworkOnce, At, WorldKept
  <2> QED
    BY <2>1, FindNetworkKeeps
<1>2. CASE ListRolesOnce
  BY <1>2, ListRolesOnceKeeps
<1>3. CASE VerifyRoles
  BY <1>3, VerifyRolesKeeps
<1>4. CASE \E i \in DOMAIN run.conf.roles : CreateRole(run.conf.roles[i])
  BY <1>4, CreateRoleKeeps
<1>5. ASSUME NEW n \in Node, FindNetwork(n)
     PROVE  InstallIInv'
  <2>1. /\ n \in run.todo /\ Head(run.steps) = "find-nebula-network"
        /\ Looks(n, run.conf.network \in Networks, know[n]) /\ WorldKept
    BY <1>5 DEF FindNetwork, At, WorldKept
  <2> QED
    BY <2>1, FindNetworkKeeps
<1>6. ASSUME NEW n \in Node, CheckEnrollment(n)
     PROVE  InstallIInv'
  BY <1>6, CheckEnrollmentKeeps
<1>7. ASSUME NEW n \in Node, ListRoles(n)
     PROVE  InstallIInv'
  BY <1>7, ListRolesKeeps
<1>8. ASSUME NEW n \in Node, FindHost(n)
     PROVE  InstallIInv'
  BY <1>8, FindHostKeeps
<1>9. ASSUME NEW n \in Node, CreateHost(n)
     PROVE  InstallIInv'
  BY <1>9, CreateHostKeeps
<1>10. ASSUME NEW n \in Node, CreateEnrollmentCode(n)
     PROVE  InstallIInv'
  BY <1>10, CreateEnrollmentCodeKeeps
<1>11. ASSUME NEW n \in Node, AddIPv4Address(n)
     PROVE  InstallIInv'
  BY <1>11, AddIPv4AddressKeeps
<1>12. ASSUME NEW n \in Node, InstallDnclient(n)
     PROVE  InstallIInv'
  BY <1>12, InstallDnclientKeeps
<1>13. ASSUME NEW n \in Node, EnrollHost(n)
     PROVE  InstallIInv'
  BY <1>13, EnrollHostKeeps
<1>14. ASSUME NEW n \in Node, RefreshConfig(n)
     PROVE  InstallIInv'
  BY <1>14, RefreshConfigKeeps
<1>15. ASSUME NEW n \in Node, VerifyHost(n)
     PROVE  InstallIInv'
  BY <1>15, VerifyHostKeeps
<1> QED
  BY <1>1, <1>2, <1>3, <1>4, <1>5, <1>6, <1>7, <1>8, <1>9, <1>10, <1>11, <1>12, <1>13, <1>14,
     <1>15 DEF MeshStep

(* The steps that put K3s on them, and what is in the cluster.             *)
LEMMA BundleStepKeeps ==
    ASSUME InstallIInv, BundleStep, UNCHANGED meshVars
    PROVE  InstallIInv'
<1>1. CASE WaitForCilium("wait-for-cilium") \/ WaitForCilium("verify-cilium")
  BY <1>1, WaitForCiliumKeeps
<1>2. CASE InstallGatewayApi
  BY <1>2, InstallGatewayApiKeeps
<1>3. CASE InstallCilium
  BY <1>3, InstallCiliumKeeps
<1>4. CASE CheckGatewaySupport
  BY <1>4, CheckGatewaySupportKeeps
<1>5. CASE LabelGatewayNodes
  BY <1>5, LabelGatewayNodesKeeps
<1>6. CASE ApplyLbIpPool
  BY <1>6, ApplyLbIpPoolKeeps
<1>7. CASE ApplyL2Announcement
  BY <1>7, ApplyL2AnnouncementKeeps
<1>8. CASE VerifyGateway
  BY <1>8, VerifyGatewayKeeps
<1>9. CASE ApplyClusterGateway
  BY <1>9, ApplyClusterGatewayKeeps
<1>10. CASE VerifyClusterGateway
  BY <1>10, VerifyClusterGatewayKeeps
<1>11. CASE WriteClusterConfig
  BY <1>11, WriteClusterConfigKeeps
<1>12. CASE VerifyClusterConfig
  BY <1>12, VerifyClusterConfigKeeps
<1>13. CASE CheckClusterOnline
  BY <1>13, CheckClusterOnlineKeeps
<1>14. CASE WriteAuthenticationConfig
  BY <1>14, WriteAuthenticationConfigKeeps
<1>15. CASE VerifyAuthenticationConfig
  BY <1>15, VerifyAuthenticationConfigKeeps
<1>16. CASE InstallK3sServer
  BY <1>16, InstallK3sServerKeeps
<1>17. ASSUME NEW n \in Node, CheckGatewayInterfaces(n)
     PROVE  InstallIInv'
  BY <1>17, CheckGatewayInterfacesKeeps
<1>18. ASSUME NEW n \in Node, CheckK3sService(n)
     PROVE  InstallIInv'
  BY <1>18, CheckK3sServiceKeeps
<1>19. ASSUME NEW n \in Node, WriteRegistries(n)
     PROVE  InstallIInv'
  BY <1>19, WriteRegistriesKeeps
<1>20. ASSUME NEW n \in Node, RestartK3s(n)
     PROVE  InstallIInv'
  BY <1>20, RestartK3sKeeps
<1>21. ASSUME NEW n \in Node, VerifyRegistryAccess(n)
     PROVE  InstallIInv'
  BY <1>21, VerifyRegistryAccessKeeps
<1>22. ASSUME NEW n \in Node, FindNodeIp(n)
     PROVE  InstallIInv'
  BY <1>22, FindNodeIpKeeps
<1>23. ASSUME NEW n \in Node, InstallK3sAgent(n)
     PROVE  InstallIInv'
  BY <1>23, InstallK3sAgentKeeps
<1>24. ASSUME NEW n \in Node, WaitForK3s(n)
     PROVE  InstallIInv'
  BY <1>24, WaitForK3sKeeps
<1>25. ASSUME NEW n \in Node, VerifyK3s(n)
     PROVE  InstallIInv'
  BY <1>25, VerifyK3sKeeps
<1>26. ASSUME NEW n \in Node, VerifyNodeIp(n)
     PROVE  InstallIInv'
  BY <1>26, VerifyNodeIpKeeps
<1>27. ASSUME NEW n \in Node, CheckClusterAccess(n)
     PROVE  InstallIInv'
  BY <1>27, CheckClusterAccessKeeps
<1>28. ASSUME NEW n \in Node, ApplyNodeLabels(n)
     PROVE  InstallIInv'
  BY <1>28, ApplyNodeLabelsKeeps
<1>29. ASSUME NEW n \in Node, VerifyNodeLabels(n)
     PROVE  InstallIInv'
  BY <1>29, VerifyNodeLabelsKeeps
<1>30. ASSUME NEW n \in Node, InstallToolkit(n)
     PROVE  InstallIInv'
  BY <1>30, InstallToolkitKeeps
<1>31. ASSUME NEW n \in Node, CheckRuntime(n)
     PROVE  InstallIInv'
  BY <1>31, CheckRuntimeKeeps
<1>32. ASSUME NEW n \in Node, RestartForNvidia(n)
     PROVE  InstallIInv'
  BY <1>32, RestartForNvidiaKeeps
<1>33. ASSUME NEW n \in Node, CheckDriver(n)
     PROVE  InstallIInv'
  BY <1>33, CheckDriverKeeps
<1>34. ASSUME NEW n \in Node, LabelDriver(n)
     PROVE  InstallIInv'
  BY <1>34, LabelDriverKeeps
<1>35. ASSUME NEW n \in Node, VerifyRuntime(n)
     PROVE  InstallIInv'
  BY <1>35, VerifyRuntimeKeeps
<1>36. ASSUME NEW n \in Node, VerifyNodeReady(n)
     PROVE  InstallIInv'
  BY <1>36, VerifyNodeReadyKeeps
<1> QED
  BY <1>1, <1>2, <1>3, <1>4, <1>5, <1>6, <1>7, <1>8, <1>9, <1>10, <1>11, <1>12, <1>13, <1>14,
     <1>15, <1>16, <1>17, <1>18, <1>19, <1>20, <1>21, <1>22, <1>23, <1>24, <1>25, <1>26, <1>27,
     <1>28, <1>29, <1>30, <1>31, <1>32, <1>33, <1>34, <1>35, <1>36 DEF BundleStep

(* And so does everything else.                                            *)
LEMMA NextKeeps == InstallIInv /\ [Next]_vars => InstallIInv'
<1> SUFFICES ASSUME InstallIInv, [Next]_vars PROVE InstallIInv'
  OBVIOUS
<1>1. CASE (BeginInstall \/ BeginAddNode \/ BeginBundle) /\ UNCHANGED <<meshVars, machineVars>>
  <2>1. WorldKept
    BY <1>1 DEF WorldKept
  <2> QED
    BY <1>1, <2>1, BeginInstallKeeps, BeginAddNodeKeeps, BeginBundleKeeps
<1>2. CASE RunStep /\ UNCHANGED <<meshVars, machineVars>>
  <2>1. WorldKept
    BY <1>2 DEF WorldKept
  <2> QED
    BY <1>2, <2>1, StepBreaksKeeps, VerifyKeeps, EndsKeeps DEF RunStep
<1>3. CASE PassOver
  BY <1>3, PassOverKeeps
<1>4. CASE MeshStep /\ UNCHANGED machineVars
  BY <1>4, MeshStepKeeps
<1>5. CASE BundleStep /\ UNCHANGED meshVars
  BY <1>5, BundleStepKeeps
<1>6. ASSUME NEW n \in Node, DnclientPolls(n), UNCHANGED machineVars
     PROVE  InstallIInv'
  BY <1>6, DnclientPollsKeeps
<1>7. ASSUME NEW n \in Node, MadeInDashboard(n) \/ Block(n), UNCHANGED machineVars
     PROVE  InstallIInv'
  BY <1>7, MadeInDashboardKeeps, BlockKeeps
<1>8. ASSUME NEW n \in Node, Joins(n) \/ Rebuild(n)
     PROVE  InstallIInv'
  BY <1>8, JoinsKeeps, RebuildKeeps
<1>9. CASE (\E n \in Node : InstallDriver(n)) \/ SetUpByHand
  BY <1>9, MachineEditKeeps
<1>10. CASE UNCHANGED vars
  BY <1>10, StutterKeeps
<1> QED
  BY <1>1, <1>2, <1>3, <1>4, <1>5, <1>6, <1>7, <1>8, <1>9, <1>10 DEF Next

(* What the proofs below rest on: the world is as the run believes it to   *)
(* be, and what it has been through it has brought about.                  *)
THEOREM InstallInvariance == Spec => []InstallIInv
<1>1. Init => InstallIInv
  BY InitIsRight
<1>2. InstallIInv /\ [Next]_vars => InstallIInv'
  BY NextKeeps
<1> QED
  BY <1>1, <1>2, PTL DEF Spec

-----------------------------------------------------------------------------
(* What the invariant says of a run that is done                           *)

(* Types.                                                                  *)
LEMMA TypesAreRight == InstallIInv => TypeOK
<1> SUFFICES ASSUME InstallIInv PROVE TypeOK
  OBVIOUS
<1>1. RunInv /\ run \in RunType /\ CountsType /\ KnowType /\ MeshTypeOK /\ MachineType
  BY DEF InstallIInv, RunInv, Typed
<1>2. RunTypeOK
  <2>1. config \in Configs /\ run.conf \in Configs
    BY <1>1 DEF RunInv, RunType
  <2>2. /\ run.what \in {"nothing", "install", "add-node"} \cup Unverified
        /\ run.nodes \subseteq Node /\ run.todo \subseteq Node
    BY <1>1 DEF RunType, Commands
  <2>3. run.todo = {} <=> run.steps = <<>>
    BY <1>1 DEF RunInv
  <2>4. {run.failed, run.verifying, run.able, run.faulted} \subseteq BOOLEAN
    BY <1>1 DEF RunType
  <2>5. DOMAIN know = Node
    BY <1>1 DEF KnowType
  <2> QED
    BY <1>1, <2>1, <2>2, <2>3, <2>4, <2>5 DEF RunTypeOK, CountsType
<1>3. /\ disk \in [Node -> [registries : Nat, toolkit : BOOLEAN, driver : BOOLEAN, auth : Nat]]
      /\ DOMAIN k3s = Node /\ byHand \in BOOLEAN
  BY <1>1 DEF MachineType, DiskType
<1>4. /\ cluster.cilium \in {"absent", "without", "with controller"}
      /\ cluster.record \subseteq Configs
  BY <1>1 DEF MachineType, ClusterType
<1> QED
  BY <1>1, <1>2, <1>3, <1>4 DEF TypeOK

(* What a run that has said that it is done brought about.                 *)
LEMMA SucceededHas ==
    ASSUME InstallIInv, Succeeded
    PROVE  /\ RunInv /\ run.conf \in Configs /\ ~run.failed
           /\ SignInSteps \cup K3sSteps \cup ServiceSteps \subseteq Asked
           /\ OnNetwork(run.conf) => MeshSteps \subseteq Asked
           /\ \A x \in Asked : \A n \in For(x) : Brought(x, n)
<1>1. /\ run.what \in {"install", "add-node"} /\ ~run.failed /\ run.verifying
      /\ RunInv
  BY DEF Succeeded, Done, InstallIInv
<1>2. run.conf \in Configs
  BY <1>1, AskedOf
<1> QED
  BY <1>1, <1>2, Together, Verified

(* The members of a cluster on a network are registered on their           *)
(* addresses there, since a run verified that they were.                   *)
LEMMA MembersDoMeet == InstallIInv => MembersMeet
<1> SUFFICES ASSUME InstallIInv, Succeeded, NEW n \in run.nodes
             PROVE  /\ ChecksAddress(run.conf, n) =>
                          cluster.registered[n] = AddressFor(run.conf, n)
                    /\ OnNetwork(run.conf) => client[n].ipv4
  BY DEF MembersMeet
<1>1. /\ RunInv /\ run.conf \in Configs
      /\ "verify-node-ip" \in Asked
      /\ OnNetwork(run.conf) => "verify-nebula-host" \in Asked
      /\ \A x \in Asked : \A m \in For(x) : Brought(x, m)
  BY SucceededHas DEF K3sSteps, MeshSteps
<1>2. n \in For("verify-node-ip") /\ n \in For("verify-nebula-host")
  BY <1>1, Fors DEF Prompt, Once, OnServers, OnAgents
<1>3. /\ Brought("verify-node-ip", n)
      /\ OnNetwork(run.conf) => Brought("verify-nebula-host", n)
  BY <1>1, <1>2
<1> QED
  BY <1>1, <1>3, BroughtIs

(* The gateway has the addresses the configuration has.                    *)
LEMMA GatewayIsInForce == InstallIInv => GatewayInForce
<1> SUFFICES ASSUME InstallIInv, Succeeded, run.what = "install"
             PROVE  GatewayParts(run.conf)
  BY DEF GatewayInForce
<1> DEFINE c == run.conf
<1>1. /\ RunInv /\ c \in Configs
      /\ {"apply-node-labels", "apply-lb-ip-pool", "apply-l2-announcement",
          "apply-cluster-gateway"} \subseteq Asked
      /\ \A x \in Asked : \A m \in For(x) : Brought(x, m)
  BY SucceededHas DEF ServiceSteps
<1>2. /\ For("apply-node-labels") = c.nodes
      /\ Server \in For("apply-lb-ip-pool") /\ Server \in For("apply-l2-announcement")
      /\ Server \in For("apply-cluster-gateway")
  BY <1>1, Fors DEF Applied, Once, OnServers, OnAgents
<1>3. /\ \A n \in c.nodes : Brought("apply-node-labels", n)
      /\ Brought("apply-lb-ip-pool", Server) /\ Brought("apply-l2-announcement", Server)
      /\ Brought("apply-cluster-gateway", Server)
  BY <1>1, <1>2
<1>4. \A n \in c.nodes : n \in cluster.gateways <=> n \in c.gateways
  BY <1>1, <1>3, BroughtIs
<1>5. /\ HasGateway(c) => cluster.pool = Addresses(c)
      /\ cluster.gateway = Addresses(c)
      /\ HasGateway(c) /\ c.mode = "port-forward" => cluster.policy
  BY <1>1, <1>3, BroughtIs
<1>6. c.gateways \subseteq c.nodes
  BY <1>1, ConfigsAssumption
<1> QED
  BY <1>4, <1>5, <1>6 DEF GatewayParts

(* What K3s has loaded is what is on the disk: it was restarted since.     *)
LEMMA LoadedIsThere == InstallIInv => LoadedWhatIsThere
<1> SUFFICES ASSUME InstallIInv, Succeeded, NEW n \in run.nodes
             PROVE  /\ k3s[n].up
                    /\ run.conf.registries # 0 => k3s[n].registries = run.conf.registries
                    /\ n \in Gpu => k3s[n].runtime /\ (n \in cluster.gpus <=> disk[n].driver)
  BY DEF LoadedWhatIsThere
<1>1. /\ RunInv /\ run.conf \in Configs
      /\ {"install-k3s-server", "install-k3s-agent", "restart-k3s", "restart-k3s-for-nvidia",
          "label-nvidia-driver"} \subseteq Asked
      /\ \A x \in Asked : \A m \in For(x) : Brought(x, m)
  BY SucceededHas DEF ServiceSteps, K3sSteps
<1>2. /\ n \in For("restart-k3s") /\ n \in For("restart-k3s-for-nvidia")
      /\ n \in For("label-nvidia-driver")
  BY <1>1, Fors DEF Applied, Once, OnServers, OnAgents
<1>3. n \in For("install-k3s-server") \/ n \in For("install-k3s-agent")
  BY <1>1, Fors DEF OnServers
<1>4. /\ Brought("restart-k3s", n) /\ Brought("restart-k3s-for-nvidia", n)
      /\ Brought("label-nvidia-driver", n)
      /\ Brought("install-k3s-server", n) \/ Brought("install-k3s-agent", n)
  BY <1>1, <1>2, <1>3
<1>5. k3s[n].up
  BY <1>1, <1>4, BroughtIs
<1>6. /\ Loaded(n)
      /\ n \in Gpu => RuntimeLoaded(n)
      /\ n \in Gpu => (n \in cluster.gpus <=> disk[n].driver)
  BY <1>1, <1>4, BroughtIs
<1> QED
  BY <1>5, <1>6 DEF Loaded, RuntimeLoaded

(* The API server reads the clients that may sign in.                      *)
LEMMA SignInDoesRead == InstallIInv => SignInIsRead
<1> SUFFICES ASSUME InstallIInv, run.conf.clients # 0,
                    \/ Succeeded /\ run.what = "install"
                    \/ Done /\ run.what \in Unverified
             PROVE  /\ disk[Server].auth = run.conf.clients
                    /\ k3s[Server].flag \/ byHand
  BY DEF SignInIsRead
<1>1. RunInv /\ run.conf \in Configs
  BY AskedOf DEF InstallIInv
<1>2. SignInSteps \subseteq Asked
  <2>1. CASE Succeeded
    BY <2>1, SucceededHas
  <2>2. CASE run.what \in Unverified
    BY <1>1, <2>2, AskedOf DEF Unverified
  <2> QED
    BY <2>1, <2>2
<1>3. \A x \in SignInSteps : Server \in For(x)
  <2>1. SignInSteps \subseteq OnServers
    BY DEF SignInSteps, OnServers
  <2>2. Server \in run.nodes
    BY <1>1, Fors
  <2> QED
    BY <1>1, <2>1, <2>2, Fors
<1>4. \A x \in SignInSteps : Brought(x, Server)
  <2>1. CASE Succeeded
    BY <1>2, <1>3, <2>1, SucceededHas
  <2>2. CASE Done /\ run.what \in Unverified
    <3>1. ~run.verifying
      BY <1>1, <2>2 DEF RunInv
    <3> QED
      BY <1>2, <1>3, <2>2, <3>1, DoneHasAll
  <2> QED
    BY <2>1, <2>2
<1>5. Brought("write-authentication-config", Server) /\ Brought("verify-authentication-config", Server)
  BY <1>4 DEF SignInSteps
<1> QED
  BY <1>1, <1>5, BroughtIs

(* A cluster can be installed over and over: nothing is made twice on the  *)
(* mesh, and a run that nothing stood in the way of, and nothing went      *)
(* wrong with, succeeds, whatever the runs before it left                  *)
(* (runners/install.ts and the bundles' skipWhen).                         *)
THEOREM InstallHolds == Spec => []InstallInv
<1>1. InstallIInv => InstallInv
  BY TypesAreRight DEF InstallIInv, InstallInv
<1> QED
  BY <1>1, InstallInvariance, PTL

(* A run that has said that it is done has brought about what it was asked *)
(* for: the members on the mesh, the gateway's addresses, what K3s has     *)
(* loaded, and the sign-in (the verification of runners/install.ts).       *)
THEOREM DoneMeansInForce == Spec => []InForce
<1>1. InstallIInv => InForce
  BY MembersDoMeet, GatewayIsInForce, LoadedIsThere, SignInDoesRead DEF InForce
<1> QED
  BY <1>1, InstallInvariance, PTL

-----------------------------------------------------------------------------
(* What no step does                                                       *)

(* Only these steps change a K3s.                                          *)
LEMMA K3sChanges ==
    ASSUME [Next]_vars, k3s' # k3s
    PROVE  \/ InstallK3sServer
           \/ \E n \in Node : \/ InstallK3sAgent(n) \/ RestartK3s(n) \/ RestartForNvidia(n)
                               \/ Joins(n) \/ Rebuild(n)
<1>1. BundleStep => \/ k3s' = k3s \/ InstallK3sServer
                    \/ \E n \in Node : InstallK3sAgent(n) \/ RestartK3s(n) \/ RestartForNvidia(n)
  BY DEF BundleStep, machineVars,
     InstallGatewayApi, InstallCilium, WaitForCilium, CheckGatewaySupport, LabelGatewayNodes,
     ApplyLbIpPool, ApplyL2Announcement, VerifyGateway, ApplyClusterGateway,
     VerifyClusterGateway, WriteClusterConfig, VerifyClusterConfig, CheckClusterOnline,
     WriteAuthenticationConfig, VerifyAuthenticationConfig, CheckGatewayInterfaces,
     CheckK3sService, WriteRegistries, VerifyRegistryAccess, FindNodeIp, WaitForK3s, VerifyK3s,
     VerifyNodeIp, CheckClusterAccess, ApplyNodeLabels, VerifyNodeLabels, InstallToolkit,
     CheckRuntime, CheckDriver, LabelDriver, VerifyRuntime, VerifyNodeReady
<1> QED
  BY <1>1 DEF Next, vars, machineVars, PassOver, InstallDriver, SetUpByHand

(* Only these take from the labels, or write the record.                   *)
LEMMA ClusterChanges ==
    ASSUME InstallIInv, [Next]_vars
    PROVE  \/ cluster'.record = cluster.record /\ cluster.gateways \subseteq cluster'.gateways
           \/ WriteClusterConfig
           \/ \E n \in Node : ApplyNodeLabels(n)
<1> DEFINE kept == cluster'.record = cluster.record /\ cluster.gateways \subseteq cluster'.gateways
<1>1. cluster \in ClusterType
  BY DEF InstallIInv, Typed, MachineType
<1>2. ASSUME \/ InstallGatewayApi \/ InstallCilium \/ LabelGatewayNodes \/ ApplyLbIpPool
             \/ ApplyL2Announcement \/ ApplyClusterGateway
             \/ \E n \in Node : LabelDriver(n) \/ Joins(n)
      PROVE  kept
  <2>1. InstallGatewayApi => kept
    BY <1>1 DEF ClusterType, InstallGatewayApi
  <2>2. InstallCilium => kept
    <3>1. PICK x : x = IF cluster.cilium # "absent" THEN cluster.cilium
                       ELSE IF cluster.crds THEN "with controller" ELSE "without"
      OBVIOUS
    <3>2. InstallCilium => cluster' = [cluster EXCEPT !.cilium = x]
      BY <3>1, Zenon DEF InstallCilium
    <3> QED
      BY <1>1, <3>2 DEF ClusterType
  <2>3. LabelGatewayNodes => kept
    <3>1. PICK x : x = cluster.gateways \cup run.conf.gateways
      OBVIOUS
    <3>2. LabelGatewayNodes => cluster' = [cluster EXCEPT !.gateways = x] \/ cluster' = cluster
      BY <3>1 DEF LabelGatewayNodes
    <3>3. cluster' = [cluster EXCEPT !.gateways = x] => kept
      <4>1. SUFFICES ASSUME cluster' = [cluster EXCEPT !.gateways = x] PROVE kept
        OBVIOUS
      <4>2. cluster'.gateways = x /\ cluster'.record = cluster.record
        BY <1>1, <4>1 DEF ClusterType
      <4> QED
        BY <3>1, <4>2
    <3> QED
      BY <3>2, <3>3
  <2>4. ApplyLbIpPool => kept
    BY <1>1 DEF ClusterType, ApplyLbIpPool
  <2>5. ApplyL2Announcement => kept
    BY <1>1 DEF ClusterType, ApplyL2Announcement
  <2>6. ApplyClusterGateway => kept
    BY <1>1 DEF ClusterType, ApplyClusterGateway
  <2>7. ASSUME NEW n \in Node, LabelDriver(n) PROVE kept
    <3>1. PICK x : cluster' = [cluster EXCEPT !.gpus = x]
      BY <2>7 DEF LabelDriver
    <3> QED
      BY <1>1, <3>1 DEF ClusterType
  <2>8. ASSUME NEW n \in Node, Joins(n) PROVE kept
    BY <1>1, <2>8 DEF ClusterType, Joins
  <2> QED
    BY <1>2, <2>1, <2>2, <2>3, <2>4, <2>5, <2>6, <2>7, <2>8
<1> HIDE DEF kept
<1>3. cluster' = cluster => kept
  BY DEF kept
<1>4. BundleStep => kept \/ WriteClusterConfig \/ \E n \in Node : ApplyNodeLabels(n)
  <2>1. BundleStep =>
           \/ InstallGatewayApi \/ InstallCilium \/ LabelGatewayNodes \/ ApplyLbIpPool
           \/ ApplyL2Announcement \/ ApplyClusterGateway
           \/ \E n \in Node : LabelDriver(n) \/ Joins(n)
           \/ cluster' = cluster
           \/ WriteClusterConfig
           \/ \E n \in Node : ApplyNodeLabels(n)
    BY DEF BundleStep, machineVars,
       WaitForCilium, CheckGatewaySupport, VerifyGateway, VerifyClusterGateway,
       VerifyClusterConfig, CheckClusterOnline, WriteAuthenticationConfig,
       VerifyAuthenticationConfig, CheckGatewayInterfaces, CheckK3sService, WriteRegistries,
       VerifyRegistryAccess, FindNodeIp, WaitForK3s, VerifyK3s, VerifyNodeIp,
       CheckClusterAccess, VerifyNodeLabels, InstallToolkit, CheckRuntime, CheckDriver,
       VerifyRuntime, VerifyNodeReady, InstallK3s, InstallK3sServer, InstallK3sAgent,
       RestartK3s, RestartForNvidia
  <2> QED
    BY <1>2, <1>3, <2>1
<1>5. kept \/ WriteClusterConfig \/ \E n \in Node : ApplyNodeLabels(n)
  BY <1>2, <1>3, <1>4 DEF Next, vars, machineVars, PassOver, Rebuild, InstallDriver, SetUpByHand
<1> QED
  BY <1>5 DEF kept

(* A K3s that is restarted was up, and stays on its address.               *)
LEMMA RestartsWhatIsUp ==
    ASSUME InstallIInv, NEW n \in Node, RestartK3s(n) \/ RestartForNvidia(n)
    PROVE  /\ k3s[n].up /\ k3s'[n].address = k3s[n].address
           /\ \A m \in Node : m # n => k3s'[m] = k3s[m]
<1>1. k3s' = [k3s EXCEPT ![n] = Restarted(k3s[n], disk[n])]
  BY DEF RestartK3s, RestartForNvidia
<1>2. k3s \in [Node -> K3sType] /\ disk \in [Node -> DiskType]
  BY DEF InstallIInv, Typed, MachineType
<1>3. know[n].active \/ know[n].stale
  <2>1. CASE RestartK3s(n)
    BY <2>1 DEF RestartK3s, Doing, NothingToDo
  <2>2. CASE RestartForNvidia(n)
    BY <2>2 DEF RestartForNvidia, Doing, NothingToDo
  <2> QED
    BY <2>1, <2>2
<1>4. k3s[n].up
  BY <1>3 DEF InstallIInv, KnowInv
<1>5. Restarted(k3s[n], disk[n]).address = k3s[n].address
  BY <1>2, RestartedIs
<1> QED
  BY <1>1, <1>2, <1>4, <1>5

(* What the install script starts is on the address it's meant to have.    *)
LEMMA InstalledOnItsAddress ==
    ASSUME InstallIInv, NEW n \in Node, n \in run.todo, InstallK3s(n),
           Head(run.steps) \in {"install-k3s-server", "install-k3s-agent"}
    PROVE  /\ k3s'[n] = k3s[n] \/ k3s'[n].address = AddressFor(run.conf, n)
           /\ \A m \in Node : m # n => k3s'[m] = k3s[m]
<1> DEFINE a == IF know[n].nodeIp = "none" THEN "local" ELSE know[n].nodeIp
           f == n = Server /\ run.conf.clients # 0
           flagged == [k3s[n] EXCEPT !.address = a, !.flag = f]
<1>1. \/ k3s' = [k3s EXCEPT ![n] = Restarted(flagged, disk[n])]
      \/ k3s' = k3s
  BY DEF InstallK3s
<1>2. k3s \in [Node -> K3sType] /\ disk[n] \in DiskType
  BY DEF InstallIInv, Typed, MachineType
<1>3. n \in run.nodes /\ run.steps # <<>>
  BY AtNode DEF OnServers, OnAgents
<1>4. a = AddressFor(run.conf, n)
  BY <1>3, AddressIsKnown
<1>5. a \in {"local", "mesh"} /\ f \in BOOLEAN
  BY <1>4 DEF AddressFor
<1> HIDE DEF a, f
<1>6. flagged \in K3sType /\ flagged.address = a
  BY <1>2, <1>5 DEF K3sType
<1> HIDE DEF flagged
<1>7. Restarted(flagged, disk[n]).address = a
  BY <1>2, <1>6, RestartedIs
<1> QED
  BY <1>1, <1>2, <1>4, <1>7

(* The steps of the two ways to install K3s.                               *)
LEMMA InstallsAt ==
    ASSUME NEW n, (InstallK3sServer /\ n = Server) \/ InstallK3sAgent(n)
    PROVE  /\ n \in run.todo /\ InstallK3s(n)
           /\ Head(run.steps) \in {"install-k3s-server", "install-k3s-agent"}
BY DEF InstallK3sServer, InstallK3sAgent, Doing, At

(* A K3s comes up on a machine's local address only if that is what the    *)
(* configuration says.                                                     *)
LEMMA StaysOffLocal ==
    ASSUME InstallIInv, [Next]_vars, NEW n \in Node,
           k3s'[n].up, k3s'[n].address = "local", k3s[n] # k3s'[n],
           ~(k3s[n].up /\ k3s[n].address = "local")
    PROVE  AddressFor(run.conf, n) = "local"
<1>1. Server \in Node /\ k3s \in [Node -> K3sType]
  BY ConstantsAssumption DEF InstallIInv, Typed, MachineType
<1>2. ASSUME NEW m \in Node, (InstallK3sServer /\ m = Server) \/ InstallK3sAgent(m)
      PROVE  AddressFor(run.conf, n) = "local"
  BY <1>2, InstallsAt, InstalledOnItsAddress
<1>3. ASSUME NEW m \in Node, RestartK3s(m) \/ RestartForNvidia(m)
      PROVE  AddressFor(run.conf, n) = "local"
  BY <1>3, RestartsWhatIsUp
<1>4. ASSUME NEW m \in Node, Joins(m)
      PROVE  AddressFor(run.conf, n) = "local"
  <2>1. k3s[m].up /\ k3s' = [k3s EXCEPT ![m].joined = TRUE, ![m].credentials = TRUE]
    BY <1>4 DEF Joins
  <2>2. /\ k3s'[m].address = k3s[m].address
        /\ \A q \in Node : q # m => k3s'[q] = k3s[q]
    BY <1>1, <2>1 DEF K3sType
  <2> QED
    BY <2>1, <2>2
<1>5. ASSUME NEW m \in Node, Rebuild(m)
      PROVE  AddressFor(run.conf, n) = "local"
  <2>1. k3s' = [k3s EXCEPT ![m] = NoK3s] /\ ~NoK3s.up
    BY <1>5 DEF Rebuild, NoK3s
  <2> QED
    BY <1>1, <2>1
<1>6. k3s' # k3s
  OBVIOUS
<1> QED
  BY <1>1, <1>2, <1>3, <1>4, <1>5, <1>6, K3sChanges

(* A server is up by the time an agent's K3s is installed: it was before   *)
(* it in the same run, or the run began by asking for one.                 *)
LEMMA ServerIsUp ==
    ASSUME InstallIInv, NEW n \in run.todo, Head(run.steps) = "install-k3s-agent"
    PROVE  ServerUp
<1> DEFINE y == Head(run.steps)
<1>1. /\ RunInv /\ y \in Asked /\ run.steps # <<>> /\ run.conf \in Configs
      /\ run.verifying => y \in Prompt
  BY AtNode
<1>2. ~run.verifying
  BY <1>1 DEF Prompt
<1>3. "install-k3s-server" \in Asked
  BY <1>1, Together DEF K3sSteps
<1>4. /\ {"install-k3s-server", "check-cluster-online",
          "install-k3s-agent"} \subseteq Prompt \cup Applied
      /\ Repeated \notin {"install-k3s-server", "check-cluster-online", "install-k3s-agent"}
      /\ "install-k3s-agent" \notin SignInSteps
  BY DEF Prompt, Applied, Repeated, SignInSteps
<1>5. /\ Base("check-cluster-online") < Base(y)
      /\ Base("install-k3s-server") < Base(y)
  <2>1. /\ Base("check-cluster-online") = 0 /\ Base("install-k3s-server") = 22
        /\ Base("install-k3s-agent") = 23
    BY Bases
  <2> QED
    BY <2>1
<1>6. Server \in Node
  BY ConstantsAssumption
<1>7. CASE run.what = "add-node"
  <2>1. "check-cluster-online" \in Asked
    BY <1>1, <1>7, AskedOf DEF AddNodeSteps
  <2>2. Server \in For("check-cluster-online")
    BY <1>1, Fors DEF Once
  <2>3. Behind("check-cluster-online", Server)
    BY <1>1, <1>2, <1>4, <1>5, <2>1, <2>2, Before
  <2> QED
    BY <1>6, <2>3 DEF InstallIInv, BehindInv
<1>8. CASE run.what \in {"install"} \cup Unverified
  <2>1. Server \in For("install-k3s-server")
    BY <1>1, <1>8, Fors DEF OnServers
  <2>2. Behind("install-k3s-server", Server)
    BY <1>1, <1>2, <1>3, <1>4, <1>5, <2>1, Before
  <2> QED
    BY <1>6, <2>2 DEF InstallIInv, BehindInv
<1>9. run.what \in Commands /\ run.what # "nothing"
  BY <1>1, AskedOf
<1> QED
  BY <1>7, <1>8, <1>9 DEF Commands

(* An agent's K3s only comes up with a server there to join.               *)
LEMMA AgentHasServer ==
    ASSUME InstallIInv, [Next]_vars, NEW n \in Node, n # Server, k3s'[n].up, ~k3s[n].up
    PROVE  ServerUp
<1>1. Server \in Node /\ k3s \in [Node -> K3sType]
  BY ConstantsAssumption DEF InstallIInv, Typed, MachineType
<1>2. ASSUME NEW m \in Node, (InstallK3sServer /\ m = Server) \/ InstallK3sAgent(m)
      PROVE  ServerUp
  <2>1. /\ m \in run.todo /\ \A q \in Node : q # m => k3s'[q] = k3s[q]
    BY <1>2, InstallsAt, InstalledOnItsAddress
  <2>2. InstallK3sAgent(m)
    BY <1>2, <2>1
  <2>3. Head(run.steps) = "install-k3s-agent"
    BY <2>2 DEF InstallK3sAgent, Doing, At
  <2> QED
    BY <2>1, <2>3, ServerIsUp
<1>3. ASSUME NEW m \in Node, RestartK3s(m) \/ RestartForNvidia(m)
      PROVE  ServerUp
  BY <1>3, RestartsWhatIsUp
<1>4. ASSUME NEW m \in Node, Joins(m)
      PROVE  ServerUp
  BY <1>4 DEF Joins
<1>5. ASSUME NEW m \in Node, Rebuild(m)
      PROVE  ServerUp
  <2>1. k3s' = [k3s EXCEPT ![m] = NoK3s] /\ ~NoK3s.up
    BY <1>5 DEF Rebuild, NoK3s
  <2> QED
    BY <1>1, <2>1
<1>6. k3s' # k3s
  OBVIOUS
<1> QED
  BY <1>1, <1>2, <1>3, <1>4, <1>5, <1>6, K3sChanges

(* By the time the cluster's record is written the rest is in force.       *)
LEMMA RecordIsTrue ==
    ASSUME InstallIInv, WriteClusterConfig
    PROVE  /\ cluster'.record = {run.conf} /\ cluster'.gateways = cluster.gateways
           /\ run.conf.nodes \subseteq Registered
           /\ GatewayParts(run.conf)
<1> DEFINE c == run.conf
           y == Head(run.steps)
<1>1. /\ Server \in run.todo /\ y = "write-cluster-config"
      /\ cluster' = [cluster EXCEPT !.record = {c}]
  BY DEF WriteClusterConfig, Doing, At
<1>2. cluster \in ClusterType
  BY DEF InstallIInv, Typed, MachineType
<1>3. cluster'.record = {c} /\ cluster'.gateways = cluster.gateways
  BY <1>1, <1>2 DEF ClusterType
<1>4. /\ RunInv /\ y \in Asked /\ run.steps # <<>> /\ c \in Configs
      /\ run.todo = {Server} /\ For(y) = {Server}
      /\ run.verifying => y \in Prompt
  BY <1>1, AtNode DEF Once
<1>5. ~run.failed
  <2>1. ~run.verifying
    BY <1>1, <1>4 DEF Prompt
  <2> QED
    BY <1>4, <2>1 DEF RunInv
<1>6. run.nodes = c.nodes
  <2>1. run.what = "install"
    BY <1>1, <1>4, Together DEF InstallSteps
  <2> QED
    BY <1>4, <2>1 DEF RunInv
<1>7. \A x \in {"check-cluster-access", "apply-node-labels", "apply-lb-ip-pool",
                "apply-l2-announcement", "apply-cluster-gateway"} : <<y, x>> \in RestsOn
  BY <1>1 DEF RestsOn
<1>8. \A n \in c.nodes : Brought("check-cluster-access", n) /\ Brought("apply-node-labels", n)
  BY <1>4, <1>5, <1>6, <1>7, Follows DEF PerNode
<1>9. /\ Brought("apply-lb-ip-pool", Server) /\ Brought("apply-l2-announcement", Server)
      /\ Brought("apply-cluster-gateway", Server)
  BY <1>4, <1>5, <1>7, Follows DEF Once
<1>10. \A n \in c.nodes : n \in Registered /\ (n \in cluster.gateways <=> n \in c.gateways)
  BY <1>4, <1>8, BroughtIs
<1>11. /\ HasGateway(c) => cluster.pool = Addresses(c)
       /\ cluster.gateway = Addresses(c)
       /\ HasGateway(c) /\ c.mode = "port-forward" => cluster.policy
  BY <1>4, <1>9, BroughtIs
<1>12. c.gateways \subseteq c.nodes
  BY <1>4, ConfigsAssumption
<1> QED
  BY <1>3, <1>10, <1>11, <1>12 DEF GatewayParts

(* A label is only taken off a node that is no gateway.                    *)
LEMMA LabelsTaken ==
    ASSUME InstallIInv, NEW m \in Node, ApplyNodeLabels(m)
    PROVE  /\ cluster'.record = cluster.record
           /\ \A n \in cluster.gateways : n \notin cluster'.gateways => n \notin run.conf.gateways
<1>1. cluster' = [cluster EXCEPT !.gateways = LabelledAsMeant(m)]
  BY DEF ApplyNodeLabels
<1>2. cluster \in ClusterType
  BY DEF InstallIInv, Typed, MachineType
<1>3. cluster'.record = cluster.record /\ cluster'.gateways = LabelledAsMeant(m)
  BY <1>1, <1>2 DEF ClusterType
<1> QED
  BY <1>3 DEF LabelledAsMeant

(* No step of a run, or of anybody else, registers a node of the mesh on   *)
(* its local address (K3s.ts, find-node-ip), starts an agent with no       *)
(* server to join, records the cluster as built from what isn't in force   *)
(* yet (ClusterConfig.ts), or takes a gateway's label off (NodeLabels.ts). *)
THEOREM InstallsInOrder == Spec => InOrder
<1>1. InstallIInv /\ [Next]_vars =>
         [\A n \in Node :
             k3s'[n].up /\ k3s'[n].address = "local" /\ k3s[n] # k3s'[n]
                 /\ ~(k3s[n].up /\ k3s[n].address = "local")
             => AddressFor(run.conf, n) = "local"]_vars
  BY StaysOffLocal
<1>2. InstallIInv /\ [Next]_vars =>
         [\A n \in Node : k3s'[n].up /\ ~k3s[n].up /\ n # Server => ServerUp]_vars
  BY AgentHasServer
<1>3. InstallIInv /\ [Next]_vars =>
         [cluster'.record # cluster.record =>
             /\ cluster'.record = {run.conf}
             /\ run.conf.nodes \subseteq Registered
             /\ GatewayParts(run.conf)]_vars
  BY ClusterChanges, RecordIsTrue, LabelsTaken
<1>4. InstallIInv /\ [Next]_vars =>
         [\A n \in cluster.gateways : n \notin cluster'.gateways => n \notin run.conf.gateways]_vars
  BY ClusterChanges, RecordIsTrue, LabelsTaken
<1>5. Spec => NeverLocal
  BY <1>1, InstallInvariance, PTL DEF Spec, NeverLocal
<1>6. Spec => AgentJoinsAServer
  BY <1>2, InstallInvariance, PTL DEF Spec, AgentJoinsAServer
<1>7. Spec => RecordedWhenTrue
  BY <1>3, InstallInvariance, PTL DEF Spec, RecordedWhenTrue
<1>8. Spec => GatewayStays
  BY <1>4, InstallInvariance, PTL DEF Spec, GatewayStays
<1> QED
  BY <1>5, <1>6, <1>7, <1>8 DEF InOrder
=============================================================================
