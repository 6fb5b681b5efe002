---------------------------- MODULE PeriphProofs ----------------------------
(***************************************************************************)
(* Proofs about Periph, for any objects, ports and number of descriptors:  *)
(* while no two calls close one descriptor at the same time, the table     *)
(* tells the truth, and nobody uses a descriptor of others.                *)
(***************************************************************************)
EXTENDS Periph, WellFoundedInduction, TLAPS

\* lookup_fileno finds a descriptor that is listed for the port.
LEMMA LookupFacts ==
  ASSUME NEW o \in Objects
  PROVE  \/ lookup_fileno(o) = -1
         \/ /\ lookup_fileno(o) \in Descriptors
            /\ m_fd_map[lookup_fileno(o)] = m_periph_port[o]
<1>1. CASE lookup(o) = {}
  BY <1>1 DEF lookup_fileno
<1>2. CASE lookup(o) # {}
  <2>1. lookup(o) \subseteq Nat
    BY BoundsAssumption DEF lookup, Descriptors
  <2>2. PICK f \in lookup(o) : \A g \in lookup(o) : ~(<<g, f>> \in OpToRel(<, Nat))
    BY <1>2, <2>1, NatLessThanWellFounded, WFMin
  <2>3. \A g \in lookup(o) : <<g, f>> \in OpToRel(<, Nat) <=> g < f
    BY <2>1 DEF OpToRel
  <2>4. \A g \in lookup(o) : f <= g
    <3>1. \A g \in lookup(o) : ~(g < f)
      BY <2>2, <2>3, Zenon
    <3>2. f \in Nat /\ \A g \in lookup(o) : g \in Nat
      BY <2>1
    <3> QED
      BY <3>1, <3>2
  <2>5. lookup_fileno(o) \in lookup(o)
    BY <1>2, <2>4 DEF lookup_fileno
  <2> QED
    BY <2>5 DEF lookup
<1> QED
  BY <1>1, <1>2

LEMMA DescriptorFacts == -1 \notin Descriptors
  BY BoundsAssumption DEF Descriptors

LEMMA PortFacts == \A o \in Objects : m_periph_port[o] # 0
  BY PortsAssumption

\* Names of device files.
LEMMA NameFacts ==
  /\ \A port : FileName(port) # <<>>
  /\ \A p, q : UtilFile(p) # <<>> /\ (UtilFile(p) = UtilFile(q) => p = q)
  BY DEF FileName, UtilFile

LEMMA InitIInv == Init => IInv
<1> SUFFICES ASSUME Init PROVE IInv
  OBVIOUS
<1>1. TypeOK
  BY DEF Init, TypeOK, Statements
<1>2. Consistent
  BY DEF Init, Consistent, Listed, Accounted, UtilOwns, StillSo, Entering, Unlost,
         Closed, InUse
<1> QED
  BY <1>1, <1>2 DEF IInv

-----------------------------------------------------------------------------
\* A step of a call that changes neither the table nor a descriptor.
LEMMA CallOnly ==
  ASSUME TypeOK, Consistent, NEW o \in Objects,
         NEW f \in Descriptors \cup {-1}, SetFileno(o, f),
         NEW next \in Statements \ {"enter", "close"}, Goto(o, next),
         pc[o] \notin {"enter", "close"},
         exposed' \in [Objects -> BOOLEAN],
         \A u \in Objects \ {o} : exposed'[u] = exposed[u],
         UNCHANGED <<tables, utilVars>>,
         next \in {"request", "clear"} => f = -1 \/ m_fd_map[f] # 0,
         f = -1 \/ f = m_fd[o] \/ m_fd_map[f] = m_periph_port[o]
  PROVE  Consistent'
<1>1. /\ m_fd'[o] = f
      /\ pc'[o] = next
      /\ lost'[o] = (lost[o] /\ f = m_fd[o])
      /\ \A u \in Objects \ {o} :
            m_fd'[u] = m_fd[u] /\ pc'[u] = pc[u] /\ lost'[u] = lost[u]
  BY DEF SetFileno, Goto, TypeOK
<1>2. /\ UNCHANGED <<m_fd_map, file, fd, init>>
      /\ \A g : Closed(g)' <=> Closed(g)
  BY DEF tables, utilVars, Closed
<1>3. m_periph_port[o] # 0
  BY PortFacts
<1>4. ASSUME f # -1, m_fd_map[f] # 0
      PROVE  f \in Descriptors /\ file[f] = FileName(m_fd_map[f]) /\ ~Closed(f)
  BY <1>4, NameFacts DEF Consistent, Listed, Closed
<1>5. Listed'
  BY <1>2 DEF Consistent, Listed
<1>6. Accounted'
  <2>1. ASSUME NEW g \in Descriptors, NEW u \in Objects,
               m_fd[u] = g, pc[u] \in {"enter", "close"}
        PROVE  m_fd'[u] = g /\ pc'[u] \in {"enter", "close"}
    BY <1>1, <2>1
  <2> QED
    BY <1>2, <2>1 DEF Consistent, Accounted
<1>7. UtilOwns'
  <2>1. ASSUME NEW p \in UtilPorts, init, fd[p] # -1, NEW u \in Objects,
               m_fd'[u] = fd[p]
        PROVE  lost'[u] /\ pc'[u] # "enter" /\ (InUse(u, fd[p])' => exposed'[u])
    <3>1. m_fd_map[fd[p]] = 0
      BY <2>1 DEF Consistent, UtilOwns
    <3>2. CASE u = o
      BY <1>1, <1>2, <1>3, <2>1, <3>1, <3>2 DEF Consistent, UtilOwns, InUse
    <3>3. CASE u # o
      BY <1>1, <1>2, <2>1, <3>3 DEF Consistent, UtilOwns, InUse
    <3> QED
      BY <3>2, <3>3
  <2> QED
    BY <1>2, <2>1 DEF Consistent, UtilOwns
<1>8. StillSo'
  <2>1. ASSUME NEW u \in Objects, InUse(u, m_fd[u])', m_fd'[u] # -1, ~exposed'[u]
        PROVE  ~Closed(m_fd[u])' /\ (m_fd_map'[m_fd'[u]] = 0 <=> pc'[u] = "close")
    <3>1. CASE u = o
      BY <1>1, <1>2, <1>4, <2>1, <3>1 DEF InUse
    <3>2. CASE u # o
      BY <1>1, <1>2, <2>1, <3>2 DEF Consistent, StillSo, InUse
    <3> QED
      BY <3>1, <3>2
  <2> QED
    BY <2>1 DEF StillSo
<1>9. Entering'
  <2>1. ASSUME NEW u \in Objects, pc'[u] = "enter"
        PROVE  /\ pc[u] = "enter" /\ u # o /\ m_fd'[u] = m_fd[u]
               /\ file'[m_fd[u]] = Own(u) /\ m_fd_map'[m_fd[u]] = 0
    BY <1>1, <1>2, <2>1 DEF Consistent, Entering
  <2>2. ASSUME NEW u \in Objects, pc'[u] = "enter",
               NEW v \in Objects \ {u}, m_fd'[v] = m_fd'[u]
        PROVE  pc'[v] # "enter" /\ (InUse(v, m_fd[u])' => exposed'[v])
    <3>1. CASE v = o
      <4>1. f # -1 /\ m_fd_map[f] = 0
        BY <1>1, <1>2, <2>1, <2>2, <3>1 DEF TypeOK
      <4> QED
        BY <1>1, <1>2, <2>2, <3>1, <4>1 DEF InUse
    <3>2. CASE v # o
      BY <1>1, <2>1, <2>2, <3>2 DEF Consistent, Entering, InUse
    <3> QED
      BY <3>1, <3>2
  <2> QED
    BY <2>1, <2>2 DEF Entering, Own
<1>10. Unlost'
  <2>1. ASSUME NEW u \in Objects, m_fd'[u] # -1, ~lost'[u]
        PROVE  file'[m_fd'[u]] = Own(u)
    <3>1. CASE u = o
      BY <1>1, <1>2, <1>3, <1>4, <2>1, <3>1 DEF Consistent, Unlost, Own
    <3>2. CASE u # o
      BY <1>1, <1>2, <2>1, <3>2 DEF Consistent, Unlost
    <3> QED
      BY <3>1, <3>2
  <2> QED
    BY <2>1 DEF Unlost, Own
<1> QED
  BY <1>5, <1>6, <1>7, <1>8, <1>9, <1>10 DEF Consistent

\* A device file is opened with a descriptor that nobody has.
LEMMA OpenedOnly ==
  ASSUME TypeOK, Consistent, NEW o \in Objects,
         NEW f \in Descriptors, Closed(f), SetFileno(o, f), Goto(o, "enter"),
         file' = [file EXCEPT ![f] = Own(o)],
         pc[o] = "open", UNCHANGED <<m_fd_map, exposed, utilVars>>
  PROVE  Consistent'
<1>1. /\ m_fd'[o] = f
      /\ pc'[o] = "enter"
      /\ lost'[o] = (lost[o] /\ f = m_fd[o])
      /\ \A u \in Objects \ {o} :
            m_fd'[u] = m_fd[u] /\ pc'[u] = pc[u] /\ lost'[u] = lost[u]
  BY DEF SetFileno, Goto, TypeOK
<1>2. /\ UNCHANGED <<m_fd_map, fd, init, exposed>>
      /\ file'[f] = Own(o) /\ Own(o) # <<>>
      /\ \A g \in Descriptors \ {f} : file'[g] = file[g]
  BY NameFacts DEF utilVars, TypeOK, Own
<1>3. \A u \in Objects : m_fd[u] \in Descriptors \cup {-1} /\ m_fd'[u] \in Descriptors \cup {-1}
  BY <1>1 DEF TypeOK
<1>4. /\ file[f] = <<>>
      /\ m_fd_map[f] = 0
      /\ f # -1
  BY NameFacts, DescriptorFacts DEF Closed, Consistent, Listed
\* Nobody uses f.
<1>5. ASSUME NEW u \in Objects, m_fd[u] = f
      PROVE  lost[u] /\ pc[u] # "enter" /\ (InUse(u, f) => exposed[u])
  BY <1>4, <1>5, NameFacts
  DEF Closed, Own, Consistent, Unlost, Entering, StillSo
<1>6. \A p \in UtilPorts : init => fd[p] # f
  BY <1>4, NameFacts DEF Consistent, UtilOwns
<1>7. Listed'
  BY <1>2, <1>4 DEF Consistent, Listed
<1>8. Accounted'
  <2>1. ASSUME NEW g \in Descriptors, NEW u \in Objects,
               m_fd[u] = g, pc[u] \in {"enter", "close"}
        PROVE  m_fd'[u] = g /\ pc'[u] \in {"enter", "close"}
    BY <1>1, <2>1
  <2>2. ASSUME NEW g \in Descriptors \ {f} PROVE Closed(g)' <=> Closed(g)
    BY <1>2 DEF Closed
  <2> QED
    BY <1>1, <1>2, <2>1, <2>2 DEF Consistent, Accounted
<1>9. UtilOwns'
  <2>1. ASSUME NEW p \in UtilPorts, init, fd[p] # -1, NEW u \in Objects,
               m_fd'[u] = fd[p]
        PROVE  lost'[u] /\ pc'[u] # "enter" /\ (InUse(u, fd[p])' => exposed'[u])
    BY <1>1, <1>2, <1>6, <2>1 DEF Consistent, UtilOwns, InUse
  <2> QED
    BY <1>2, <1>6, <2>1 DEF Consistent, UtilOwns
<1>10. StillSo'
  <2>1. ASSUME NEW u \in Objects, InUse(u, m_fd[u])', m_fd'[u] # -1, ~exposed'[u]
        PROVE  ~Closed(m_fd[u])' /\ (m_fd_map'[m_fd'[u]] = 0 <=> pc'[u] = "close")
    <3>1. u # o /\ m_fd[u] # f
      BY <1>1, <1>2, <1>5, <2>1 DEF InUse
    <3> QED
      BY <1>1, <1>2, <1>3, <2>1, <3>1 DEF Consistent, StillSo, InUse, Closed
  <2> QED
    BY <2>1 DEF StillSo
<1>11. Entering'
  <2>1. ASSUME NEW u \in Objects, pc'[u] = "enter"
        PROVE  file'[m_fd'[u]] = Own(u) /\ m_fd_map'[m_fd'[u]] = 0
    <3>1. CASE u = o
      BY <1>1, <1>2, <1>4, <3>1
    <3>2. CASE u # o
      <4>1. m_fd[u] # f /\ m_fd[u] \in Descriptors
        BY <1>1, <1>3, <1>5, <2>1, <3>2 DEF TypeOK
      <4> QED
        BY <1>1, <1>2, <2>1, <3>2, <4>1 DEF Consistent, Entering
    <3> QED
      BY <3>1, <3>2
  <2>2. ASSUME NEW u \in Objects, pc'[u] = "enter",
               NEW v \in Objects \ {u}, m_fd'[v] = m_fd'[u]
        PROVE  pc'[v] # "enter" /\ (InUse(v, m_fd[u])' => exposed'[v])
    <3>1. CASE u = o
      BY <1>1, <1>2, <1>5, <2>2, <3>1 DEF InUse
    <3>2. CASE u # o
      BY <1>1, <1>2, <1>5, <2>2, <3>2 DEF Consistent, Entering, InUse
    <3> QED
      BY <3>1, <3>2
  <2> QED
    BY <2>1, <2>2 DEF Entering, Own
<1>12. Unlost'
  <2>1. ASSUME NEW u \in Objects, m_fd'[u] # -1, ~lost'[u]
        PROVE  file'[m_fd'[u]] = Own(u)
    <3>1. CASE u = o
      BY <1>1, <1>2, <3>1
    <3>2. CASE u # o
      BY <1>1, <1>2, <1>3, <1>5, <2>1, <3>2 DEF Consistent, Unlost
    <3> QED
      BY <3>1, <3>2
  <2> QED
    BY <2>1 DEF Unlost, Own
<1> QED
  BY <1>7, <1>8, <1>9, <1>10, <1>11, <1>12 DEF Consistent

LEMMA EnterConsistent ==
  ASSUME TypeOK, Consistent, NEW o \in Objects, Enter(o)
  PROVE  Consistent'
<1> DEFINE f == m_fd[o]
<1>1. /\ pc[o] = "enter" /\ f \in Descriptors
      /\ pc'[o] \in {"opened", "idle"}
      /\ \A u \in Objects \ {o} : pc'[u] = pc[u]
      /\ m_fd_map'[f] = m_periph_port[o] /\ m_periph_port[o] # 0
      /\ \A g \in Descriptors \ {f} : m_fd_map'[g] = m_fd_map[g]
      /\ UNCHANGED <<m_fd, file, fd, init, lost, exposed>>
  BY PortFacts DEF Enter, After, Goto, TypeOK, utilVars, history
<1>2. /\ file[f] = FileName(m_periph_port[o])
      /\ \A u \in Objects \ {o} :
            m_fd[u] = f => pc[u] # "enter" /\ (InUse(u, f) => exposed[u])
  BY <1>1 DEF Consistent, Entering, Own
<1>3. \A p \in UtilPorts : init => fd[p] # f
  BY <1>1, DescriptorFacts DEF Consistent, UtilOwns
<1>4. \A u \in Objects : m_fd[u] \in Descriptors \cup {-1}
  BY DEF TypeOK
<1>5. Listed'
  BY <1>1, <1>2 DEF Consistent, Listed
<1>6. Accounted'
  <2>1. ASSUME NEW g \in Descriptors \ {f}, NEW u \in Objects,
               m_fd[u] = g, pc[u] \in {"enter", "close"}
        PROVE  pc'[u] \in {"enter", "close"}
    BY <1>1, <2>1
  <2> QED
    BY <1>1, <2>1 DEF Consistent, Accounted, Closed
<1>7. UtilOwns'
  <2>1. ASSUME NEW p \in UtilPorts, init, fd[p] # -1, NEW u \in Objects,
               m_fd[u] = fd[p]
        PROVE  lost[u] /\ pc'[u] # "enter" /\ (InUse(u, fd[p])' => exposed[u])
    BY <1>1, <1>3, <2>1 DEF Consistent, UtilOwns, InUse
  <2> QED
    BY <1>1, <1>3, <2>1 DEF Consistent, UtilOwns
<1>8. StillSo'
  <2>1. ASSUME NEW u \in Objects, InUse(u, m_fd[u])', m_fd[u] # -1, ~exposed[u]
        PROVE  ~Closed(m_fd[u]) /\ (m_fd_map'[m_fd[u]] = 0 <=> pc'[u] = "close")
    <3>1. u # o /\ m_fd[u] # f
      BY <1>1, <1>2, <2>1 DEF InUse
    <3> QED
      BY <1>1, <1>4, <2>1, <3>1 DEF Consistent, StillSo, InUse
  <2> QED
    BY <1>1, <2>1 DEF StillSo, Closed
<1>9. Entering'
  <2>1. ASSUME NEW u \in Objects, pc'[u] = "enter"
        PROVE  /\ u # o /\ pc[u] = "enter"
               /\ m_fd[u] # f /\ m_fd[u] \in Descriptors
    BY <1>1, <1>2, <1>4, <2>1 DEF TypeOK
  <2>2. ASSUME NEW u \in Objects, pc'[u] = "enter",
               NEW v \in Objects \ {u}, m_fd[v] = m_fd[u]
        PROVE  pc'[v] # "enter" /\ (InUse(v, m_fd[u])' => exposed[v])
    BY <1>1, <2>1, <2>2 DEF Consistent, Entering, InUse
  <2> QED
    BY <1>1, <2>1, <2>2 DEF Consistent, Entering, Own
<1>10. Unlost'
  BY <1>1 DEF Consistent, Unlost, Own
<1> QED
  BY <1>5, <1>6, <1>7, <1>8, <1>9, <1>10 DEF Consistent

LEMMA ClearConsistent ==
  ASSUME TypeOK, Consistent, NEW o \in Objects, Clear(o)
  PROVE  Consistent'
<1> DEFINE f == m_fd[o]
<1>1. /\ pc[o] = "clear" /\ f \in Descriptors /\ f # -1
      /\ pc'[o] = "close"
      /\ \A u \in Objects \ {o} : pc'[u] = pc[u]
      /\ m_fd_map'[f] = 0
      /\ \A g \in Descriptors \ {f} : m_fd_map'[g] = m_fd_map[g]
      /\ UNCHANGED <<m_fd, file, fd, init, lost>>
  BY DEF Clear, Goto, TypeOK, utilVars
<1>2. exposed' = [u \in Objects |-> exposed[u] \/ (u # o /\ InUse(u, f))]
  BY DEF Clear, Expose
<1>3. /\ exposed'[o] = exposed[o]
      /\ \A u \in Objects : exposed[u] => exposed'[u]
      /\ \A u \in Objects \ {o} : InUse(u, f) => exposed'[u]
  BY <1>2 DEF TypeOK
<1>4. \A u \in Objects : m_fd[u] \in Descriptors \cup {-1}
  BY DEF TypeOK
<1>5. InUse(o, f)
  BY <1>1 DEF InUse
<1>6. Listed'
  BY <1>1 DEF Consistent, Listed
<1>7. Accounted'
  <2>1. ASSUME NEW g \in Descriptors \ {f}, NEW u \in Objects,
               m_fd[u] = g, pc[u] \in {"enter", "close"}
        PROVE  pc'[u] \in {"enter", "close"}
    BY <1>1, <2>1
  <2> QED
    BY <1>1, <2>1 DEF Consistent, Accounted, Closed
<1>8. UtilOwns'
  <2>1. ASSUME NEW p \in UtilPorts, init, fd[p] # -1, NEW u \in Objects,
               m_fd[u] = fd[p]
        PROVE  lost[u] /\ pc'[u] # "enter" /\ (InUse(u, fd[p])' => exposed'[u])
    <3>1. CASE u = o
      BY <1>1, <1>3, <1>5, <2>1, <3>1 DEF Consistent, UtilOwns
    <3>2. CASE u # o
      BY <1>1, <1>3, <2>1, <3>2 DEF Consistent, UtilOwns, InUse
    <3> QED
      BY <3>1, <3>2
  <2>2. ASSUME NEW p \in UtilPorts, init, fd[p] # -1
        PROVE  m_fd_map'[fd[p]] = 0
    BY <1>1, <2>2 DEF Consistent, UtilOwns
  <2> QED
    BY <1>1, <2>1, <2>2 DEF Consistent, UtilOwns
<1>9. StillSo'
  <2>1. ASSUME NEW u \in Objects, InUse(u, m_fd[u])', m_fd[u] # -1, ~exposed'[u]
        PROVE  ~Closed(m_fd[u]) /\ (m_fd_map'[m_fd[u]] = 0 <=> pc'[u] = "close")
    <3>1. CASE u = o
      BY <1>1, <1>3, <1>5, <2>1, <3>1 DEF Consistent, StillSo
    <3>2. CASE u # o
      <4>1. m_fd[u] # f /\ m_fd[u] \in Descriptors
        BY <1>1, <1>3, <1>4, <2>1, <3>2 DEF InUse
      <4> QED
        BY <1>1, <1>3, <2>1, <3>2, <4>1 DEF Consistent, StillSo, InUse
    <3> QED
      BY <3>1, <3>2
  <2> QED
    BY <1>1, <2>1 DEF StillSo, Closed
<1>10. Entering'
  <2>1. ASSUME NEW u \in Objects, pc'[u] = "enter"
        PROVE  u # o /\ pc[u] = "enter" /\ m_fd[u] \in Descriptors
    BY <1>1, <1>4, <2>1 DEF TypeOK
  <2>2. ASSUME NEW u \in Objects, pc'[u] = "enter",
               NEW v \in Objects \ {u}, m_fd[v] = m_fd[u]
        PROVE  pc'[v] # "enter" /\ (InUse(v, m_fd[u])' => exposed'[v])
    <3>1. CASE v = o
      BY <1>1, <1>3, <1>5, <2>1, <2>2, <3>1 DEF Consistent, Entering
    <3>2. CASE v # o
      BY <1>1, <1>3, <2>1, <2>2, <3>2 DEF Consistent, Entering, InUse
    <3> QED
      BY <3>1, <3>2
  <2>3. ASSUME NEW u \in Objects, pc'[u] = "enter"
        PROVE  file[m_fd[u]] = Own(u) /\ m_fd_map'[m_fd[u]] = 0
    BY <1>1, <2>1, <2>3 DEF Consistent, Entering
  <2> QED
    BY <1>1, <2>2, <2>3 DEF Entering, Own
<1>11. Unlost'
  BY <1>1 DEF Consistent, Unlost, Own
<1> QED
  BY <1>6, <1>7, <1>8, <1>9, <1>10, <1>11 DEF Consistent

LEMMA CloseConsistent ==
  ASSUME TypeOK, Consistent, NEW o \in Objects, CloseDevice(o), ~exposed[o]
  PROVE  Consistent'
<1> DEFINE f == m_fd[o]
<1>1. /\ pc[o] = "close" /\ f \in Descriptors /\ f # -1
      /\ pc'[o] = "idle" /\ m_fd'[o] = -1
      /\ \A u \in Objects \ {o} : pc'[u] = pc[u] /\ m_fd'[u] = m_fd[u]
      /\ file'[f] = <<>>
      /\ \A g \in Descriptors \ {f} : file'[g] = file[g]
      /\ UNCHANGED <<m_fd_map, fd, init>>
  BY DEF CloseDevice, Goto, TypeOK, utilVars
<1>2. /\ lost' = [u \in Objects |-> u # o /\ (lost[u] \/ m_fd[u] = f)]
      /\ exposed' = [u \in Objects |-> u # o /\ (exposed[u] \/ InUse(u, f))]
  BY DEF CloseDevice
<1>3. /\ \A u \in Objects \ {o} :
            /\ lost[u] => lost'[u]
            /\ exposed[u] => exposed'[u]
            /\ m_fd[u] = f => lost'[u]
            /\ InUse(u, f) => exposed'[u]
  BY <1>2
<1>4. \A u \in Objects : m_fd[u] \in Descriptors \cup {-1}
  BY DEF TypeOK
<1>5. InUse(o, f) /\ m_fd_map[f] = 0
  BY <1>1 DEF InUse, Consistent, StillSo
<1>6. \A p \in UtilPorts : init => fd[p] # f
  BY <1>1, <1>5 DEF Consistent, UtilOwns
<1>7. Listed'
  BY <1>1, <1>5 DEF Consistent, Listed
<1>8. Accounted'
  <2>1. ASSUME NEW g \in Descriptors \ {f}, NEW u \in Objects,
               m_fd[u] = g, pc[u] \in {"enter", "close"}
        PROVE  m_fd'[u] = g /\ pc'[u] \in {"enter", "close"}
    BY <1>1, <2>1
  <2> QED
    BY <1>1, <2>1 DEF Consistent, Accounted, Closed
<1>9. UtilOwns'
  <2>1. ASSUME NEW p \in UtilPorts, init, fd[p] # -1, NEW u \in Objects,
               m_fd'[u] = fd[p]
        PROVE  lost'[u] /\ pc'[u] # "enter" /\ (InUse(u, fd[p])' => exposed'[u])
    <3>1. u # o
      BY <1>1, <2>1
    <3> QED
      BY <1>1, <1>3, <2>1, <3>1 DEF Consistent, UtilOwns, InUse
  <2>2. ASSUME NEW p \in UtilPorts, init, fd[p] # -1
        PROVE  fd[p] \in Descriptors /\ file'[fd[p]] = UtilFile(p) /\ m_fd_map[fd[p]] = 0
    BY <1>1, <1>6, <2>2 DEF Consistent, UtilOwns
  <2> QED
    BY <1>1, <2>1, <2>2 DEF UtilOwns
<1>10. StillSo'
  <2>1. ASSUME NEW u \in Objects, InUse(u, m_fd[u])', m_fd'[u] # -1, ~exposed'[u]
        PROVE  ~Closed(m_fd[u])' /\ (m_fd_map[m_fd'[u]] = 0 <=> pc'[u] = "close")
    <3>1. u # o
      BY <1>1, <2>1
    <3>2. m_fd[u] # f /\ m_fd[u] \in Descriptors
      BY <1>1, <1>3, <1>4, <2>1, <3>1 DEF InUse
    <3> QED
      BY <1>1, <1>3, <2>1, <3>1, <3>2 DEF Consistent, StillSo, InUse, Closed
  <2> QED
    BY <1>1, <2>1 DEF StillSo
<1>11. Entering'
  <2>1. ASSUME NEW u \in Objects, pc'[u] = "enter"
        PROVE  /\ u # o /\ pc[u] = "enter" /\ m_fd'[u] = m_fd[u]
               /\ m_fd[u] \in Descriptors /\ m_fd[u] # f
    <3>1. u # o /\ pc[u] = "enter" /\ m_fd'[u] = m_fd[u]
      BY <1>1, <2>1
    <3>2. m_fd[u] # f
      BY <1>5, <3>1 DEF Consistent, Entering
    <3> QED
      BY <1>4, <3>1, <3>2 DEF TypeOK
  <2>2. ASSUME NEW u \in Objects, pc'[u] = "enter",
               NEW v \in Objects \ {u}, m_fd'[v] = m_fd'[u]
        PROVE  pc'[v] # "enter" /\ (InUse(v, m_fd[u])' => exposed'[v])
    <3>1. v # o
      BY <1>1, <2>1, <2>2, DescriptorFacts
    <3> QED
      BY <1>1, <1>3, <2>1, <2>2, <3>1 DEF Consistent, Entering, InUse
  <2>3. ASSUME NEW u \in Objects, pc'[u] = "enter"
        PROVE  file'[m_fd'[u]] = Own(u) /\ m_fd_map'[m_fd'[u]] = 0
    BY <1>1, <2>1, <2>3 DEF Consistent, Entering
  <2> QED
    BY <2>1, <2>2, <2>3 DEF Entering, Own
<1>12. Unlost'
  <2>1. ASSUME NEW u \in Objects, m_fd'[u] # -1, ~lost'[u]
        PROVE  file'[m_fd'[u]] = Own(u)
    <3>1. u # o /\ m_fd[u] # f /\ ~lost[u]
      BY <1>1, <1>3, <2>1
    <3> QED
      BY <1>1, <1>4, <2>1, <3>1 DEF Consistent, Unlost
  <2> QED
    BY <2>1 DEF Unlost, Own
<1> QED
  BY <1>7, <1>8, <1>9, <1>10, <1>11, <1>12 DEF Consistent

-----------------------------------------------------------------------------
\* util_c.c opens or closes a descriptor that no object uses.
LEMMA UtilOnly ==
  ASSUME TypeOK, Consistent, NEW f \in Descriptors,
         UNCHANGED <<m_fd, m_fd_map, pc, temporary, history>>,
         \A g \in Descriptors \ {f} : file'[g] = file[g],
         m_fd_map[f] = 0,
         \A u \in Objects :
            m_fd[u] = f => lost[u] /\ pc[u] # "enter" /\ (InUse(u, f) => exposed[u])
  PROVE  Listed' /\ StillSo' /\ Entering' /\ Unlost'
<1>1. UNCHANGED <<m_fd, m_fd_map, pc, lost, exposed>>
  BY DEF history
<1>2. \A u \in Objects : m_fd[u] \in Descriptors \cup {-1}
  BY DEF TypeOK
<1>3. Listed'
  BY <1>1 DEF Consistent, Listed
<1>4. StillSo'
  <2>1. ASSUME NEW u \in Objects, InUse(u, m_fd[u]), m_fd[u] # -1, ~exposed[u]
        PROVE  ~Closed(m_fd[u])' /\ (m_fd_map[m_fd[u]] = 0 <=> pc[u] = "close")
    <3>1. m_fd[u] # f /\ m_fd[u] \in Descriptors
      BY <1>2, <2>1
    <3> QED
      BY <1>1, <2>1, <3>1 DEF Consistent, StillSo, Closed
  <2> QED
    BY <1>1, <2>1 DEF StillSo, InUse
<1>5. Entering'
  <2>1. ASSUME NEW u \in Objects, pc[u] = "enter"
        PROVE  m_fd[u] # f /\ m_fd[u] \in Descriptors
    BY <1>2, <2>1 DEF TypeOK
  <2> QED
    BY <1>1, <2>1 DEF Consistent, Entering, InUse, Own
<1>6. Unlost'
  BY <1>1, <1>2 DEF Consistent, Unlost, Own
<1> QED
  BY <1>3, <1>4, <1>5, <1>6

LEMMA UtilOpenConsistent ==
  ASSUME TypeOK, Consistent, NEW port \in UtilPorts, phylib_util_open(port)
  PROVE  Consistent'
<1> DEFINE opened == IF init THEN fd ELSE [p \in UtilPorts |-> -1]
<1>1. /\ UNCHANGED <<m_fd, m_fd_map, pc, temporary, history>>
      /\ init' = TRUE
      /\ opened \in [UtilPorts -> Descriptors \cup {-1, 0}]
      /\ \A p \in UtilPorts : opened[p] # -1 => init /\ opened[p] = fd[p]
      /\ \A p \in UtilPorts : init => opened[p] = fd[p]
  BY DEF phylib_util_open, TypeOK
<1>2. CASE fd' = opened /\ UNCHANGED file
  <2>1. Listed' /\ StillSo' /\ Entering' /\ Unlost'
    BY <1>1, <1>2
    DEF Consistent, Listed, StillSo, Entering, Unlost, InUse, Closed, Own, history
  <2>2. Accounted'
    BY <1>1, <1>2 DEF Consistent, Accounted, Closed
  <2>3. UtilOwns'
    BY <1>1, <1>2 DEF Consistent, UtilOwns, InUse, history
  <2> QED
    BY <2>1, <2>2, <2>3 DEF Consistent
<1>3. ASSUME opened[port] = -1, NEW f \in Descriptors, Closed(f),
             file' = [file EXCEPT ![f] = UtilFile(port)],
             fd' = [opened EXCEPT ![port] = f]
      PROVE  Consistent'
  <2>1. /\ file'[f] = UtilFile(port)
        /\ \A g \in Descriptors \ {f} : file'[g] = file[g]
        /\ fd'[port] = f
        /\ \A p \in UtilPorts \ {port} : fd'[p] = opened[p]
    BY <1>1, <1>3 DEF TypeOK
  <2>2. m_fd_map[f] = 0 /\ f # -1
    BY <1>3, NameFacts, DescriptorFacts DEF Closed, Consistent, Listed
  <2>3. ASSUME NEW u \in Objects, m_fd[u] = f
        PROVE  lost[u] /\ pc[u] # "enter" /\ (InUse(u, f) => exposed[u])
    BY <1>3, <2>2, <2>3, NameFacts
    DEF Closed, Own, Consistent, Unlost, Entering, StillSo
  <2>4. Listed' /\ StillSo' /\ Entering' /\ Unlost'
    BY <1>1, <2>1, <2>2, <2>3, UtilOnly
  <2>5. Accounted'
    <3>1. ASSUME NEW g \in Descriptors, NEW p \in UtilPorts, init, fd[p] = g
          PROVE  fd'[p] = g
      BY <1>1, <1>3, <2>1, <3>1, DescriptorFacts
    <3>2. ASSUME NEW g \in Descriptors \ {f} PROVE Closed(g)' <=> Closed(g)
      BY <2>1 DEF Closed
    <3> QED
      BY <1>1, <2>1, <3>1, <3>2 DEF Consistent, Accounted
  <2>6. UtilOwns'
    <3>1. ASSUME NEW p \in UtilPorts, p # port, fd'[p] # -1
          PROVE  /\ fd'[p] \in Descriptors
                 /\ file'[fd'[p]] = UtilFile(p)
                 /\ m_fd_map[fd'[p]] = 0
                 /\ \A u \in Objects :
                        m_fd[u] = fd'[p] =>
                            lost[u] /\ pc[u] # "enter"
                            /\ (InUse(u, fd[p]) => exposed[u])
      <4>1. init /\ fd'[p] = fd[p] /\ fd[p] # -1
        BY <1>1, <2>1, <3>1
      <4>2. fd[p] # f /\ fd[p] \in Descriptors /\ file[fd[p]] = UtilFile(p)
        BY <1>3, <4>1, NameFacts DEF Consistent, UtilOwns, Closed
      <4> QED
        BY <2>1, <4>1, <4>2 DEF Consistent, UtilOwns
    <3>2. ASSUME NEW p \in UtilPorts, p # port, fd'[p] # -1
          PROVE  fd'[p] = fd[p]
      BY <1>1, <2>1, <3>2
    <3> QED
      BY <1>1, <2>1, <2>2, <2>3, <3>1, <3>2 DEF UtilOwns, InUse, history
  <2> QED
    BY <2>4, <2>5, <2>6 DEF Consistent
<1> QED
  BY <1>2, <1>3 DEF phylib_util_open

LEMMA UtilCloseConsistent ==
  ASSUME TypeOK, Consistent, NEW port \in UtilPorts, phylib_util_close(port)
  PROVE  Consistent'
<1> DEFINE f == fd[port]
<1>1. /\ UNCHANGED <<m_fd, m_fd_map, pc, temporary, history>>
      /\ init /\ init' = TRUE /\ f # -1
      /\ fd' = [fd EXCEPT ![port] = -1]
      /\ file' = [file EXCEPT ![f] = <<>>]
  BY DEF phylib_util_close
<1>2. /\ f \in Descriptors
      /\ file[f] = UtilFile(port)
      /\ m_fd_map[f] = 0
      /\ \A u \in Objects :
            m_fd[u] = f => lost[u] /\ pc[u] # "enter" /\ (InUse(u, f) => exposed[u])
  BY <1>1 DEF Consistent, UtilOwns
<1>3. /\ file'[f] = <<>>
      /\ \A g \in Descriptors \ {f} : file'[g] = file[g]
      /\ fd'[port] = -1
      /\ \A p \in UtilPorts \ {port} : fd'[p] = fd[p]
  BY <1>1, <1>2 DEF TypeOK
<1>4. Listed' /\ StillSo' /\ Entering' /\ Unlost'
  BY <1>1, <1>2, <1>3, UtilOnly
<1>5. Accounted'
  <2>1. ASSUME NEW g \in Descriptors \ {f}, NEW p \in UtilPorts, fd[p] = g
        PROVE  fd'[p] = g
    BY <1>3, <2>1
  <2> QED
    BY <1>1, <1>3, <2>1 DEF Consistent, Accounted, Closed
<1>6. UtilOwns'
  <2>1. ASSUME NEW p \in UtilPorts, fd'[p] # -1
        PROVE  fd'[p] = fd[p] /\ fd[p] # f /\ file'[fd[p]] = file[fd[p]]
    <3>1. p # port /\ fd'[p] = fd[p] /\ fd[p] # -1
      BY <1>3, <2>1
    <3>2. fd[p] \in Descriptors /\ file[fd[p]] = UtilFile(p)
      BY <1>1, <3>1 DEF Consistent, UtilOwns
    <3> QED
      BY <1>2, <1>3, <3>1, <3>2, NameFacts
  <2> QED
    BY <1>1, <2>1 DEF Consistent, UtilOwns, InUse, history
<1> QED
  BY <1>4, <1>5, <1>6 DEF Consistent

-----------------------------------------------------------------------------
\* CallOnly, with the types.
LEMMA CallIInv ==
  ASSUME IInv, NEW o \in Objects,
         NEW f \in Descriptors \cup {-1}, SetFileno(o, f),
         NEW next \in Statements \ {"enter", "close"}, Goto(o, next),
         pc[o] \notin {"enter", "close"},
         temporary' \in [Objects -> BOOLEAN],
         exposed' = exposed \/ exposed' = [exposed EXCEPT ![o] = FALSE],
         UNCHANGED <<tables, utilVars, raced>>,
         next \in {"request", "clear"} => f = -1 \/ m_fd_map[f] # 0,
         next = "clear" => f # -1,
         f = -1 \/ f = m_fd[o] \/ m_fd_map[f] = m_periph_port[o]
  PROVE  IInv'
<1>1. TypeOK
  BY DEF IInv
<1>2. /\ exposed' \in [Objects -> BOOLEAN]
      /\ \A u \in Objects \ {o} : exposed'[u] = exposed[u]
  BY <1>1 DEF TypeOK
<1>3. TypeOK'
  <2>1. /\ m_fd' \in [Objects -> Descriptors \cup {-1}]
        /\ lost' \in [Objects -> BOOLEAN]
        /\ pc' \in [Objects -> Statements]
    BY <1>1 DEF TypeOK, SetFileno, Goto
  <2>2. \A u \in Objects : pc'[u] \in {"enter", "clear", "close"} => m_fd'[u] # -1
    BY <1>1 DEF TypeOK, SetFileno, Goto
  <2> QED
    BY <1>1, <1>2, <2>1, <2>2 DEF TypeOK, tables, utilVars
<1>4. ~raced => Consistent'
  BY <1>1, <1>2, CallOnly DEF IInv
<1> QED
  BY <1>3, <1>4 DEF IInv

\* An object that keeps its descriptor.
LEMMA KeepFileno ==
  ASSUME TypeOK, NEW o \in Objects, UNCHANGED <<m_fd, lost>>
  PROVE  m_fd[o] \in Descriptors \cup {-1} /\ SetFileno(o, m_fd[o])
  BY DEF TypeOK, SetFileno

\* What update_fileno() leaves.
LEMMA UpdatedFacts ==
  ASSUME TypeOK, NEW o \in Objects
  PROVE  /\ Updated(o) \in Descriptors \cup {-1}
         /\ Updated(o) = -1 \/ Updated(o) = m_fd[o]
         /\ Updated(o) = -1 \/ m_fd_map[Updated(o)] # 0
         /\ Updated(o) >= 0 <=> Updated(o) # -1
  BY BoundsAssumption DEF Updated, TypeOK, Descriptors

\* A call looks the port up, at first.
LEMMA OpenIInv ==
  ASSUME IInv, NEW o \in Objects, pc[o] = "idle",
         temporary' \in [Objects -> BOOLEAN],
         exposed' = [exposed EXCEPT ![o] = FALSE],
         UNCHANGED <<tables, utilVars, raced>>,
         \/ /\ lookup_fileno(o) >= 0
            /\ SetFileno(o, lookup_fileno(o))
            /\ Goto(o, "opened") \/ Goto(o, "idle")
         \/ Goto(o, "open") /\ UNCHANGED <<m_fd, lost>>
  PROVE  IInv'
<1>1. {"opened", "idle", "open"} \subseteq Statements \ {"enter", "close"}
  BY DEF Statements
<1>2. CASE /\ lookup_fileno(o) >= 0
           /\ SetFileno(o, lookup_fileno(o))
           /\ Goto(o, "opened") \/ Goto(o, "idle")
  <2>1. /\ lookup_fileno(o) \in Descriptors
        /\ m_fd_map[lookup_fileno(o)] = m_periph_port[o]
    BY <1>2, LookupFacts
  <2>2. PICK next \in {"opened", "idle"} : Goto(o, next)
    BY <1>2
  <2> QED
    BY <1>1, <1>2, <2>1, <2>2, CallIInv
<1>3. CASE Goto(o, "open") /\ UNCHANGED <<m_fd, lost>>
  <2>1. m_fd[o] \in Descriptors \cup {-1} /\ SetFileno(o, m_fd[o])
    BY <1>3, KeepFileno DEF IInv
  <2> QED
    BY <1>1, <1>3, <2>1, CallIInv
<1> QED
  BY <1>2, <1>3

LEMMA ObjectIInv ==
  ASSUME IInv, NEW o \in Objects, ObjectStep(o)
  PROVE  IInv'
<1>1. /\ TypeOK
      /\ {"opened", "idle", "open", "enter", "request", "asked", "clear", "close"}
            \subseteq Statements
  BY DEF IInv, Statements
<1>2. CASE Open(o)
  <2>1. temporary' \in [Objects -> BOOLEAN]
    BY <1>1, <1>2 DEF Open, TypeOK
  <2>2. After(o, "opened") => Goto(o, "opened") \/ Goto(o, "idle")
    BY DEF After
  <2> QED
    BY <1>2, <2>1, <2>2, OpenIInv DEF Open, OpenStep
<1>3. CASE GetInfo(o)
  <2>1. temporary' \in [Objects -> BOOLEAN]
    BY <1>1, <1>3 DEF GetInfo, TypeOK
  <2> QED
    BY <1>3, <2>1, OpenIInv DEF GetInfo
<1>4. CASE OpenDevice(o)
  <2>1. ASSUME NEW f \in Descriptors, Closed(f),
               file' = [file EXCEPT ![f] = Own(o)],
               SetFileno(o, f), Goto(o, "enter"), UNCHANGED temporary
        PROVE  IInv'
    <3>1. TypeOK'
      <4>1. Own(o) \in Files
        BY DEF Own, Files
      <4>2. /\ m_fd' \in [Objects -> Descriptors \cup {-1}]
            /\ lost' \in [Objects -> BOOLEAN]
            /\ pc' \in [Objects -> Statements]
            /\ file' \in [Descriptors -> Files \cup {<<>>}]
        BY <1>1, <2>1, <4>1 DEF TypeOK, SetFileno, Goto
      <4>3. \A u \in Objects : pc'[u] \in {"enter", "clear", "close"} => m_fd'[u] # -1
        BY <1>1, <2>1, DescriptorFacts DEF TypeOK, SetFileno, Goto
      <4> QED
        BY <1>1, <1>4, <2>1, <4>2, <4>3 DEF OpenDevice, TypeOK, utilVars
    <3>2. ~raced => Consistent'
      BY <1>1, <1>4, <2>1, OpenedOnly DEF IInv, OpenDevice
    <3> QED
      BY <1>4, <3>1, <3>2 DEF IInv, OpenDevice
  <2>2. ASSUME SetFileno(o, -1), Goto(o, "idle"), UNCHANGED file,
               temporary' = [temporary EXCEPT ![o] = FALSE]
        PROVE  IInv'
    <3>1. temporary' \in [Objects -> BOOLEAN]
      BY <1>1, <2>2 DEF TypeOK
    <3>2. /\ pc[o] = "open"
          /\ UNCHANGED <<tables, utilVars, raced, exposed>>
      BY <1>4, <2>2 DEF OpenDevice, tables
    <3> QED
      BY <1>1, <2>2, <3>1, <3>2, CallIInv
  <2> QED
    BY <1>4, <2>1, <2>2 DEF OpenDevice
<1>5. CASE Enter(o)
  <2>1. TypeOK'
    <3>1. /\ m_fd_map' \in [Descriptors -> {0} \cup {m_periph_port[u] : u \in Objects}]
          /\ \A u \in Objects \ {o} : pc'[u] = pc[u]
          /\ pc'[o] \in {"opened", "idle"}
          /\ pc' \in [Objects -> Statements]
      BY <1>1, <1>5 DEF Enter, After, Goto, TypeOK
    <3> QED
      BY <1>1, <1>5, <3>1 DEF Enter, TypeOK, utilVars, history
  <2>2. ~raced => Consistent'
    BY <1>1, <1>5, EnterConsistent DEF IInv
  <2> QED
    BY <1>5, <2>1, <2>2 DEF IInv, Enter, history
<1>6. CASE CloseBegin(o)
  <2>1. temporary' \in [Objects -> BOOLEAN]
    BY <1>1, <1>6 DEF CloseBegin, TypeOK
  <2>2. PICK next \in {"clear", "idle"} :
            Goto(o, next) /\ (next = "clear" => Updated(o) >= 0)
    BY <1>6 DEF CloseBegin
  <2>3. /\ SetFileno(o, Updated(o))
        /\ pc[o] \notin {"enter", "close"}
        /\ exposed' = [exposed EXCEPT ![o] = FALSE]
        /\ UNCHANGED <<tables, utilVars, raced>>
    BY <1>6 DEF CloseBegin
  <2> QED
    BY <1>1, <2>1, <2>2, <2>3, UpdatedFacts, CallIInv
<1>7. CASE Clear(o)
  <2>1. TypeOK'
    <3>1. /\ m_fd_map' \in [Descriptors -> {0} \cup {m_periph_port[u] : u \in Objects}]
          /\ exposed' \in [Objects -> BOOLEAN]
          /\ pc' \in [Objects -> Statements]
      BY <1>1, <1>7 DEF Clear, Expose, Goto, TypeOK
    <3>2. \A u \in Objects : pc'[u] \in {"enter", "clear", "close"} => m_fd'[u] # -1
      BY <1>1, <1>7 DEF Clear, Goto, TypeOK
    <3> QED
      BY <1>1, <1>7, <3>1, <3>2 DEF Clear, TypeOK, utilVars
  <2>2. ~raced => Consistent'
    BY <1>1, <1>7, ClearConsistent DEF IInv
  <2> QED
    BY <1>7, <2>1, <2>2 DEF IInv, Clear
<1>8. CASE CloseDevice(o)
  <2>1. TypeOK'
    <3>1. /\ m_fd' \in [Objects -> Descriptors \cup {-1}]
          /\ file' \in [Descriptors -> Files \cup {<<>>}]
          /\ lost' \in [Objects -> BOOLEAN]
          /\ exposed' \in [Objects -> BOOLEAN]
          /\ raced' \in BOOLEAN
          /\ temporary' \in [Objects -> BOOLEAN]
          /\ pc' \in [Objects -> Statements]
      BY <1>1, <1>8 DEF CloseDevice, Goto, TypeOK
    <3>2. \A u \in Objects : pc'[u] \in {"enter", "clear", "close"} => m_fd'[u] # -1
      BY <1>1, <1>8 DEF CloseDevice, Goto, TypeOK
    <3> QED
      BY <1>1, <1>8, <3>1, <3>2 DEF CloseDevice, TypeOK, utilVars
  <2>2. ~raced' => ~raced /\ ~exposed[o]
    BY <1>1, <1>8 DEF CloseDevice, TypeOK
  <2>3. ~raced' => Consistent'
    BY <1>1, <1>8, <2>2, CloseConsistent DEF IInv
  <2> QED
    BY <2>1, <2>3 DEF IInv
<1>9. CASE RequestBegin(o)
  <2>1. temporary' \in [Objects -> BOOLEAN]
    BY <1>1, <1>9 DEF RequestBegin, TypeOK
  <2>2. /\ SetFileno(o, Updated(o)) /\ Goto(o, "request")
        /\ pc[o] \notin {"enter", "close"}
        /\ exposed' = [exposed EXCEPT ![o] = FALSE]
        /\ UNCHANGED <<tables, utilVars, raced>>
    BY <1>9 DEF RequestBegin
  <2> QED
    BY <1>1, <2>1, <2>2, UpdatedFacts, CallIInv
<1>10. CASE Request(o)
  <2>1. temporary' \in [Objects -> BOOLEAN]
    BY <1>1, <1>10 DEF Request, TypeOK
  <2>2. PICK next \in {"asked", "idle"} : Goto(o, next)
    BY <1>10 DEF Request, After
  <2>3. m_fd[o] \in Descriptors \cup {-1} /\ SetFileno(o, m_fd[o])
    BY <1>1, <1>10, KeepFileno DEF Request
  <2>4. /\ pc[o] \notin {"enter", "close"}
        /\ exposed' = [exposed EXCEPT ![o] = FALSE]
        /\ UNCHANGED <<tables, utilVars, raced>>
    BY <1>10 DEF Request
  <2> QED
    BY <1>1, <2>1, <2>2, <2>3, <2>4, CallIInv
<1> QED
  BY <1>2, <1>3, <1>4, <1>5, <1>6, <1>7, <1>8, <1>9, <1>10 DEF ObjectStep

LEMMA UtilIInv ==
  ASSUME IInv, NEW port \in UtilPorts, UtilStep(port)
  PROVE  IInv'
<1>1. TypeOK /\ UtilFile(port) \in Files
  BY DEF IInv, Files
<1>2. UNCHANGED <<m_fd, m_fd_map, pc, temporary, lost, exposed, raced>>
  BY DEF UtilStep, phylib_util_open, phylib_util_close, history
<1>3. /\ file' \in [Descriptors -> Files \cup {<<>>}]
      /\ fd' \in [UtilPorts -> Descriptors \cup {-1, 0}]
      /\ init' \in BOOLEAN
  <2>1. CASE phylib_util_close(port)
    BY <1>1, <2>1 DEF phylib_util_close, TypeOK
  <2>2. CASE phylib_util_open(port)
    <3>1. (IF init THEN fd ELSE [p \in UtilPorts |-> -1])
            \in [UtilPorts -> Descriptors \cup {-1, 0}]
      BY <1>1 DEF TypeOK
    <3> QED
      BY <1>1, <2>2, <3>1 DEF phylib_util_open, TypeOK
  <2> QED
    BY <2>1, <2>2 DEF UtilStep
<1>4. TypeOK'
  BY <1>1, <1>2, <1>3 DEF TypeOK
<1>5. ~raced => Consistent'
  BY <1>1, UtilOpenConsistent, UtilCloseConsistent DEF IInv, UtilStep
<1> QED
  BY <1>2, <1>4, <1>5 DEF IInv

LEMMA NextIInv == IInv /\ [Next]_vars => IInv'
<1> SUFFICES ASSUME IInv, [Next]_vars PROVE IInv'
  OBVIOUS
<1>1. CASE UNCHANGED vars
  BY <1>1
  DEF vars, tables, utilVars, history, IInv, TypeOK, Consistent, Listed, Accounted,
      UtilOwns, StillSo, Entering, Unlost, Closed, InUse, Own
<1> QED
  BY <1>1, ObjectIInv, UtilIInv DEF Next

-----------------------------------------------------------------------------
\* IInv holds in every reachable state.
THEOREM Invariance == Spec => []IInv
  BY InitIInv, NextIInv, PTL DEF Spec

\* The types of the variables; calls write within the table (TypeOK).
THEOREM TypeCorrect == Spec => []TypeOK
<1>1. IInv => TypeOK
  BY DEF IInv
<1> QED
  BY <1>1, Invariance, PTL

\* The table says what is open, unless two calls closed one descriptor at the
\* same time (TableTrue).
THEOREM TableSaysWhatIsOpen == Spec => []TableTrue
<1>1. IInv => TableTrue
  BY DEF IInv, Consistent, Listed, Accounted, TableTrue
<1> QED
  BY <1>1, Invariance, PTL

\* An object whose descriptor nobody else has closed makes its requests to its
\* own device (OwnDevice).
THEOREM RequestsReachOwnDevice == Spec => []OwnDevice
<1>1. IInv => OwnDevice
  BY DEF IInv, Consistent, Unlost, OwnDevice
<1> QED
  BY <1>1, Invariance, PTL

\* No object uses a descriptor of util_c.c, unless it was exposed (OthersSafe).
THEOREM OthersAreSafe == Spec => []OthersSafe
<1>1. ASSUME TypeOK, UtilOwns, NEW p \in UtilPorts, init, fd[p] # -1
      PROVE  /\ file[fd[p]] = UtilFile(p)
             /\ \A o \in Objects : InUse(o, fd[p]) => exposed[o]
  BY <1>1 DEF UtilOwns, InUse
<1>2. IInv => OthersSafe
  BY <1>1 DEF IInv, Consistent, OthersSafe
<1> QED
  BY <1>2, Invariance, PTL

-----------------------------------------------------------------------------
(***************************************************************************)
(* One object for each port.                                               *)
(***************************************************************************)

\* What an object looks up is what it has.
LEMMA LookupOwn ==
  ASSUME TypeOK, Alone, NEW o \in Objects, pc[o] \notin {"enter", "close"}
  PROVE  lookup_fileno(o) = m_fd[o]
<1>1. CASE m_fd[o] = -1
  <2>1. lookup(o) = {}
    BY <1>1, DescriptorFacts DEF Alone, lookup
  <2> QED
    BY <1>1, <2>1 DEF lookup_fileno
<1>2. CASE m_fd[o] # -1
  <2>1. m_fd[o] \in Descriptors /\ m_fd_map[m_fd[o]] = m_periph_port[o]
    BY <1>2 DEF TypeOK, Alone
  <2>2. lookup(o) = {m_fd[o]}
    BY <2>1 DEF Alone, lookup
  <2>3. m_fd[o] <= m_fd[o]
    BY <2>1 DEF Descriptors
  <2> QED
    BY <2>2, <2>3 DEF lookup_fileno
<1> QED
  BY <1>1, <1>2

\* update_fileno() finds what the object has listed.
LEMMA UpdatedOwn ==
  ASSUME TypeOK, Alone, NEW o \in Objects, pc[o] \notin {"enter", "close"}
  PROVE  Updated(o) = m_fd[o]
  BY PortFacts DEF TypeOK, Alone, Updated

\* A call that neither opens, lists nor closes.
LEMMA AloneCall ==
  ASSUME TypeOK, Alone, NEW o \in Objects, pc[o] \notin {"enter", "close"},
         NEW next \in Statements \ {"enter", "close"}, Goto(o, next),
         next = "open" => m_fd[o] = -1,
         SetFileno(o, m_fd[o]), exposed' = [exposed EXCEPT ![o] = FALSE],
         UNCHANGED <<m_fd_map, raced>>
  PROVE  Alone'
<1>1. /\ pc' = [pc EXCEPT ![o] = next]
      /\ m_fd' = m_fd
      /\ \A u \in Objects : ~lost'[u] /\ ~exposed'[u]
  BY DEF TypeOK, Alone, Goto, SetFileno
<1>2. \A u \in Objects :
          /\ pc'[u] \in {"enter", "close"} <=> pc[u] \in {"enter", "close"}
          /\ pc'[u] = "open" => m_fd[u] = -1
  BY <1>1 DEF TypeOK, Alone
<1> QED
  BY <1>1, <1>2 DEF Alone

\* A call opens a descriptor that nobody has.
LEMMA AloneOpenDevice ==
  ASSUME IInv, Alone, NEW o \in Objects, OpenDevice(o)
  PROVE  Alone'
<1>1. TypeOK /\ Consistent /\ pc[o] = "open" /\ m_fd[o] = -1
  BY DEF IInv, Alone, OpenDevice
<1>2. /\ UNCHANGED <<m_fd_map, exposed, raced>>
      /\ \A u \in Objects \ {o} : pc'[u] = pc[u] /\ m_fd'[u] = m_fd[u]
      /\ \A u \in Objects : ~lost'[u]
      /\ \/ pc'[o] = "enter" /\ m_fd'[o] \in Descriptors /\ Closed(m_fd'[o])
         \/ pc'[o] = "idle" /\ m_fd'[o] = -1
  BY <1>1 DEF OpenDevice, SetFileno, Goto, TypeOK, Alone
<1>3. \A f \in Descriptors : m_fd_map[f] # m_periph_port[o]
  BY <1>1, DescriptorFacts DEF Alone
<1>4. CASE pc'[o] = "idle" /\ m_fd'[o] = -1
  BY <1>1, <1>2, <1>3, <1>4 DEF Alone
<1>5. CASE pc'[o] = "enter" /\ m_fd'[o] \in Descriptors /\ Closed(m_fd'[o])
  <2>1. m_fd_map[m_fd'[o]] = 0
    BY <1>1, <1>5, NameFacts DEF Consistent, Listed, Closed
  <2>2. \A u \in Objects : m_fd[u] # m_fd'[o]
    BY <1>1, <1>5, NameFacts, DescriptorFacts
    DEF Consistent, Unlost, Closed, Own, Alone
  <2> QED
    BY <1>1, <1>2, <1>3, <1>5, <2>1, <2>2 DEF Alone
<1> QED
  BY <1>2, <1>4, <1>5

\* The three accesses to what is shared.
LEMMA AloneEnter ==
  ASSUME TypeOK, Alone, NoneShared, NEW o \in Objects, Enter(o)
  PROVE  Alone'
<1> DEFINE f == m_fd[o]
<1>1. /\ pc[o] = "enter" /\ f \in Descriptors /\ f # -1
      /\ pc'[o] \in {"opened", "idle"}
      /\ \A u \in Objects \ {o} : pc'[u] = pc[u]
      /\ m_fd_map'[f] = m_periph_port[o] /\ m_periph_port[o] # 0
      /\ \A g \in Descriptors \ {f} : m_fd_map'[g] = m_fd_map[g]
      /\ UNCHANGED <<m_fd, lost, exposed, raced>>
  BY PortFacts DEF Enter, After, Goto, TypeOK, history
<1>2. ASSUME NEW u \in Objects \ {o}, m_fd[u] # -1
      PROVE  m_fd[u] \in Descriptors \ {f}
  BY <1>1, <1>2 DEF TypeOK, Alone
<1>3. ASSUME NEW u \in Objects, NEW g \in Descriptors,
             m_fd_map'[g] = m_periph_port[u]
      PROVE  m_fd[u] = g
  BY <1>1, <1>3 DEF Alone, NoneShared
<1> QED
  BY <1>1, <1>2, <1>3 DEF Alone

LEMMA AloneClear ==
  ASSUME TypeOK, Alone, NEW o \in Objects, Clear(o)
  PROVE  Alone'
<1> DEFINE f == m_fd[o]
<1>1. /\ pc[o] = "clear" /\ f \in Descriptors /\ f # -1
      /\ pc'[o] = "close"
      /\ \A u \in Objects \ {o} : pc'[u] = pc[u]
      /\ m_fd_map'[f] = 0
      /\ \A g \in Descriptors \ {f} : m_fd_map'[g] = m_fd_map[g]
      /\ UNCHANGED <<m_fd, lost, raced>>
      /\ exposed' = [u \in Objects |-> exposed[u] \/ (u # o /\ InUse(u, f))]
  BY DEF Clear, Goto, TypeOK, Expose
<1>2. ASSUME NEW u \in Objects \ {o}, m_fd[u] # -1
      PROVE  m_fd[u] \in Descriptors \ {f}
  BY <1>1, <1>2 DEF TypeOK, Alone
<1>3. \A u \in Objects : ~exposed'[u]
  BY <1>1, <1>2 DEF Alone, InUse
<1>4. ASSUME NEW u \in Objects, NEW g \in Descriptors,
             m_fd_map'[g] = m_periph_port[u]
      PROVE  m_fd[u] = g
  BY <1>1, <1>4, PortFacts DEF Alone
<1> QED
  BY <1>1, <1>2, <1>3, <1>4 DEF Alone

LEMMA AloneCloseDevice ==
  ASSUME TypeOK, Alone, NEW o \in Objects, CloseDevice(o)
  PROVE  Alone'
<1> DEFINE f == m_fd[o]
<1>1. /\ pc[o] = "close" /\ f \in Descriptors /\ f # -1
      /\ pc'[o] = "idle" /\ m_fd'[o] = -1
      /\ \A u \in Objects \ {o} : pc'[u] = pc[u] /\ m_fd'[u] = m_fd[u]
      /\ UNCHANGED m_fd_map
      /\ lost' = [u \in Objects |-> u # o /\ (lost[u] \/ m_fd[u] = f)]
      /\ exposed' = [u \in Objects |-> u # o /\ (exposed[u] \/ InUse(u, f))]
      /\ raced' = (raced \/ exposed[o])
  BY DEF CloseDevice, Goto, TypeOK
<1>2. \A u \in Objects \ {o} : m_fd[u] # f
  BY <1>1 DEF Alone
<1>3. /\ ~raced'
      /\ \A u \in Objects : ~lost'[u] /\ ~exposed'[u]
  BY <1>1, <1>2 DEF Alone, InUse
<1>4. \A g \in Descriptors : m_fd_map[g] # m_periph_port[o]
  BY <1>1, PortFacts DEF Alone
<1> QED
  BY <1>1, <1>3, <1>4 DEF Alone

LEMMA AloneNext ==
  ASSUME IInv, Alone, NoneShared, [Next]_vars
  PROVE  Alone'
<1>1. TypeOK
  BY DEF IInv
<1>2. ASSUME NEW o \in Objects, ObjectStep(o) PROVE Alone'
  <2>1. {"opened", "idle", "open", "request", "asked", "clear"}
            \subseteq Statements \ {"enter", "close"}
    BY DEF Statements
  <2>2. pc[o] \notin {"enter", "close"} =>
            lookup_fileno(o) = m_fd[o] /\ Updated(o) = m_fd[o]
    BY <1>1, LookupOwn, UpdatedOwn
  <2>3. m_fd[o] \in Descriptors \cup {-1} /\ (m_fd[o] < 0 => m_fd[o] = -1)
    BY <1>1, BoundsAssumption DEF TypeOK, Descriptors
  <2>4. UNCHANGED <<m_fd, lost>> => SetFileno(o, m_fd[o])
    BY <1>1, KeepFileno
  <2>5. CASE Open(o) \/ GetInfo(o)
    <3>1. pc[o] \notin {"enter", "close"}
      BY <2>5 DEF Open, GetInfo
    <3>2. /\ exposed' = [exposed EXCEPT ![o] = FALSE]
          /\ UNCHANGED <<m_fd_map, raced>>
          /\ \/ /\ SetFileno(o, m_fd[o])
                /\ Goto(o, "opened") \/ Goto(o, "idle")
             \/ /\ m_fd[o] = -1 /\ Goto(o, "open")
                /\ UNCHANGED <<m_fd, lost>>
      BY <2>2, <2>3, <2>5, <3>1 DEF Open, OpenStep, GetInfo, After, tables
    <3> QED
      BY <1>1, <2>1, <2>4, <3>1, <3>2, AloneCall
  <2>6. CASE CloseBegin(o)
    <3>1. /\ pc[o] \notin {"enter", "close"}
          /\ exposed' = [exposed EXCEPT ![o] = FALSE]
          /\ UNCHANGED <<m_fd_map, raced>>
          /\ SetFileno(o, m_fd[o])
          /\ Goto(o, "clear") \/ Goto(o, "idle")
      BY <2>2, <2>6 DEF CloseBegin, tables
    <3> QED
      BY <1>1, <2>1, <3>1, AloneCall
  <2>7. CASE RequestBegin(o)
    <3>1. /\ pc[o] \notin {"enter", "close"}
          /\ exposed' = [exposed EXCEPT ![o] = FALSE]
          /\ UNCHANGED <<m_fd_map, raced>>
          /\ SetFileno(o, m_fd[o])
          /\ Goto(o, "request")
      BY <2>2, <2>7 DEF RequestBegin, tables
    <3> QED
      BY <1>1, <2>1, <3>1, AloneCall
  <2>8. CASE Request(o)
    <3>1. /\ pc[o] \notin {"enter", "close"}
          /\ exposed' = [exposed EXCEPT ![o] = FALSE]
          /\ UNCHANGED <<m_fd_map, raced>>
          /\ SetFileno(o, m_fd[o])
          /\ Goto(o, "asked") \/ Goto(o, "idle")
      BY <2>4, <2>8 DEF Request, After, tables
    <3> QED
      BY <1>1, <2>1, <3>1, AloneCall
  <2> QED
    BY <1>1, <1>2, <2>5, <2>6, <2>7, <2>8,
       AloneOpenDevice, AloneEnter, AloneClear, AloneCloseDevice DEF ObjectStep
<1>3. ASSUME UNCHANGED <<m_fd, m_fd_map, pc, lost, exposed, raced>>
      PROVE  Alone'
  BY <1>3 DEF Alone
<1>4. ASSUME NEW port \in UtilPorts, UtilStep(port) PROVE Alone'
  BY <1>3, <1>4 DEF UtilStep, phylib_util_open, phylib_util_close, history
<1>5. CASE UNCHANGED vars
  BY <1>3, <1>5 DEF vars, tables, history
<1> QED
  BY <1>2, <1>4, <1>5 DEF Next

\* In a process with one object for each port, no object loses its descriptor
\* to another and the table tells the truth, without any condition on the
\* order of the calls (RiskIsSharing): what TableTrue, OwnDevice and
\* OthersSafe except comes from sharing a port.
THEOREM RiskOnlyFromSharing == Spec => []RiskIsSharing
<1> DEFINE Unshared == NoneShared => Alone
<1>1. Init => Unshared
  BY PortFacts DEF Init, Alone
<1>2. IInv /\ Unshared /\ [Next]_vars => Unshared'
  <2> SUFFICES ASSUME IInv, Unshared, [Next]_vars, NoneShared PROVE Alone'
    BY DEF NoneShared
  <2> QED
    BY AloneNext
<1>3. IInv /\ Unshared => RiskIsSharing
  BY DEF IInv, Alone, RiskIsSharing
<1> QED
  BY <1>1, <1>2, <1>3, Invariance, PTL DEF Spec

=============================================================================
