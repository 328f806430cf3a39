------------------------ MODULE UsbContracts_proofs ------------------------
(***************************************************************************)
(* Proofs that host and device keep their two contracts.                   *)
(*                                                                         *)
(* DapSession first: whichever of the four firmwares the device runs, each *)
(* step of it or of its host is a step of the session, or none that the    *)
(* session sees.  What the device owes stands in the places a firmware has *)
(* for it, one after the other: a step moves, adds, takes or drops what    *)
(* one of them holds.  The places and the steps of the session come first, *)
(* then the four firmwares, then the theorems.                             *)
(*                                                                         *)
(* Then UsbControl, for every set of commands and every size of endpoint   *)
(* 0, when the hosts take their firmwares' care: what goes out is the next *)
(* data of the transfer under way (TransfersInv, with SessionsInv          *)
(* inductive), so that each step of host and device is one of the host's   *)
(* moves (HostMoves), and each of those, at the address both mean, one of  *)
(* the contract's.                                                         *)
(***************************************************************************)
EXTENDS UsbDevices_proofs, SequenceTheorems

-----------------------------------------------------------------------------
(* Places, and the steps of the session                                    *)

\* A place holds a command or is empty.
LEMMA HeldTyped ==
  ASSUME NEW c \in Cmd \cup {None}
  PROVE  /\ Held(c) \in Seq(Cmd) /\ Len(Held(c)) = IF c = None THEN 0 ELSE 1
         /\ c = None => Held(c) = <<>>
         /\ c # None => Held(c) = <<c>> /\ c \in Cmd
BY DEF Held

\* Three places one after the other.
LEMMA PlacesTyped ==
  ASSUME NEW a \in Seq(Cmd), NEW b \in Seq(Cmd), NEW c \in Seq(Cmd)
  PROVE  /\ (a \o b) \o c \in Seq(Cmd) /\ Len((a \o b) \o c) = Len(a) + Len(b) + Len(c)
         /\ Len(a) \in Nat /\ Len(b) \in Nat /\ Len(c) \in Nat
         /\ SubSeq((a \o b) \o c, 1, Len(a)) = a
         /\ SubSeq((a \o b) \o c, Len(a) + Len(b) + 1, Len(a) + Len(b) + Len(c)) = c
<1> DEFINE s == (a \o b) \o c
<1>1. a \o b \in Seq(Cmd) /\ Len(a \o b) = Len(a) + Len(b)
      /\ \A i \in 1..(Len(a) + Len(b)) : (a \o b)[i] = IF i <= Len(a) THEN a[i] ELSE b[i - Len(a)]
  BY ConcatProperties
<1>2. Len(a) \in Nat /\ Len(b) \in Nat /\ Len(c) \in Nat
  BY LenProperties
<1>3. s \in Seq(Cmd) /\ Len(s) = (Len(a) + Len(b)) + Len(c)
      /\ \A i \in 1..((Len(a) + Len(b)) + Len(c)) :
            s[i] = IF i <= Len(a) + Len(b) THEN (a \o b)[i] ELSE c[i - (Len(a) + Len(b))]
  BY <1>1, ConcatProperties
<1>4. \A i \in 1..Len(a) : s[i] = a[i]
  BY <1>1, <1>2, <1>3
<1>5. \A i \in 1..Len(c) : s[Len(a) + Len(b) + i] = c[i]
  BY <1>2, <1>3
<1> DEFINE p == SubSeq(s, 1, Len(a))
           q == SubSeq(s, Len(a) + Len(b) + 1, Len(a) + Len(b) + Len(c))
<1>6. \A i \in 1..Len(s) : s[i] \in Cmd
  BY <1>3, ElementOfSeq
<1> HIDE DEF s
<1>7. p = a
  <2>1. \A i \in 1..Len(a) : s[i] \in Cmd
    BY <1>2, <1>3, <1>6
  <2>2. p \in Seq(Cmd) /\ Len(p) = Len(a) /\ \A i \in 1..Len(a) : p[i] = s[i]
    BY <2>1, <1>2, SubSeqProperties
  <2> HIDE DEF p
  <2> QED BY <2>2, <1>4, SeqEqual
<1>8. q = c
  <2> DEFINE m == Len(a) + Len(b) + 1
             n == Len(a) + Len(b) + Len(c)
  <2>1. m \in Int /\ n \in Int /\ \A i \in m..n : s[i] \in Cmd
    BY <1>2, <1>3, <1>6
  <2>2. q \in Seq(Cmd) /\ Len(q) = (IF m <= n THEN n - m + 1 ELSE 0)
        /\ \A i \in 1..(n - m + 1) : q[i] = s[m + i - 1]
    BY <2>1, SubSeqProperties
  <2>3. n - m + 1 = Len(c) /\ \A i \in 1..Len(c) : m + i - 1 = Len(a) + Len(b) + i
    BY <1>2
  <2>4. Len(q) = Len(c)
    BY <2>2, <2>3, <1>2
  <2> HIDE DEF q, m, n
  <2>5. \A i \in 1..Len(c) : q[i] = c[i]
    BY <2>2, <2>3, <1>5
  <2> QED BY <2>2, <2>4, <2>5, SeqEqual
<1> QED BY <1>2, <1>3, <1>7, <1>8 DEF s

\* What stands between the commands still awaited and those that go first is
\* forgotten.
LEMMA Forgets ==
  ASSUME NEW a \in Seq(Cmd), NEW b \in Seq(Cmd), NEW c \in Seq(Cmd),
         Owed = (a \o b) \o c, Owed' = a \o c, NEW w \in Nat, w <= Len(c)
  PROVE  Session!Forget(w)
<1>1. Len(Owed) = Len(a) + Len(b) + Len(c)
      /\ Len(a) \in Nat /\ Len(b) \in Nat /\ Len(c) \in Nat
      /\ SubSeq(Owed, 1, Len(a)) = a
      /\ SubSeq(Owed, Len(a) + Len(b) + 1, Len(Owed)) = c
  BY PlacesTyped
<1>2. Len(a) \in 0..(Len(Owed) - w) /\ Len(a) + Len(b) \in 0..(Len(Owed) - w)
      /\ Len(a) <= Len(a) + Len(b)
  BY <1>1
<1>3. Owed' = SubSeq(Owed, 1, Len(a)) \o SubSeq(Owed, (Len(a) + Len(b)) + 1, Len(Owed))
  BY <1>1
<1> QED BY <1>2, <1>3 DEF Session!Forget

\* A step of the host's or of the device's that the session does not see.
LEMMA Unseen ==
  ASSUME UNCHANGED <<waiting, got>>, Owed' = Owed, Leftover' = Leftover
  PROVE  UNCHANGED Session!vars
BY DEF Session!vars

\* The session ends, and what the device forgets with it.
LEMMA Closes ==
  ASSUME NEW a \in Seq(Cmd), NEW b \in Seq(Cmd), NEW c \in Seq(Cmd),
         Owed = (a \o b) \o c, Owed' = a \o c, waiting' = 0, got' = got, Leftover' = Leftover
  PROVE  Session!Next
<1>1. 0 \in Nat /\ 0 <= Len(c)
  BY LenProperties
<1>2. Session!Forget(0)
  BY <1>1, Forgets
<1> QED BY <1>2 DEF Session!Next, Session!Close

\* The device forgets what is not awaited.
LEMMA Drops ==
  ASSUME NEW a \in Seq(Cmd), NEW b \in Seq(Cmd), NEW c \in Seq(Cmd),
         Owed = (a \o b) \o c, Owed' = a \o c, waiting \in Nat, waiting <= Len(c),
         waiting' = waiting, got' = got, Leftover' = Leftover
  PROVE  Session!Next
<1>1. Session!Forget(waiting)
  BY Forgets
<1> QED BY <1>1 DEF Session!Next, Session!Drop

\* The debugger asks, and the command is owed after the others.
LEMMA Asks ==
  ASSUME NEW s \in Seq(Cmd), NEW c \in Cmd, Owed = s, Owed' = s \o <<c>>,
         HostAsk, Len(s) <= waiting + Leftover, Leftover' = Leftover
  PROVE  Session!Next
<1>1. <<c>> \in Seq(Cmd) /\ Len(<<c>>) = 1
  OBVIOUS
<1>2. Len(s) \in Nat /\ Len(s \o <<c>>) = Len(s) + 1
  BY <1>1, ConcatProperties, LenProperties
<1>3. SubSeq(s \o <<c>>, 1, Len(s)) = s
  <2>1. <<>> \in Seq(Cmd) /\ s \o <<>> = s
    BY ConcatEmptySeq
  <2>2. SubSeq((s \o <<>>) \o <<c>>, 1, Len(s)) = s
    BY <1>1, <2>1, PlacesTyped
  <2> QED BY <2>1, <2>2
<1>4. waiting < DAP_PACKET_COUNT /\ waiting' = waiting + 1 /\ got' = None
  BY DEF HostAsk
<1>5. Len(Owed') = Len(Owed) + 1 /\ SubSeq(Owed', 1, Len(Owed)) = Owed /\ Len(Owed) <= waiting + Leftover
  BY <1>2, <1>3
<1> QED BY <1>4, <1>5 DEF Session!Next, Session!Ask

\* The debugger takes the response that is due.
LEMMA Answers ==
  ASSUME NEW c \in Cmd, NEW s \in Seq(Cmd), Owed = <<c>> \o s, Owed' = s,
         HostTake(c), Leftover' = Leftover
  PROVE  Session!Next
<1>1. <<c>> \o s # <<>> /\ Head(<<c>> \o s) = c /\ Tail(<<c>> \o s) = s
  <2>1. <<c>> \in Seq(Cmd) /\ Len(<<c>>) = 1 /\ <<c>>[1] = c
    OBVIOUS
  <2>2. /\ <<c>> \o s \in Seq(Cmd) /\ Len(<<c>> \o s) = 1 + Len(s) /\ Len(s) \in Nat
        /\ (<<c>> \o s)[1] = c
        /\ \A i \in 1..Len(s) : (<<c>> \o s)[i + 1] = s[i]
    BY <2>1, ConcatProperties, LenProperties
  <2> DEFINE t == <<c>> \o s
  <2> HIDE DEF t
  <2>3. t # <<>> /\ Head(t) = t[1]
    BY <2>2 DEF t
  <2>4. Tail(t) \in Seq(Cmd) /\ Len(Tail(t)) = Len(s) /\ \A i \in 1..Len(s) : Tail(t)[i] = t[i + 1]
    BY <2>2, <2>3, HeadTailProperties DEF t
  <2>5. Tail(t) = s
    BY <2>2, <2>4, SeqEqual DEF t
  <2> QED BY <2>2, <2>3, <2>5 DEF t
<1>2. waiting > 0 /\ waiting' = waiting - 1 /\ got' = c
  BY DEF HostTake
<1>3. Owed # <<>> /\ got' = Head(Owed) /\ Owed' = Tail(Owed)
  BY <1>1, <1>2
<1> QED BY <1>2, <1>3 DEF Session!Next, Session!Answer

\* What the device owes, by its firmware.
LEMMA OwedOf ==
  /\ dev \in NucDevice => Owed = NucOwed /\ Leftover = 2
  /\ dev \in SamDevice => Owed = SamOwed /\ Leftover = 0
  /\ dev \in PicDevice => Owed = PicOwed /\ Leftover = 0
  /\ dev \in StmDevice => Owed = StmOwed /\ Leftover = 0
<1>1. /\ dev \in NucDevice => Nuc /\ ~Sam /\ ~Pic /\ ~Stm
      /\ dev \in SamDevice => Sam /\ ~Nuc /\ ~Pic /\ ~Stm
      /\ dev \in PicDevice => Pic /\ ~Nuc /\ ~Sam /\ ~Stm
      /\ dev \in StmDevice => Stm /\ ~Nuc /\ ~Sam /\ ~Pic
  BY Firmware
<1> QED BY <1>1 DEF Owed, Leftover

\* And after a step.
LEMMA OwedAfter ==
  /\ dev' \in NucDevice => Owed' = NucOwed' /\ Leftover' = 2
  /\ dev' \in SamDevice => Owed' = SamOwed' /\ Leftover' = 0
  /\ dev' \in PicDevice => Owed' = PicOwed' /\ Leftover' = 0
  /\ dev' \in StmDevice => Owed' = StmOwed' /\ Leftover' = 0
<1>1. /\ dev' \in NucDevice => Nuc' /\ ~Sam' /\ ~Pic' /\ ~Stm'
      /\ dev' \in SamDevice => Sam' /\ ~Nuc' /\ ~Pic' /\ ~Stm'
      /\ dev' \in PicDevice => Pic' /\ ~Nuc' /\ ~Sam' /\ ~Stm'
      /\ dev' \in StmDevice => Stm' /\ ~Nuc' /\ ~Sam' /\ ~Pic'
  BY DEF NucDevice, SamDevice, PicDevice, StmDevice, Nuc, Sam, Pic, Stm
<1> QED BY <1>1 DEF Owed, Leftover

-----------------------------------------------------------------------------
(* The NUC121                                                              *)

\* usb_task's effect on the debugger's endpoints: a configuration forgets the
\* command in dap_buffer, and one that has come replaces it.
LEMMA NucUsbTaskOf ==
  ASSUME dev \in NucDevice, NucUsbTask
  PROVE  LET left == IF dev.setup # None /\ dev.setup.kind = "config" THEN None ELSE dev.dap_buffer
         IN /\ dev'.in1 = dev.in1 /\ dev'.buf1 = None /\ dev'.setup = None
            /\ dev'.dap_buffer = IF dev.buf1 # None THEN dev.buf1 ELSE left
<1> DEFINE b == NucServeBus(dev)
           d == NucServeSetup(b)
           p == NucServeEp0(d)
           q == NucServeEp1(p)
           r == NucServeEp2(q)
           left == IF dev.setup # None /\ dev.setup.kind = "config" THEN None ELSE dev.dap_buffer
           F == {"in1", "buf1", "setup", "dap_buffer"}
<1>1. b \in NucDevice /\ d \in NucDevice /\ p \in NucDevice /\ q \in NucDevice /\ r \in NucDevice
  BY NucServeTyped
<1>2. \A f \in F : b[f] = dev[f]
  BY DEF NucServeBus, NucDevice
<1>3. /\ d.in1 = dev.in1 /\ d.buf1 = dev.buf1 /\ d.setup = None
      /\ d.dap_buffer = left
  <2> HIDE DEF b
  <2>1. CASE b.setup = None
    <3>1. d = b
      BY <2>1 DEF NucServeSetup
    <3> QED BY <1>2, <2>1, <3>1
  <2>2. CASE b.setup # None
    <3> DEFINE e == [b EXCEPT !.setup = None, !.in0 = None, !.out0 = FALSE]
    <3>0. b.setup.kind \in {"address", "config", "get", "unknown", "clear"}
      BY <1>1, <2>2, RequestKinds DEF NucDevice
    <3>1. /\ e.in1 = b.in1 /\ e.buf1 = b.buf1 /\ e.setup = None /\ e.dap_buffer = b.dap_buffer
          /\ DOMAIN e = DOMAIN b
      BY <1>1 DEF NucDevice
    <3>2. DOMAIN e = {"fw", "faddr", "assigned", "bus", "setup", "in0", "out0", "stall0", "ev0", "ev1",
                      "in1", "out1", "buf1", "ev2", "dap_buffer", "epin_pending"}
      BY <1>1, <3>1 DEF NucDevice
    <3>3. CASE b.setup.kind \in {"unknown", "clear"}
      <4>1. d = [e EXCEPT !.stall0 = TRUE]
        BY <2>2, <3>3 DEF NucServeSetup
      <4> HIDE DEF e, d
      <4> QED BY <1>2, <2>2, <3>1, <3>2, <3>3, <4>1
    <3>4. CASE b.setup.kind \notin {"unknown", "clear"}
      <4> DEFINE h == NucHandle(e, b.setup)
      <4>1. d = [h EXCEPT !.out0 = TRUE]
        BY <2>2, <3>4 DEF NucServeSetup
      <4> HIDE DEF e
      <4>2. /\ DOMAIN h = DOMAIN e
            /\ h.in1 = e.in1 /\ h.buf1 = e.buf1 /\ h.setup = e.setup
            /\ h.dap_buffer = IF b.setup.kind = "config" THEN None ELSE e.dap_buffer
        BY <3>0, <3>2, <3>4 DEF NucHandle, NucConfigured
      <4> HIDE DEF h, d
      <4> QED BY <1>2, <2>2, <3>1, <3>2, <3>4, <4>1, <4>2
    <3> QED BY <3>3, <3>4
  <2> QED BY <2>1, <2>2
<1>4. \A f \in F : p[f] = d[f]
  <2> HIDE DEF d
  <2> QED BY <1>1 DEF NucServeEp0, NucDevice
<1>5. \A f \in F : q[f] = p[f]
  <2> HIDE DEF p
  <2> QED BY <1>1 DEF NucServeEp1, NucDevice
<1>6. \A f \in F : r[f] = q[f]
  <2> HIDE DEF q
  <2> QED BY <1>1 DEF NucServeEp2, NucDevice
<1>7. dev' = NucServeEp3(r)
  BY DEF NucUsbTask
<1> HIDE DEF r, left
<1>8. /\ dev'.in1 = r.in1 /\ dev'.setup = r.setup /\ dev'.buf1 = None
      /\ dev'.dap_buffer = IF r.buf1 # None THEN r.buf1 ELSE r.dap_buffer
  BY <1>1, <1>7 DEF NucServeEp3, NucDevice
<1> QED BY <1>2, <1>3, <1>4, <1>5, <1>6, <1>8 DEF left

\* A SETUP packet is heard by the device; the host ends the session if it
\* configures it anew.
LEMMA NucSetupOf ==
  ASSUME "nuc121" \in Calm, dev \in NucDevice, HostInv, NucControlInv, NucAddressInv, NucSetup
  PROVE  \E r \in NucRequests :
           /\ dev'.setup = r /\ r # None /\ \A f \in {"in1", "buf1", "dap_buffer", "ev2"} : dev'[f] = dev[f]
           /\ xfer'.req = r /\ UNCHANGED got
           /\ IF r.kind = "config" THEN conf' = FALSE /\ waiting' = 0 ELSE UNCHANGED <<conf, waiting>>
<1>1. PICK r \in NucRequests :
        /\ NucRecovered /\ HostSetup(r, NucCare(r))
        /\ dev' = IF NucHeard THEN [dev EXCEPT !.setup = r, !.stall0 = FALSE] ELSE dev
  BY DEF NucSetup
<1>2. /\ xfer'.req = r /\ UNCHANGED got
      /\ IF r.kind = "config" THEN conf' = FALSE /\ waiting' = 0 ELSE UNCHANGED <<conf, waiting>>
  BY <1>1 DEF HostSetup
<1>3. NucHeard
  <2>1. dev.faddr \in {0, Address} /\ dev.assigned \in {0, Address}
    BY DEF NucDevice
  <2> QED BY <1>1, <2>1 DEF NucRecovered, NucAddr, NucHeard, NucAddressInv
<1>4. dev'.setup = r /\ \A f \in {"in1", "buf1", "dap_buffer", "ev2"} : dev'[f] = dev[f]
  BY <1>1, <1>3 DEF NucDevice
<1> QED BY <1>2, <1>4, RequestKinds

\* The host's other control steps leave the debugger's endpoints and the
\* session alone.
LEMMA NucPollsOf ==
  ASSUME dev \in NucDevice, HostInv, NucControlInv,
         NucControlIn \/ NucControlOut \/ NucControlStall \/ NucAbandon
  PROVE  /\ \A f \in {"in1", "buf1", "dap_buffer", "ev2", "setup"} : dev'[f] = dev[f]
         /\ UNCHANGED <<waiting, got>>
         /\ \/ xfer' = None /\ conf' = conf
            \/ NucControlIn /\ dev.setup = None /\ xfer'.req.kind = "get" /\ conf' = conf
            \/ NucControlIn /\ dev.setup = None /\ xfer' = None /\ conf' = (conf \/ Is("config"))
<1>1. CASE NucControlIn
  <2>1. dev.setup = None /\ xfer # None /\ (HostData(dev.in0) \/ HostStatusIn(dev.in0))
    BY <1>1 DEF NucControlIn, NucReady, HostData, HostStatusIn
  <2>2. \A f \in {"in1", "buf1", "dap_buffer", "ev2", "setup"} : dev'[f] = dev[f]
    BY <1>1 DEF NucControlIn, NucDevice
  <2>3. CASE HostData(dev.in0)
    <3>1. xfer'.req = xfer.req /\ xfer.req.kind = "get" /\ conf' = conf /\ UNCHANGED waiting
      BY <2>3, HostDataInv
    <3>2. UNCHANGED got
      BY <2>3 DEF HostData
    <3> QED BY <1>1, <2>1, <2>2, <3>1, <3>2
  <2>4. CASE HostStatusIn(dev.in0)
    <3>1. xfer' = None /\ waiting' = waiting /\ conf' = (conf \/ xfer.req.kind = "config")
      BY <2>4, HostStatusInv
    <3>2. UNCHANGED got
      BY <2>4 DEF HostStatusIn
    <3>3. conf' = (conf \/ Is("config"))
      BY <2>1, <3>1 DEF Is
    <3> QED BY <1>1, <2>1, <2>2, <3>1, <3>2, <3>3
  <2> QED BY <2>1, <2>3, <2>4
<1>2. CASE NucControlOut \/ NucControlStall \/ NucAbandon
  <2>1. xfer' = None /\ UNCHANGED <<conf, waiting, got>>
    BY <1>2 DEF NucControlOut, NucControlStall, NucAbandon, HostStatusOut, HostStalled, HostAbandon
  <2>2. \A f \in {"in1", "buf1", "dap_buffer", "ev2", "setup"} : dev'[f] = dev[f]
    BY <1>2 DEF NucControlOut, NucControlStall, NucAbandon, NucDevice
  <2> QED BY <2>1, <2>2
<1> QED BY <1>1, <1>2

\* What the debugger's endpoints hold stays what their flags say.
LEMMA NucEndpointsStep ==
  ASSUME "nuc121" \in Calm, dev \in NucDevice, HostInv, NucControlInv, NucAddressInv,
         NucSessionInv, NucNext
  PROVE  NucSessionInv'
<1>0. Nuc
  BY Firmware
<1>1. /\ dev.setup # None /\ dev.setup.kind = "config" => ~conf
      /\ Is("config") /\ dev.setup = None => dev.buf1 = None
      /\ conf /\ waiting = 0 /\ ~dev.ev2 => dev.buf1 = None
  BY <1>0 DEF NucSessionInv
<1>2. xfer # None /\ xfer.req.kind = "config" => ~conf
  BY DEF HostInv
<1>3. SUFFICES /\ dev'.setup # None /\ dev'.setup.kind = "config" => ~conf'
               /\ Is("config")' /\ dev'.setup = None => dev'.buf1 = None
               /\ conf' /\ waiting' = 0 /\ ~dev'.ev2 => dev'.buf1 = None
  BY DEF NucSessionInv
<1>4. CASE NucSetup
  <2>1. PICK r \in NucRequests :
           /\ dev'.setup = r /\ r # None /\ \A f \in {"in1", "buf1", "dap_buffer", "ev2"} : dev'[f] = dev[f]
           /\ xfer'.req = r /\ UNCHANGED got
           /\ IF r.kind = "config" THEN conf' = FALSE /\ waiting' = 0 ELSE UNCHANGED <<conf, waiting>>
    BY <1>4, NucSetupOf
  <2>2. CASE r.kind = "config"
    <3>1. conf' = FALSE
      BY <2>1, <2>2
    <3> QED BY <2>1, <3>1
  <2>3. CASE r.kind # "config"
    <3>1. conf' = conf /\ waiting' = waiting
      BY <2>1, <2>3
    <3> QED BY <1>1, <2>1, <2>3, <3>1
  <2> QED BY <2>2, <2>3
<1>5. CASE NucControlIn \/ NucControlOut \/ NucControlStall \/ NucAbandon
  <2>1. /\ \A f \in {"in1", "buf1", "dap_buffer", "ev2", "setup"} : dev'[f] = dev[f]
        /\ UNCHANGED <<waiting, got>>
        /\ \/ xfer' = None /\ conf' = conf
           \/ NucControlIn /\ dev.setup = None /\ xfer'.req.kind = "get" /\ conf' = conf
           \/ NucControlIn /\ dev.setup = None /\ xfer' = None /\ conf' = (conf \/ Is("config"))
    BY <1>5, NucPollsOf
  <2>2. CASE xfer' = None /\ conf' = conf
    BY <1>1, <2>1, <2>2 DEF Is
  <2>3. CASE NucControlIn /\ dev.setup = None /\ xfer'.req.kind = "get" /\ conf' = conf
    BY <1>1, <2>1, <2>3 DEF Is
  <2>4. CASE NucControlIn /\ dev.setup = None /\ xfer' = None /\ conf' = (conf \/ Is("config"))
    <3>1. conf' => conf \/ Is("config")
      BY <2>4
    <3>2. ~Is("config")'
      BY <2>4 DEF Is
    <3> QED BY <1>1, <2>1, <2>4, <3>1, <3>2
  <2> QED BY <2>1, <2>2, <2>3, <2>4
<1>6. CASE NucBusReset
  <2>1. conf' = FALSE /\ xfer' = None
    BY <1>6 DEF NucBusReset, HostReset
  <2> QED BY <2>1 DEF Is
<1>7. CASE NucAsk
  <2>1. conf' = conf /\ conf /\ waiting' = 1 /\ xfer' = xfer
    BY <1>7, HostAskInv DEF NucAsk
  <2>2. dev'.setup = dev.setup
    BY <1>7 DEF NucAsk, NucDevice
  <2> QED BY <1>1, <1>2, <2>1, <2>2 DEF Is
<1>8. CASE NucTake
  <2>1. conf' = conf /\ xfer' = xfer
    BY <1>8, HostTakeInv DEF NucTake
  <2>2. dev'.setup = dev.setup /\ dev'.buf1 = dev.buf1 /\ dev'.ev2
    BY <1>8 DEF NucTake, NucDevice
  <2> QED BY <1>1, <2>1, <2>2 DEF Is
<1>9. CASE NucUsbTask
  <2>1. dev'.buf1 = None /\ dev'.setup = None
    BY <1>9, NucUsbTaskOf
  <2> QED BY <2>1
<1>10. CASE NucVendorHidTask
  <2>1. conf' = conf /\ xfer' = xfer /\ waiting' = waiting
    BY <1>10, HostWaitsInv DEF NucVendorHidTask
  <2>2. dev'.setup = dev.setup /\ dev'.buf1 = dev.buf1 /\ dev'.ev2 = dev.ev2
    BY <1>10 DEF NucVendorHidTask, NucDevice
  <2> QED BY <1>1, <2>1, <2>2 DEF Is
<1> QED
  BY <1>4, <1>5, <1>6, <1>7, <1>8, <1>9, <1>10 DEF NucNext, NucHost

\* A step of host and NUC121 is one of the session, or none.
LEMMA NucSession ==
  ASSUME "nuc121" \in Calm, dev \in NucDevice, dev' \in NucDevice, HostInv,
         NucControlInv, NucAddressInv, NucSessionInv, NucNext
  PROVE  Session!Next \/ UNCHANGED Session!vars
<1> DEFINE a == Held(dev.in1)
           b == Held(dev.dap_buffer)
           c == Held(dev.buf1)
           none == Held(None)
<1>0. /\ dev.in1 \in Cmd \cup {None} /\ dev.dap_buffer \in Cmd \cup {None} /\ dev.buf1 \in Cmd \cup {None}
      /\ None \in Cmd \cup {None}
      /\ waiting \in 0..1 /\ conf \in BOOLEAN /\ (waiting > 0 => conf)
      /\ (dev.setup # None /\ dev.setup.kind = "config" => ~conf)
      /\ (conf /\ waiting = 0 /\ ~dev.ev2 => dev.buf1 = None)
  BY Firmware DEF NucDevice, HostInv, NucSessionInv, DAP_PACKET_COUNT
<1>1. /\ a \in Seq(Cmd) /\ Len(a) = IF dev.in1 = None THEN 0 ELSE 1
      /\ b \in Seq(Cmd) /\ Len(b) = IF dev.dap_buffer = None THEN 0 ELSE 1
      /\ c \in Seq(Cmd) /\ Len(c) = IF dev.buf1 = None THEN 0 ELSE 1
      /\ none = <<>> /\ none \in Seq(Cmd) /\ Len(none) = 0
  BY <1>0, HeldTyped
<1>2. /\ Owed = (a \o b) \o c /\ Leftover = 2
      /\ Owed' = (Held(dev'.in1) \o Held(dev'.dap_buffer)) \o Held(dev'.buf1) /\ Leftover' = Leftover
  BY OwedOf, OwedAfter DEF NucOwed
<1>3. a \o b \in Seq(Cmd) /\ b \o c \in Seq(Cmd) /\ Len(b \o c) = Len(b) + Len(c)
      /\ Len(a \o b) = Len(a) + Len(b)
      /\ none \o b = b /\ b \o none = b /\ a \o none = a /\ none \o c = c /\ c \o none = c
      /\ (a \o b) \o c = a \o (b \o c) /\ (a \o b) \o none = a \o b
  BY <1>1, ConcatProperties, ConcatEmptySeq, ConcatAssociative
<1> HIDE DEF a, b, c, none
<1>4. CASE NucSetup
  <2>1. PICK r \in NucRequests :
           /\ dev'.setup = r /\ r # None /\ \A f \in {"in1", "buf1", "dap_buffer", "ev2"} : dev'[f] = dev[f]
           /\ xfer'.req = r /\ UNCHANGED got
           /\ IF r.kind = "config" THEN conf' = FALSE /\ waiting' = 0 ELSE UNCHANGED <<conf, waiting>>
    BY <1>4, NucSetupOf
  <2>2. Owed' = Owed
    BY <1>2, <2>1 DEF a, b, c
  <2>3. CASE r.kind = "config"
    <3>1. waiting' = 0 /\ got' = got
      BY <2>1, <2>3
    <3>2. Owed = (a \o none) \o (b \o c) /\ Owed' = a \o (b \o c)
      BY <1>2, <1>3, <2>2
    <3> QED BY <1>1, <1>2, <1>3, <3>1, <3>2, Closes
  <2>4. CASE r.kind # "config"
    <3>1. waiting' = waiting /\ got' = got
      BY <2>1, <2>4
    <3> QED BY <1>2, <2>2, <3>1, Unseen
  <2> QED BY <2>3, <2>4
<1>5. CASE NucControlIn \/ NucControlOut \/ NucControlStall \/ NucAbandon
  <2>1. /\ \A f \in {"in1", "buf1", "dap_buffer", "ev2", "setup"} : dev'[f] = dev[f]
        /\ UNCHANGED <<waiting, got>>
    BY <1>5, NucPollsOf
  <2>2. Owed' = Owed
    BY <1>2, <2>1 DEF a, b, c
  <2> QED BY <1>2, <2>1, <2>2, Unseen
<1>6. CASE NucBusReset
  <2>1. waiting' = 0 /\ got' = got
    BY <1>6 DEF NucBusReset, HostReset
  <2>2. (dev'.in1 = dev.in1 \/ dev'.in1 = None) /\ dev'.dap_buffer = dev.dap_buffer /\ dev'.buf1 = dev.buf1
    BY <1>6 DEF NucBusReset, NucDevice
  <2>3. CASE dev'.in1 = dev.in1
    <3>1. Owed = (a \o none) \o (b \o c) /\ Owed' = a \o (b \o c)
      BY <1>2, <1>3, <2>2, <2>3 DEF a, b, c
    <3> QED BY <1>1, <1>2, <1>3, <2>1, <3>1, Closes
  <2>4. CASE dev'.in1 = None
    <3>1. Owed' = (none \o b) \o c
      BY <1>2, <2>2, <2>4 DEF none, b, c
    <3>2. none \o a = a /\ none \o (b \o c) = b \o c
      BY <1>1, <1>3, ConcatEmptySeq
    <3>3. Owed = (none \o a) \o (b \o c) /\ Owed' = none \o (b \o c)
      BY <1>2, <1>3, <3>1, <3>2
    <3> QED BY <1>1, <1>2, <1>3, <2>1, <3>3, Closes
  <2> QED BY <2>2, <2>3, <2>4
<1>7. CASE NucAsk
  <2>1. PICK q \in Cmd : /\ ~dev.ev2 /\ HostAsk /\ dev' = [dev EXCEPT !.out1 = FALSE, !.buf1 = q]
    BY <1>7 DEF NucAsk
  <2>2. conf /\ waiting = 0
    BY <2>1, HostAskInv
  <2>3. dev.buf1 = None
    BY <1>0, <2>1, <2>2
  <2>4. dev'.in1 = dev.in1 /\ dev'.dap_buffer = dev.dap_buffer /\ dev'.buf1 = q
    BY <2>1 DEF NucDevice
  <2>5. q # None /\ Held(q) = <<q>>
    BY HostAssumption DEF Held
  <2>6. c = none
    BY <2>3 DEF c, none
  <2>7. Owed = a \o b /\ Owed' = (a \o b) \o <<q>>
    BY <1>2, <1>3, <2>4, <2>5, <2>6 DEF a, b
  <2>8. Len(a \o b) <= waiting + Leftover
    BY <1>1, <1>2, <1>3, <2>2
  <2> QED BY <1>2, <1>3, <2>1, <2>7, <2>8, Asks
<1>8. CASE NucTake
  <2>1. dev.in1 # None /\ HostTake(dev.in1) /\ dev' = [dev EXCEPT !.in1 = None, !.ev2 = TRUE]
    BY <1>8 DEF NucTake
  <2>2. dev'.in1 = None /\ dev'.dap_buffer = dev.dap_buffer /\ dev'.buf1 = dev.buf1
    BY <2>1 DEF NucDevice
  <2>3. dev.in1 \in Cmd /\ a = <<dev.in1>>
    BY <1>0, <2>1 DEF Held, a
  <2>4. Owed' = (none \o b) \o c
    BY <1>2, <2>2 DEF none, b, c
  <2>5. Owed = <<dev.in1>> \o (b \o c) /\ Owed' = b \o c
    BY <1>2, <1>3, <2>3, <2>4
  <2> QED BY <1>2, <1>3, <2>1, <2>3, <2>5, Answers
<1>9. CASE NucUsbTask
  <2> DEFINE left == IF dev.setup # None /\ dev.setup.kind = "config" THEN None ELSE dev.dap_buffer
  <2>1. /\ dev'.in1 = dev.in1 /\ dev'.buf1 = None
        /\ dev'.dap_buffer = IF dev.buf1 # None THEN dev.buf1 ELSE left
    BY <1>9, NucUsbTaskOf
  <2>2. UNCHANGED <<waiting, got>>
    BY <1>9 DEF NucUsbTask, hostvars
  <2>3. CASE dev.buf1 = None /\ left = dev.dap_buffer
    <3>1. c = none /\ Owed' = (a \o b) \o none
      BY <1>2, <2>1, <2>3 DEF a, b, c, none
    <3> QED BY <1>2, <2>2, <3>1, Unseen
  <2>4. CASE dev.buf1 = None /\ left # dev.dap_buffer
    <3>1. left = None /\ waiting = 0
      BY <1>0, <2>4
    <3>2. c = none /\ Owed' = (a \o none) \o none
      BY <1>2, <2>1, <2>4, <3>1 DEF a, c, none
    <3>3. Owed = (a \o b) \o none /\ Owed' = a \o none
      BY <1>2, <1>3, <3>2
    <3>4. waiting \in Nat /\ waiting <= Len(none)
      BY <1>1, <3>1
    <3> QED BY <1>1, <1>2, <2>2, <3>3, <3>4, Drops
  <2>5. CASE dev.buf1 # None
    <3>1. Owed' = (a \o c) \o none /\ (a \o c) \o none = a \o c
      <4>1. Owed' = (a \o c) \o none
        BY <1>2, <2>1, <2>5 DEF a, c, none
      <4>2. a \o c \in Seq(Cmd)
        BY <1>1, ConcatProperties
      <4> QED BY <1>1, <4>1, <4>2, ConcatEmptySeq
    <3>2. waiting \in Nat /\ waiting <= Len(c)
      BY <1>0, <1>1, <2>5
    <3> QED BY <1>1, <1>2, <2>2, <3>1, <3>2, Drops
  <2> QED BY <2>3, <2>4, <2>5
<1>10. CASE NucVendorHidTask
  <2>1. /\ dev.dap_buffer # None /\ UNCHANGED <<waiting, got>>
        /\ dev'.in1 = dev.dap_buffer /\ dev'.dap_buffer = None /\ dev'.buf1 = dev.buf1
    BY <1>10 DEF NucVendorHidTask, NucDevice, hostvars
  <2>2. Owed' = (b \o none) \o c
    BY <1>2, <2>1 DEF b, c, none
  <2>3. none \o a = a /\ none \o (b \o c) = b \o c
    BY <1>1, <1>3, ConcatEmptySeq
  <2>4. Owed = (none \o a) \o (b \o c) /\ Owed' = none \o (b \o c)
    BY <1>2, <1>3, <2>2, <2>3
  <2>5. waiting \in Nat /\ waiting <= Len(b \o c)
    BY <1>0, <1>1, <1>3, <2>1
  <2> QED BY <1>1, <1>2, <1>3, <2>1, <2>4, <2>5, Drops
<1> QED
  BY <1>4, <1>5, <1>6, <1>7, <1>8, <1>9, <1>10 DEF NucNext, NucHost

-----------------------------------------------------------------------------
(* The SAMD11                                                              *)

\* The endpoints served: a command that has come is answered, a response that
\* has been taken is gone.
LEMMA SamEndpointsIn ==
  ASSUME NEW d \in SamDevice
  PROVE  /\ SamEndpoints(d).buf1 = None /\ SamEndpoints(d).ev1 = FALSE
         /\ SamEndpoints(d).in1 = IF d.buf1 # None THEN d.buf1 ELSE IF d.ev1 THEN None ELSE d.in1
<1> DEFINE e == SamServeIn(d)
<1>1. /\ DOMAIN e = DOMAIN d /\ e.buf1 = d.buf1 /\ e.ev1 = FALSE
      /\ e.in1 = IF d.ev1 THEN None ELSE d.in1
  BY DEF SamServeIn, SamDevice
<1>2. DOMAIN d = {"fw", "dadd", "bus", "setup", "wait", "in0", "out0", "stall0", "in1", "ev1", "out1",
                  "buf1", "toggle", "host"}
  BY DEF SamDevice
<1> HIDE DEF e
<1>3. SamServeOut(e).buf1 = None /\ SamServeOut(e).ev1 = FALSE
      /\ SamServeOut(e).in1 = IF e.buf1 # None THEN e.buf1 ELSE e.in1
  BY <1>1, <1>2 DEF SamServeOut
<1> QED BY <1>1, <1>3 DEF SamEndpoints, e

\* The parts before them leave the debugger's endpoints alone.
LEMMA SamServeKeeps ==
  ASSUME NEW d \in SamDevice
  PROVE  LET e == SamServeSetup(SamServeBus(d))
         IN e \in SamDevice /\ e.in1 = d.in1 /\ e.buf1 = d.buf1 /\ e.ev1 = d.ev1
<1> DEFINE b == SamServeBus(d)
<1>1. b \in SamDevice /\ \A f \in {"in1", "buf1", "ev1"} : b[f] = d[f]
  <2>1. \A f \in {"in1", "buf1", "ev1"} : b[f] = d[f]
    BY DEF SamServeBus, SamDevice
  <2> QED BY <2>1, SamServeTyped
<1> HIDE DEF b
<1>2. SamServeSetup(b) \in SamDevice
      /\ \A f \in {"in1", "buf1", "ev1"} : SamServeSetup(b)[f] = b[f]
  <2>1. \A f \in {"in1", "buf1", "ev1"} : SamServeSetup(b)[f] = b[f]
    BY <1>1 DEF SamServeSetup, SamDevice
  <2> QED BY <1>1, <2>1, SamServeTyped
<1> QED BY <1>1, <1>2 DEF b

\* After the wait, a configuration empties the IN endpoint.
LEMMA SamAnsweredIn ==
  ASSUME NEW d \in SamDevice, d.wait # None
  PROVE  /\ SamAnswered(d) \in SamDevice
         /\ SamAnswered(d).buf1 = d.buf1 /\ SamAnswered(d).ev1 = d.ev1
         /\ SamAnswered(d).in1 = IF d.wait.kind = "config" THEN None ELSE d.in1
<1>1. SamAnswered(d) \in SamDevice
  BY SamServeTyped
<1> DEFINE e == [d EXCEPT !.wait = None]
<1>2. /\ DOMAIN e = {"fw", "dadd", "bus", "setup", "wait", "in0", "out0", "stall0", "in1", "ev1", "out1",
                  "buf1", "toggle", "host"}
      /\ e.in1 = d.in1 /\ e.buf1 = d.buf1 /\ e.ev1 = d.ev1
  BY DEF SamDevice
<1>3. d.wait.kind \in {"address", "config", "get", "unknown", "clear"}
  BY RequestKinds DEF SamDevice
<1> HIDE DEF e
<1>4. CASE d.wait.kind = "address"
  <2>1. SamAnswered(d) = [e EXCEPT !.dadd = d.wait.arg]
    BY <1>4 DEF SamAnswered, e
  <2> QED BY <1>1, <1>2, <1>4, <2>1
<1>5. CASE d.wait.kind = "config"
  <2>1. SamAnswered(d) = SamConfigured(e)
    BY <1>5 DEF SamAnswered, e
  <2> QED BY <1>1, <1>2, <1>5, <2>1 DEF SamConfigured
<1>6. CASE d.wait.kind \notin {"address", "config"}
  <2>1. SamAnswered(d) = e
    BY <1>6 DEF SamAnswered, e
  <2> QED BY <1>1, <1>2, <1>6, <2>1
<1> QED BY <1>3, <1>4, <1>5, <1>6

\* A response that has been taken is not put back.
LEMMA SamEndpointsStep ==
  ASSUME dev \in SamDevice, SamReplyInv, SamNext
  PROVE  SamReplyInv'
<1>1. dev.ev1 => dev.in1 = None
  BY Firmware DEF SamReplyInv
<1>2. SUFFICES dev'.ev1 => dev'.in1 = None
  BY DEF SamReplyInv
<1>3. CASE SamSetup
  <2>1. dev'.ev1 = dev.ev1 /\ dev'.in1 = dev.in1
    BY <1>3 DEF SamSetup, SamDevice
  <2> QED BY <1>1, <2>1
<1>4. CASE SamPolls \/ SamAbandon
  <2>1. dev'.ev1 = dev.ev1 /\ dev'.in1 = dev.in1
    BY <1>4 DEF SamPolls, SamControlIn, SamControlOut, SamControlStall, SamAbandon, SamDevice
  <2> QED BY <1>1, <2>1
<1>5. CASE SamBusReset
  <2>1. dev'.ev1 = dev.ev1 /\ (dev'.in1 = dev.in1 \/ dev'.in1 = None)
    BY <1>5 DEF SamBusReset, SamDevice
  <2> QED BY <1>1, <2>1
<1>6. CASE SamAsk
  <2>1. dev'.ev1 = dev.ev1 /\ dev'.in1 = dev.in1
    BY <1>6 DEF SamAsk, SamDevice
  <2> QED BY <1>1, <2>1
<1>7. CASE SamTake
  <2>1. dev'.in1 = None
    BY <1>7 DEF SamTake, SamDevice
  <2> QED BY <2>1
<1>8. CASE SamHandler
  <2> DEFINE d == SamServeSetup(SamServeBus(dev))
  <2>1. d \in SamDevice /\ d.in1 = dev.in1 /\ d.buf1 = dev.buf1 /\ d.ev1 = dev.ev1
    BY SamServeKeeps
  <2>2. dev' = IF d.wait = None THEN SamEndpoints(d) ELSE d
    BY <1>8 DEF SamHandler
  <2> HIDE DEF d
  <2>3. CASE d.wait = None
    BY <2>1, <2>2, <2>3, SamEndpointsIn
  <2>4. CASE d.wait # None
    BY <1>1, <2>1, <2>2, <2>4
  <2> QED BY <2>3, <2>4
<1>9. CASE SamWaited
  <2>1. dev.wait # None /\ dev' = SamEndpoints(SamAnswered(dev))
    BY <1>9 DEF SamWaited, SamTaken
  <2>2. SamAnswered(dev) \in SamDevice
    BY <2>1, SamAnsweredIn
  <2> QED BY <2>1, <2>2, SamEndpointsIn
<1> QED
  BY <1>3, <1>4, <1>5, <1>6, <1>7, <1>8, <1>9 DEF SamNext, SamHost

\* A step of host and SAMD11 is one of the session, or none.
LEMMA SamSession ==
  ASSUME "samd11" \in Calm, dev \in SamDevice, dev' \in SamDevice, HostInv,
         SamControlInv, SamSessionInv, SamReplyInv, SamNext
  PROVE  Session!Next \/ UNCHANGED Session!vars
<1> DEFINE a == Held(dev.in1)
           c == Held(dev.buf1)
           none == Held(None)
<1>0. /\ dev.in1 \in Cmd \cup {None} /\ dev.buf1 \in Cmd \cup {None} /\ None \in Cmd \cup {None}
      /\ waiting \in 0..1 /\ conf \in BOOLEAN /\ (waiting > 0 => conf)
      /\ (dev.ev1 => dev.in1 = None)
  BY Firmware DEF SamDevice, HostInv, SamReplyInv, DAP_PACKET_COUNT
<1>1. /\ a \in Seq(Cmd) /\ Len(a) = IF dev.in1 = None THEN 0 ELSE 1
      /\ c \in Seq(Cmd) /\ Len(c) = IF dev.buf1 = None THEN 0 ELSE 1
      /\ none = <<>> /\ none \in Seq(Cmd) /\ Len(none) = 0
  BY <1>0, HeldTyped
<1>2. /\ Owed = a \o c /\ Leftover = 0
      /\ Owed' = Held(dev'.in1) \o Held(dev'.buf1) /\ Leftover' = Leftover
  BY OwedOf, OwedAfter DEF SamOwed
<1>3. a \o none = a /\ none \o a = a /\ none \o c = c /\ c \o none = c /\ none \o none = none
      /\ a \o c \in Seq(Cmd) /\ (a \o c) \o none = a \o c /\ none \o (a \o c) = a \o c
  BY <1>1, ConcatProperties, ConcatEmptySeq
<1> HIDE DEF a, c, none
<1>4. CASE SamSetup
  <2>1. PICK r \in SamRequests :
          /\ HostSetup(r, SamCare(r))
          /\ \A f \in {"in1", "buf1"} : dev'[f] = dev[f]
    BY <1>4 DEF SamSetup, SamDevice
  <2>2. Owed' = a \o c
    BY <1>2, <2>1 DEF a, c
  <2>3. got' = got /\ (waiting' = 0 \/ waiting' = waiting)
    BY <2>1 DEF HostSetup
  <2>4. CASE waiting' = 0
    <3>1. Owed = (a \o none) \o c
      BY <1>2, <1>3
    <3> QED BY <1>1, <1>2, <2>2, <2>3, <2>4, <3>1, Closes
  <2>5. CASE waiting' = waiting
    BY <1>2, <2>2, <2>3, <2>5, Unseen
  <2> QED BY <2>3, <2>4, <2>5
<1>5. CASE SamPolls \/ SamAbandon
  <2>1. UNCHANGED <<waiting, got>>
    BY <1>5 DEF SamPolls, SamControlIn, SamControlOut, SamControlStall, SamAbandon,
       HostData, HostStatusIn, HostStatusOut, HostStalled, HostAbandon
  <2>2. \A f \in {"in1", "buf1"} : dev'[f] = dev[f]
    BY <1>5 DEF SamPolls, SamControlIn, SamControlOut, SamControlStall, SamAbandon, SamDevice
  <2>3. Owed' = Owed
    BY <1>2, <2>2 DEF a, c
  <2> QED BY <1>2, <2>1, <2>3, Unseen
<1>6. CASE SamBusReset
  <2>1. waiting' = 0 /\ got' = got
    BY <1>6 DEF SamBusReset, HostReset
  <2>2. /\ dev'.in1 = dev.in1 \/ dev'.in1 = None
        /\ dev'.buf1 = dev.buf1 \/ dev'.buf1 = None
    BY <1>6 DEF SamBusReset, SamDevice
  <2>3. Owed' \in {a \o c, a \o none, none \o c, none \o none}
    BY <1>2, <2>2 DEF a, c, none
  <2>4. CASE Owed' = a \o c
    <3>1. Owed = (a \o none) \o c
      BY <1>2, <1>3
    <3> QED BY <1>1, <1>2, <2>1, <2>4, <3>1, Closes
  <2>5. CASE Owed' = a \o none
    <3>1. Owed = (a \o c) \o none
      BY <1>2, <1>3
    <3> QED BY <1>1, <1>2, <2>1, <2>5, <3>1, Closes
  <2>6. CASE Owed' = none \o c
    <3>1. Owed = (none \o a) \o c
      BY <1>2, <1>3
    <3> QED BY <1>1, <1>2, <2>1, <2>6, <3>1, Closes
  <2>7. CASE Owed' = none \o none
    <3>1. Owed = (none \o (a \o c)) \o none
      BY <1>2, <1>3
    <3> QED BY <1>1, <1>2, <1>3, <2>1, <2>7, <3>1, Closes
  <2> QED BY <2>3, <2>4, <2>5, <2>6, <2>7
<1>7. CASE SamAsk
  <2>1. PICK q \in Cmd :
          /\ ~SamTaken /\ HostAsk
          /\ dev' = IF dev.toggle[ToDevice] = dev.host[ToDevice]
                    THEN [dev EXCEPT !.out1 = FALSE, !.buf1 = q,
                                     !.toggle[ToDevice] = 1 - @, !.host[ToDevice] = 1 - @]
                    ELSE [dev EXCEPT !.host[ToDevice] = 1 - @]
    BY <1>7 DEF SamAsk
  <2>2. conf /\ waiting = 0
    BY <2>1, HostAskInv
  <2>3. ~SamConfiguring
    BY <2>1, <2>2 DEF SamTaken, SamConfiguring, SamSessionInv
  <2>4. dev.toggle = dev.host /\ dev.in1 = None /\ dev.buf1 = None
    BY <2>2, <2>3 DEF SamSessionInv
  <2>5. dev' = [dev EXCEPT !.out1 = FALSE, !.buf1 = q,
                           !.toggle[ToDevice] = 1 - @, !.host[ToDevice] = 1 - @]
    BY <2>1, <2>4
  <2>6. dev'.in1 = None /\ dev'.buf1 = q
    BY <2>4, <2>5 DEF SamDevice
  <2>7. q # None /\ Held(q) = <<q>>
    BY HostAssumption DEF Held
  <2>8. a = none /\ c = none
    BY <2>4 DEF a, c, none
  <2>9. Owed = none /\ Owed' = none \o <<q>>
    BY <1>2, <1>3, <2>6, <2>7, <2>8 DEF none
  <2>10. Len(none) <= waiting + Leftover
    BY <1>1, <1>2, <2>2
  <2> QED BY <1>1, <1>2, <2>1, <2>9, <2>10, Asks
<1>8. CASE SamTake
  <2>1. /\ dev.in1 # None
        /\ IF dev.toggle[ToHost] = dev.host[ToHost]
           THEN HostTake(dev.in1) ELSE waiting > 0 /\ UNCHANGED hostvars
        /\ \A f \in {"in1", "buf1"} : dev'[f] = IF f = "in1" THEN None ELSE dev[f]
    BY <1>8 DEF SamTake, SamDevice
  <2>2. conf /\ waiting > 0
    BY <1>0, <2>1 DEF HostTake
  <2>3. dev.toggle = dev.host
    BY <2>2 DEF SamSessionInv
  <2>4. HostTake(dev.in1)
    BY <2>1, <2>3
  <2>5. dev.in1 \in Cmd /\ a = <<dev.in1>>
    BY <1>0, <2>1 DEF Held, a
  <2>6. Owed = <<dev.in1>> \o c /\ Owed' = none \o c
    BY <1>2, <2>1, <2>5 DEF none, c
  <2> QED BY <1>1, <1>2, <1>3, <2>4, <2>5, <2>6, Answers
<1>9. CASE SamHandler \/ SamWaited
  <2>1. UNCHANGED <<waiting, got>>
    BY <1>9 DEF SamHandler, SamWaited, hostvars
  <2>2. \/ dev'.in1 = dev.in1 /\ dev'.buf1 = dev.buf1
        \/ dev.buf1 # None /\ dev'.in1 = dev.buf1 /\ dev'.buf1 = None
        \/ dev.buf1 = None /\ dev'.in1 = None /\ dev'.buf1 = None /\ (waiting = 0 \/ dev.in1 = None)
    <3>1. CASE SamHandler
      <4> DEFINE d == SamServeSetup(SamServeBus(dev))
      <4>1. d \in SamDevice /\ d.in1 = dev.in1 /\ d.buf1 = dev.buf1 /\ d.ev1 = dev.ev1
        BY SamServeKeeps
      <4>2. dev' = IF d.wait = None THEN SamEndpoints(d) ELSE d
        BY <3>1 DEF SamHandler
      <4> HIDE DEF d
      <4>3. CASE d.wait = None
        BY <1>0, <4>1, <4>2, <4>3, SamEndpointsIn
      <4>4. CASE d.wait # None
        BY <4>1, <4>2, <4>4
      <4> QED BY <4>3, <4>4
    <3>2. CASE SamWaited
      <4> DEFINE d == SamAnswered(dev)
      <4>1. dev.wait # None /\ dev' = SamEndpoints(d)
        BY <3>2 DEF SamWaited, SamTaken
      <4>2. /\ d \in SamDevice /\ d.buf1 = dev.buf1 /\ d.ev1 = dev.ev1
            /\ d.in1 = IF dev.wait.kind = "config" THEN None ELSE dev.in1
        BY <4>1, SamAnsweredIn
      <4> HIDE DEF d
      <4>3. dev'.buf1 = None /\ dev'.in1 = IF d.buf1 # None THEN d.buf1 ELSE IF d.ev1 THEN None ELSE d.in1
        BY <4>1, <4>2, SamEndpointsIn
      <4>4. dev.wait.kind = "config" => waiting = 0
        BY <1>0, <4>1 DEF SamSessionInv, SamConfiguring
      <4> QED BY <1>0, <4>2, <4>3, <4>4
    <3> QED BY <1>9, <3>1, <3>2
  <2>3. CASE dev'.in1 = dev.in1 /\ dev'.buf1 = dev.buf1
    <3>1. Owed' = Owed
      BY <1>2, <2>3 DEF a, c
    <3> QED BY <1>2, <2>1, <3>1, Unseen
  <2>4. CASE dev.buf1 # None /\ dev'.in1 = dev.buf1 /\ dev'.buf1 = None
    <3>1. Owed = (none \o a) \o c /\ Owed' = none \o c
      <4>1. Owed' = c \o none
        BY <1>2, <2>4 DEF c, none
      <4> QED BY <1>2, <1>3, <4>1
    <3>2. waiting \in Nat /\ waiting <= Len(c)
      BY <1>0, <1>1, <2>4
    <3> QED BY <1>1, <1>2, <2>1, <3>1, <3>2, Drops
  <2>5. CASE dev.buf1 = None /\ dev'.in1 = None /\ dev'.buf1 = None /\ dev.in1 = None
    <3>1. Owed' = Owed
      BY <1>2, <2>5 DEF a, c
    <3> QED BY <1>2, <2>1, <3>1, Unseen
  <2>6. CASE dev.buf1 = None /\ dev'.in1 = None /\ dev'.buf1 = None /\ waiting = 0
    <3>1. Owed = (none \o a) \o c /\ Owed' = none \o c
      BY <1>2, <1>3, <2>6 DEF none, c
    <3>2. waiting \in Nat /\ waiting <= Len(c)
      BY <1>1, <2>6
    <3> QED BY <1>1, <1>2, <2>1, <3>1, <3>2, Drops
  <2> QED BY <2>2, <2>3, <2>4, <2>5, <2>6
<1> QED
  BY <1>4, <1>5, <1>6, <1>7, <1>8, <1>9 DEF SamNext, SamHost

-----------------------------------------------------------------------------
(* The STM32                                                               *)

\* What interrupt and main loop do with the commands: nothing, or one is
\* passed on to the main loop, or a response is sent; only a configuration and
\* a reset empty the IN endpoint.
LEMMA StmMoves ==
  ASSUME dev \in StmDevice, HostInv, StmControlInv, StmOnePlace, StmFreshSession,
         StmInterrupt \/ StmService \/ StmServiced
  PROVE  /\ UNCHANGED <<waiting, got>>
         /\ \/ \A f \in {"in1", "message", "buf1"} : dev'[f] = dev[f]
            \/ /\ dev'.in1 = dev.in1 /\ dev.message = None /\ dev'.message = dev.buf1
               /\ dev'.buf1 = None
            \/ /\ dev'.in1 = None /\ waiting = 0
               /\ \A f \in {"message", "buf1"} : dev'[f] = dev[f]
            \/ /\ dev.message # None /\ dev'.in1 = dev.message /\ dev'.message = None
               /\ dev.buf1 = None /\ dev'.buf1 = None
<1> USE DEF StmControlInv, StmOnePlace, StmFreshSession
<1>1. UNCHANGED <<waiting, got>>
  BY DEF StmInterrupt, StmControl, StmCommand, StmReset, StmService, StmServiced, hostvars
<1>2. waiting \in Nat /\ (~conf => waiting = 0)
  BY DEF HostInv, DAP_PACKET_COUNT
<1>3. CASE dev.setup # None /\ dev' = StmServeSetup(dev)
  <2>1. /\ dev.in0 = None /\ dev.setup # ClearHalt(ToHost)
        /\ (dev.setup.kind = "config" => dev.state # "configured" /\ ~dev.lock)
    BY <1>3
  <2>2. /\ dev'.buf1 = dev.buf1 /\ dev'.message = dev.message
        /\ dev'.in1 = dev.in1 \/ dev'.in1 = None
        /\ dev.setup.kind # "config" => dev'.in1 = dev.in1
    BY <1>3, <2>1, StmServeSetupOf
  <2>3. dev.setup.kind = "config" => ~conf
    BY <1>3, <2>1
  <2> QED BY <1>1, <1>2, <2>2, <2>3
<1>4. CASE dev.setup = None /\ dev' = StmServeOut(dev)
  <2>1. \A f \in {"in1", "message", "buf1"} : dev'[f] = dev[f]
    BY <1>4 DEF StmServeOut, StmDevice
  <2> QED BY <1>1, <2>1
<1>5. CASE dev.setup = None /\ dev.sent /\ dev' = StmServeIn(dev)
  <2>1. dev.in0 = None
    BY <1>5
  <2>2. dev'.buf1 = dev.buf1 /\ dev'.message = dev.message /\ dev'.in1 = dev.in1
    BY <1>5, <2>1, StmServeInOf
  <2> QED BY <1>1, <2>2
<1>6. CASE StmCommand
  <2>1. dev.buf1 # None /\ dev.setup = None /\ dev.state = "configured" /\ dev.message = None /\ ~dev.lock
    BY <1>6 DEF StmCommand, StmControlDone
  <2>2. dev' = [[dev EXCEPT !.buf1 = None] EXCEPT !.out1 = TRUE, !.message = dev.buf1]
    BY <1>6, <2>1 DEF StmCommand, StmServeCommand, StmAsks, StmDevice
  <2>3. dev'.buf1 = None /\ dev'.message = dev.buf1 /\ dev'.in1 = dev.in1
    BY <2>2 DEF StmDevice
  <2> QED BY <1>1, <2>1, <2>3
<1>7. CASE StmReset
  <2> DEFINE e == [dev EXCEPT !.bus = FALSE, !.state = "default"]
             g == [e EXCEPT !.daddr = 0, !.out0 = TRUE, !.in0 = None, !.in1 = None,
                            !.out1 = FALSE, !.refused = FALSE]
             h == [e EXCEPT !.refused = TRUE]
  <2>1. dev.bus
    BY <1>7 DEF StmReset
  <2>2. dev' \in {g, h}
    BY <1>7 DEF StmReset, StmServeBus, StmAsks
  <2>3. /\ \A f \in {"message", "buf1"} : g[f] = dev[f] /\ h[f] = dev[f]
        /\ g.in1 = None /\ h.in1 = dev.in1
    BY DEF StmDevice
  <2> HIDE DEF g, h
  <2>4. waiting = 0
    BY <1>2, <2>1
  <2> QED BY <1>1, <2>2, <2>3, <2>4
<1>8. CASE StmService
  <2>1. \A f \in {"in1", "message", "buf1"} : dev'[f] = dev[f]
    BY <1>8 DEF StmService, StmDevice
  <2> QED BY <1>1, <2>1
<1>9. CASE StmServiced
  <2>1. dev.message # None /\ dev.buf1 = None
    BY <1>9 DEF StmServiced
  <2>2. dev'.in1 = dev.message /\ dev'.message = None /\ dev'.buf1 = dev.buf1
    BY <1>9 DEF StmServiced, StmDevice
  <2> QED BY <1>1, <2>1, <2>2
<1> QED
  BY <1>3, <1>4, <1>5, <1>6, <1>7, <1>8, <1>9 DEF StmInterrupt, StmControl

\* A step of host and STM32 is one of the session, or none.
LEMMA StmSession ==
  ASSUME dev \in StmDevice, dev' \in StmDevice, HostInv,
         StmControlInv, StmOnePlace, StmFreshSession, StmNext
  PROVE  Session!Next \/ UNCHANGED Session!vars
<1> DEFINE a == Held(dev.in1)
           b == Held(dev.message)
           c == Held(dev.buf1)
           none == Held(None)
<1>0. /\ dev.in1 \in Cmd \cup {None} /\ dev.message \in Cmd \cup {None} /\ dev.buf1 \in Cmd \cup {None}
      /\ None \in Cmd \cup {None}
      /\ waiting \in 0..1 /\ conf \in BOOLEAN /\ (waiting > 0 => conf)
  BY DEF StmDevice, HostInv, DAP_PACKET_COUNT
<1>1. /\ a \in Seq(Cmd) /\ Len(a) = IF dev.in1 = None THEN 0 ELSE 1
      /\ b \in Seq(Cmd) /\ Len(b) = IF dev.message = None THEN 0 ELSE 1
      /\ c \in Seq(Cmd) /\ Len(c) = IF dev.buf1 = None THEN 0 ELSE 1
      /\ none = <<>> /\ none \in Seq(Cmd) /\ Len(none) = 0
  BY <1>0, HeldTyped
<1>2. /\ Owed = (a \o b) \o c /\ Leftover = 0
      /\ Owed' = (Held(dev'.in1) \o Held(dev'.message)) \o Held(dev'.buf1) /\ Leftover' = Leftover
  BY OwedOf, OwedAfter DEF StmOwed
<1>3. a \o b \in Seq(Cmd) /\ b \o c \in Seq(Cmd) /\ a \o c \in Seq(Cmd)
      /\ none \o b = b /\ b \o none = b /\ a \o none = a /\ none \o a = a /\ none \o c = c /\ c \o none = c
      /\ none \o (b \o c) = b \o c /\ none \o none = none
      /\ (a \o b) \o c = a \o (b \o c) /\ (a \o b) \o none = a \o b /\ (a \o c) \o none = a \o c
  <2> HIDE DEF a, b, c, none
  <2>1. a \o b \in Seq(Cmd) /\ b \o c \in Seq(Cmd) /\ a \o c \in Seq(Cmd)
    BY <1>1, ConcatProperties
  <2>2. \A s \in Seq(Cmd) : s \o none = s /\ none \o s = s
    BY <1>1, ConcatEmptySeq
  <2>3. (a \o b) \o c = a \o (b \o c)
    BY <1>1, ConcatAssociative
  <2> QED BY <1>1, <2>1, <2>2, <2>3
<1> HIDE DEF a, b, c, none
<1>4. CASE StmSetup
  <2>1. PICK r \in StmRequests :
          /\ HostSetup(r, StmCare(r))
          /\ \A f \in {"in1", "message", "buf1"} : dev'[f] = dev[f]
    BY <1>4 DEF StmSetup, StmDevice
  <2>2. Owed' = a \o (b \o c)
    BY <1>2, <1>3, <2>1 DEF a, b, c
  <2>3. got' = got /\ (waiting' = 0 \/ waiting' = waiting)
    BY <2>1 DEF HostSetup
  <2>4. CASE waiting' = 0
    <3>1. Owed = (a \o none) \o (b \o c)
      BY <1>2, <1>3
    <3> QED BY <1>1, <1>2, <1>3, <2>2, <2>3, <2>4, <3>1, Closes
  <2>5. CASE waiting' = waiting
    BY <1>2, <1>3, <2>2, <2>3, <2>5, Unseen
  <2> QED BY <2>3, <2>4, <2>5
<1>5. CASE StmPolls \/ StmAbandon
  <2>1. UNCHANGED <<waiting, got>>
    BY <1>5 DEF StmPolls, StmControlIn, StmControlOut, StmControlStall, StmAbandon,
       HostData, HostStatusIn, HostStatusOut, HostStalled, HostAbandon
  <2>2. \A f \in {"in1", "message", "buf1"} : dev'[f] = dev[f]
    BY <1>5 DEF StmPolls, StmControlIn, StmControlOut, StmControlStall, StmAbandon, StmDevice
  <2>3. Owed' = Owed
    BY <1>2, <2>2 DEF a, b, c
  <2> QED BY <1>2, <2>1, <2>3, Unseen
<1>6. CASE StmBusReset
  <2>1. waiting' = 0 /\ got' = got
    BY <1>6 DEF StmBusReset, HostReset
  <2>2. dev'.in1 = None /\ dev'.message = dev.message /\ dev'.buf1 = dev.buf1
    BY <1>6 DEF StmBusReset, StmDevice
  <2>3. Owed' = (none \o b) \o c
    BY <1>2, <2>2 DEF none, b, c
  <2>4. Owed = (none \o a) \o (b \o c) /\ Owed' = none \o (b \o c)
    BY <1>2, <1>3, <2>3
  <2> QED BY <1>1, <1>2, <1>3, <2>1, <2>4, Closes
<1>7. CASE StmAsk
  <2>1. PICK q \in Cmd : HostAsk /\ dev' = [dev EXCEPT !.out1 = FALSE, !.buf1 = q]
    BY <1>7 DEF StmAsk
  <2>2. conf /\ waiting = 0
    BY <2>1, HostAskInv
  <2>3. dev.in1 = None /\ dev.message = None /\ dev.buf1 = None
    BY <2>2 DEF StmOnePlace
  <2>4. dev'.in1 = None /\ dev'.message = None /\ dev'.buf1 = q
    BY <2>1, <2>3 DEF StmDevice
  <2>5. q # None /\ Held(q) = <<q>>
    BY HostAssumption DEF Held
  <2>6. a = none /\ b = none /\ c = none
    BY <2>3 DEF a, b, c, none
  <2>7. Owed = none /\ Owed' = none \o <<q>>
    BY <1>2, <1>3, <2>4, <2>5, <2>6 DEF none
  <2>8. Len(none) <= waiting + Leftover
    BY <1>1, <1>2, <2>2
  <2> QED BY <1>1, <1>2, <2>1, <2>7, <2>8, Asks
<1>8. CASE StmTake
  <2>1. dev.in1 # None /\ HostTake(dev.in1) /\ dev' = [dev EXCEPT !.in1 = None]
    BY <1>8 DEF StmTake
  <2>2. dev'.in1 = None /\ dev'.message = dev.message /\ dev'.buf1 = dev.buf1
    BY <2>1 DEF StmDevice
  <2>3. dev.in1 \in Cmd /\ a = <<dev.in1>>
    BY <1>0, <2>1 DEF Held, a
  <2>4. Owed' = (none \o b) \o c
    BY <1>2, <2>2 DEF none, b, c
  <2>5. Owed = <<dev.in1>> \o (b \o c) /\ Owed' = b \o c
    BY <1>2, <1>3, <2>3, <2>4
  <2> QED BY <1>2, <1>3, <2>1, <2>3, <2>5, Answers
<1>9. CASE StmInterrupt \/ StmService \/ StmServiced
  <2>1. UNCHANGED <<waiting, got>>
    BY <1>9, StmMoves
  <2>2. \/ \A f \in {"in1", "message", "buf1"} : dev'[f] = dev[f]
        \/ dev'.in1 = dev.in1 /\ dev.message = None /\ dev'.message = dev.buf1 /\ dev'.buf1 = None
        \/ dev'.in1 = None /\ waiting = 0 /\ \A f \in {"message", "buf1"} : dev'[f] = dev[f]
        \/ /\ dev.message # None /\ dev'.in1 = dev.message /\ dev'.message = None
           /\ dev.buf1 = None /\ dev'.buf1 = None
    BY <1>9, StmMoves
  <2>3. CASE \A f \in {"in1", "message", "buf1"} : dev'[f] = dev[f]
    <3>1. Owed' = Owed
      BY <1>2, <2>3 DEF a, b, c
    <3> QED BY <1>2, <2>1, <3>1, Unseen
  <2>4. CASE dev'.in1 = dev.in1 /\ dev.message = None /\ dev'.message = dev.buf1 /\ dev'.buf1 = None
    <3>1. b = none /\ Owed' = (a \o c) \o none
      BY <1>2, <2>4 DEF a, b, c, none
    <3>2. Owed' = Owed
      BY <1>2, <1>3, <3>1
    <3> QED BY <1>2, <2>1, <3>2, Unseen
  <2>5. CASE dev'.in1 = None /\ waiting = 0 /\ \A f \in {"message", "buf1"} : dev'[f] = dev[f]
    <3>1. Owed' = (none \o b) \o c
      BY <1>2, <2>5 DEF b, c, none
    <3>2. Owed = (none \o a) \o (b \o c) /\ Owed' = none \o (b \o c)
      BY <1>2, <1>3, <3>1
    <3>3. waiting \in Nat /\ waiting <= Len(b \o c)
      BY <1>3, <2>5, LenProperties
    <3> QED BY <1>1, <1>2, <1>3, <2>1, <3>2, <3>3, Drops
  <2>6. CASE /\ dev.message # None /\ dev'.in1 = dev.message /\ dev'.message = None
             /\ dev.buf1 = None /\ dev'.buf1 = None
    <3>1. c = none /\ Owed' = (b \o none) \o none
      BY <1>2, <2>6 DEF b, c, none
    <3>2. (none \o a) \o b = a \o b /\ (a \o b) \o none = a \o b
      BY <1>3
    <3>3. Owed = (none \o a) \o b /\ Owed' = none \o b
      BY <1>2, <1>3, <3>1, <3>2
    <3>4. waiting \in Nat /\ waiting <= Len(b)
      BY <1>0, <1>1, <2>6
    <3> QED BY <1>1, <1>2, <2>1, <3>3, <3>4, Drops
  <2> QED BY <2>2, <2>3, <2>4, <2>5, <2>6
<1> QED
  BY <1>4, <1>5, <1>6, <1>7, <1>8, <1>9 DEF StmNext, StmHost

-----------------------------------------------------------------------------
(* The PIC16                                                               *)

\* The oldest token served: only CLEAR_FEATURE touches the debugger's endpoints.
LEMMA PicTokenEndpoints ==
  ASSUME dev \in PicDevice, PicTokens(dev), ~dev.bus, dev.tokens # <<>>, dev' = PicServeToken(dev)
  PROVE  \/ \A f \in {"in1", "out1", "buf1"} : dev'[f] = dev[f]
         \/ /\ dev.setup # None /\ dev.setup.kind = "clear"
            /\ dev'.in1 = None \/ dev'.in1 = dev.in1
            /\ \/ dev'.out1 /\ dev'.buf1 = None
               \/ dev'.out1 = dev.out1 /\ dev'.buf1 = dev.buf1
<1> DEFINE e == [dev EXCEPT !.tokens = Tail(dev.tokens)]
<1>1. dev.tokens \in Seq({"setup", "in", "out"})
  BY DEF PicDevice
<1>2. Head(dev.tokens) \in {"setup", "in", "out"} /\ Tail(dev.tokens) \in Seq({"setup", "in", "out"})
  BY <1>1
<1>3. e \in PicDevice /\ e.setup = dev.setup /\ \A f \in {"in1", "out1", "buf1"} : e[f] = dev[f]
  <2>1. e \in PicDevice
    BY <1>2 DEF PicDevice
  <2>2. e.setup = dev.setup /\ \A f \in {"in1", "out1", "buf1"} : e[f] = dev[f]
    BY DEF PicDevice
  <2> QED BY <2>1, <2>2
<1>4. CASE Head(dev.tokens) = "setup"
  <2> DEFINE a == PicServeSetup(e)
  <2>1. dev' = a
    BY <1>4 DEF PicServeToken
  <2>2. dev.setup # None
    <3>1. 1 \in 1..Len(dev.tokens) /\ dev.tokens[1] = "setup"
      BY <1>1, <1>4
    <3> QED BY <3>1 DEF PicTokens
  <2> HIDE DEF e
  <2>3. e.setup # None
    BY <1>3, <2>2
  <2>4. /\ IF e.setup.kind = "clear" /\ e.setup.arg = ToHost THEN a.in1 = None /\ a.tx_dts = 0
           ELSE a.in1 = e.in1 /\ a.tx_dts = e.tx_dts
        /\ IF e.setup.kind = "clear" /\ e.setup.arg # ToHost
           THEN a.out1 /\ a.buf1 = None /\ a.dts = 0 /\ a.rx_dts = 1
           ELSE \A f \in {"out1", "buf1", "dts", "rx_dts"} : a[f] = e[f]
    BY <1>3, <2>3, PicServeSetupOf, Zenon
  <2> HIDE DEF a
  <2> QED BY <1>3, <2>1, <2>2, <2>4
<1>5. CASE Head(dev.tokens) = "out"
  <2>1. dev' = PicServeEp0Out(e)
    BY <1>5 DEF PicServeToken
  <2> HIDE DEF e
  <2> QED BY <1>3, <2>1, PicServeTakenOf
<1>6. CASE Head(dev.tokens) = "in"
  <2>1. dev' = PicServeEp0In(e)
    BY <1>6 DEF PicServeToken
  <2> HIDE DEF e
  <2> QED BY <1>3, <2>1, PicServeTakenOf
<1> QED BY <1>2, <1>4, <1>5, <1>6

\* And a pass of usb_service.
LEMMA PicServiceEndpoints ==
  ASSUME dev \in PicDevice, PicTokens(dev), PicUsbService
  PROVE  \/ dev.bus /\ dev'.in1 = None /\ dev'.out1 /\ dev'.buf1 = None
         \/ \A f \in {"in1", "out1", "buf1"} : dev'[f] = dev[f]
         \/ /\ ~dev.bus /\ dev.setup # None /\ dev.setup.kind = "clear"
            /\ dev'.in1 = None \/ dev'.in1 = dev.in1
            /\ \/ dev'.out1 /\ dev'.buf1 = None
               \/ dev'.out1 = dev.out1 /\ dev'.buf1 = dev.buf1
<1>1. CASE dev.bus
  <2>1. PicServeBus(dev).tokens = <<>>
    BY <1>1 DEF PicServeBus, PicDevice
  <2>2. dev' = PicServeBus(dev)
    BY <2>1 DEF PicUsbService, PicServeToken
  <2> QED BY <1>1, <2>2 DEF PicServeBus, PicDevice
<1>2. CASE ~dev.bus
  <2>1. PicServeBus(dev) = dev
    BY <1>2 DEF PicServeBus
  <2>2. dev' = PicServeToken(dev) /\ dev' # dev
    BY <2>1 DEF PicUsbService
  <2>3. dev.tokens # <<>>
    BY <2>2 DEF PicServeToken
  <2> QED BY <1>2, <2>2, <2>3, PicTokenEndpoints
<1> QED BY <1>1, <1>2

\* The rest of the pass: the command in the buffer becomes the response to it.
LEMMA PicMainEndpoints ==
  ASSUME dev \in PicDevice, PicTokens(dev), PicMain
  PROVE  /\ dev.in1 = None /\ dev.buf1 \in Cmd
         /\ dev'.in1 # None /\ dev'.in1.cmd = dev.buf1 /\ dev'.out1 /\ dev'.buf1 = None
<1>1. ~dev.out1 /\ dev.in1 = None /\ dev.buf1 \in Cmd
  BY DEF PicMain, PicTokens, PicDevice
<1> DEFINE b == [cmd |-> dev.buf1, dts |-> dev.tx_dts]
           e == [dev EXCEPT !.in1 = b, !.tx_dts = 1 - dev.tx_dts]
<1>2. b # None /\ b.cmd = dev.buf1
  BY <1>1, HostAssumption DEF PicDevice
<1>3. dev' = [e EXCEPT !.out1 = TRUE, !.buf1 = None, !.dts = e.rx_dts, !.rx_dts = 1 - e.rx_dts]
  BY DEF PicMain, PicArm
<1> HIDE DEF b
<1>4. dev'.in1 = b /\ dev'.out1 = TRUE /\ dev'.buf1 = None
  BY <1>3 DEF PicDevice
<1> QED BY <1>1, <1>2, <1>4

\* An armed buffer stays without a command.
LEMMA PicEndpointsStep ==
  ASSUME dev \in PicDevice, PicTokens(dev), PicArmedInv, PicNext
  PROVE  PicArmedInv'
<1>1. dev.out1 => dev.buf1 = None
  BY Firmware DEF PicArmedInv
<1>2. SUFFICES dev'.out1 => dev'.buf1 = None
  BY DEF PicArmedInv
<1>3. CASE PicSetup \/ PicPolls \/ PicAbandon \/ PicBusReset \/ PicTake
  <2>1. dev'.out1 = dev.out1 /\ dev'.buf1 = dev.buf1
    <3>1. CASE PicSetup
      BY <3>1 DEF PicSetup, PicDevice
    <3>2. CASE PicPolls \/ PicAbandon
      BY <3>2 DEF PicPolls, PicControlIn, PicControlOut, PicControlStall, PicAbandon, PicDevice
    <3>3. CASE PicBusReset
      BY <3>3 DEF PicBusReset, PicDevice
    <3>4. CASE PicTake
      BY <3>4 DEF PicTake, PicDevice
    <3> QED BY <1>3, <3>1, <3>2, <3>3, <3>4
  <2> QED BY <1>1, <2>1
<1>4. CASE PicAsk
  <2>1. \/ dev'.out1 = FALSE
        \/ dev'.out1 = dev.out1 /\ dev'.buf1 = dev.buf1
    BY <1>4 DEF PicAsk, PicDevice
  <2> QED BY <1>1, <2>1
<1>5. CASE PicUsbService
  BY <1>1, <1>5, PicServiceEndpoints
<1>6. CASE PicMain
  BY <1>6, PicMainEndpoints
<1> QED
  BY <1>3, <1>4, <1>5, <1>6 DEF PicNext, PicHost

\* A step of host and PIC16 is one of the session, or none.
LEMMA PicSession ==
  ASSUME dev \in PicDevice, PicTokens(dev), dev' \in PicDevice, HostInv,
         PicControlInv, PicSessionInv, PicArmedInv, PicNext
  PROVE  Session!Next \/ UNCHANGED Session!vars
<1> DEFINE a == IF dev.in1 = None THEN <<>> ELSE <<dev.in1.cmd>>
           c == Held(dev.buf1)
           none == Held(None)
<1>0. /\ dev.in1 # None => dev.in1.cmd \in Cmd
      /\ dev.buf1 \in Cmd \cup {None} /\ None \in Cmd \cup {None}
      /\ waiting \in 0..1 /\ conf \in BOOLEAN /\ (waiting > 0 => conf)
      /\ (dev.out1 => dev.buf1 = None)
  BY Firmware DEF PicDevice, HostInv, PicArmedInv, DAP_PACKET_COUNT
<1>1. /\ a \in Seq(Cmd) /\ (dev.in1 = None => a = none)
      /\ c \in Seq(Cmd) /\ (dev.buf1 = None => c = none)
      /\ none = <<>> /\ none \in Seq(Cmd) /\ Len(none) = 0
  BY <1>0, HeldTyped
<1>2. /\ Owed = a \o c /\ Leftover = 0
      /\ Owed' = (IF dev'.in1 = None THEN <<>> ELSE <<dev'.in1.cmd>>) \o Held(dev'.buf1)
      /\ Leftover' = Leftover
  BY OwedOf, OwedAfter DEF PicOwed
<1>3. a \o none = a /\ none \o a = a /\ none \o c = c /\ c \o none = c /\ none \o none = none
      /\ a \o c \in Seq(Cmd) /\ (a \o c) \o none = a \o c /\ none \o (a \o c) = a \o c
  BY <1>1, ConcatProperties, ConcatEmptySeq
<1>4. dev'.in1 = dev.in1 /\ dev'.buf1 = dev.buf1 => Owed' = Owed
  BY <1>2
<1>5. dev'.in1 = None /\ dev'.buf1 = None => Owed' = none
  BY <1>1, <1>2, <1>3
<1> HIDE DEF a, c, none
<1>6. CASE PicSetup
  <2>1. PICK r \in PicRequests :
          /\ HostSetup(r, r.kind = "config" => ~dev.configured)
          /\ \A f \in {"in1", "buf1"} : dev'[f] = dev[f]
    BY <1>6 DEF PicSetup, PicDevice
  <2>2. got' = got /\ (waiting' = 0 \/ waiting' = waiting)
    BY <2>1 DEF HostSetup
  <2>3. CASE waiting' = 0
    <3>1. Owed = (a \o none) \o c /\ Owed' = a \o c
      BY <1>2, <1>3, <1>4, <2>1
    <3> QED BY <1>1, <1>2, <2>2, <2>3, <3>1, Closes
  <2>4. CASE waiting' = waiting
    BY <1>2, <1>4, <2>1, <2>2, <2>4, Unseen
  <2> QED BY <2>2, <2>3, <2>4
<1>7. CASE PicPolls \/ PicAbandon
  <2>1. UNCHANGED <<waiting, got>>
    BY <1>7 DEF PicPolls, PicControlIn, PicControlOut, PicControlStall, PicAbandon,
       HostData, HostStatusIn, HostStatusOut, HostStalled, HostAbandon
  <2>2. \A f \in {"in1", "buf1"} : dev'[f] = dev[f]
    BY <1>7 DEF PicPolls, PicControlIn, PicControlOut, PicControlStall, PicAbandon, PicDevice
  <2> QED BY <1>2, <1>4, <2>1, <2>2, Unseen
<1>8. CASE PicBusReset
  <2>1. waiting' = 0 /\ got' = got
    BY <1>8 DEF PicBusReset, HostReset
  <2>2. dev'.in1 = dev.in1 /\ dev'.buf1 = dev.buf1
    BY <1>8 DEF PicBusReset, PicDevice
  <2>3. Owed = (a \o none) \o c /\ Owed' = a \o c
    BY <1>2, <1>3, <1>4, <2>2
  <2> QED BY <1>1, <1>2, <2>1, <2>3, Closes
<1>9. CASE PicAsk
  <2>1. PICK q \in Cmd :
          /\ PicHeard /\ dev.out1 /\ HostAsk
          /\ dev' = IF dev.hout = dev.dts
                    THEN [dev EXCEPT !.out1 = FALSE, !.buf1 = q, !.hout = 1 - @]
                    ELSE [dev EXCEPT !.hout = 1 - @]
    BY <1>9 DEF PicAsk
  <2>2. conf /\ waiting = 0 /\ ~Is("clear")
    BY <2>1, HostAskInv
  <2>3. dev.in1 = None /\ dev.buf1 = None /\ dev.hout = dev.dts
    BY <1>0, <2>1, <2>2 DEF PicSessionInv
  <2>4. dev' = [dev EXCEPT !.out1 = FALSE, !.buf1 = q, !.hout = 1 - @]
    BY <2>1, <2>3
  <2>5. dev'.in1 = None /\ dev'.buf1 = q
    BY <2>3, <2>4 DEF PicDevice
  <2>6. Held(q) = <<q>>
    BY HostAssumption DEF Held
  <2>7. Owed = none /\ Owed' = none \o <<q>>
    <3>1. Owed' = <<>> \o Held(dev'.buf1)
      BY <1>2, <2>5
    <3>2. Owed' = none \o <<q>>
      BY <1>1, <2>5, <2>6, <3>1
    <3> QED BY <1>1, <1>2, <1>3, <2>3, <3>2
  <2>8. Len(none) <= waiting + Leftover
    BY <1>1, <1>2, <2>2
  <2> QED BY <1>1, <1>2, <2>1, <2>7, <2>8, Asks
<1>10. CASE PicTake
  <2>1. /\ dev.in1 # None
        /\ IF dev.in1.dts = dev.hin
           THEN HostTake(dev.in1.cmd) ELSE waiting > 0 /\ UNCHANGED hostvars
        /\ dev'.in1 = None /\ dev'.buf1 = dev.buf1
    BY <1>10 DEF PicTake, PicDevice
  <2>2. conf /\ ~Is("clear")
    BY <1>0, <2>1 DEF HostTake, PicSessionInv
  <2>3. dev.in1.dts = dev.hin
    BY <2>1, <2>2 DEF PicSessionInv
  <2>4. HostTake(dev.in1.cmd)
    BY <2>1, <2>3
  <2>5. dev.in1.cmd \in Cmd /\ a = <<dev.in1.cmd>>
    BY <1>0, <2>1 DEF a
  <2>6. Owed = <<dev.in1.cmd>> \o c /\ Owed' = c
    <3>1. Owed' = <<>> \o c
      BY <1>2, <2>1 DEF c
    <3> QED BY <1>1, <1>2, <1>3, <2>5, <3>1
  <2> QED BY <1>1, <1>2, <2>4, <2>5, <2>6, Answers
<1>11. CASE PicUsbService
  <2>1. UNCHANGED <<waiting, got>>
    BY <1>11 DEF PicUsbService, hostvars
  <2>2. CASE \A f \in {"in1", "out1", "buf1"} : dev'[f] = dev[f]
    BY <1>2, <1>4, <2>1, <2>2, Unseen
  <2>3. CASE dev.bus /\ dev'.in1 = None /\ dev'.out1 /\ dev'.buf1 = None
    <3>1. waiting = 0
      BY <1>0, <2>3 DEF PicControlInv
    <3>2. Owed = (none \o (a \o c)) \o none /\ Owed' = none \o none
      BY <1>2, <1>3, <1>5, <2>3
    <3>3. waiting \in Nat /\ waiting <= Len(none)
      BY <1>1, <3>1
    <3> QED BY <1>1, <1>2, <1>3, <2>1, <3>2, <3>3, Drops
  <2>4. CASE /\ ~dev.bus /\ dev.setup # None /\ dev.setup.kind = "clear"
             /\ dev'.in1 = None \/ dev'.in1 = dev.in1
             /\ \/ dev'.out1 /\ dev'.buf1 = None
                \/ dev'.out1 = dev.out1 /\ dev'.buf1 = dev.buf1
    <3>1. Is("clear")
      BY <2>4 DEF PicControlInv, Is
    <3>2. dev.in1 = None /\ dev.buf1 = None
      BY <1>0, <3>1 DEF PicSessionInv
    <3>3. dev'.in1 = dev.in1 /\ dev'.buf1 = dev.buf1
      BY <2>4, <3>2
    <3> QED BY <1>2, <1>4, <2>1, <3>3, Unseen
  <2> QED BY <1>11, <2>2, <2>3, <2>4, PicServiceEndpoints
<1>12. CASE PicMain
  <2>1. UNCHANGED <<waiting, got>>
    BY <1>12 DEF PicMain, hostvars
  <2>2. /\ dev.in1 = None /\ dev.buf1 \in Cmd
        /\ dev'.in1 # None /\ dev'.in1.cmd = dev.buf1 /\ dev'.out1 /\ dev'.buf1 = None
    BY <1>12, PicMainEndpoints
  <2>3. c = <<dev.buf1>>
    BY <2>2, HostAssumption DEF c, Held
  <2>4. Owed = c
    BY <1>1, <1>2, <1>3, <2>2
  <2>5. Owed' = c \o none
    BY <1>2, <2>2, <2>3 DEF none
  <2> QED BY <1>2, <1>3, <2>1, <2>4, <2>5, Unseen
<1> QED
  BY <1>6, <1>7, <1>8, <1>9, <1>10, <1>11, <1>12 DEF PicNext, PicHost

-----------------------------------------------------------------------------
(* The theorems                                                            *)

\* With the care its code depends on, the NUC121 starts a session, and waits for
\* a command, with nothing in its OUT endpoint (usb_task, usb_configuration_callback).
THEOREM NucEndpoints ==
  ASSUME "nuc121" \in Calm
  PROVE  Spec => []NucSessionInv
<1>1. Init => NucSessionInv
  <2> SUFFICES ASSUME Init, Nuc PROVE NucSessionInv
    BY DEF NucSessionInv
  <2>1. NucInit /\ HostInit
    BY DEF Init, Nuc, SamInit, PicInit, StmInit
  <2>2. ~conf
    BY <2>1, Zenon DEF HostInit
  <2> QED BY <2>1, <2>2 DEF HostInit, NucInit, NucSessionInv, Is
<1>2. ASSUME DeviceTypes, DeviceTypes', Nuc => HostInv /\ NucInv, NucSessionInv, [Next]_usbvars
      PROVE  NucSessionInv'
  <2>1. CASE UNCHANGED usbvars
    <3>1. (conf = conf')
      BY <2>1, Zenon DEF usbvars, hostvars
    <3> QED BY <1>2, <2>1, <3>1 DEF usbvars, hostvars, NucSessionInv, Nuc, Is
  <2>2. CASE NucNext
    <3>1. dev \in NucDevice /\ HostInv /\ NucControlInv /\ NucAddressInv
      BY <1>2, <2>2, Firmware DEF DeviceTypes, NucInv
    <3> QED BY <1>2, <2>2, <3>1, NucEndpointsStep
  <2>3. CASE SamNext \/ PicNext \/ StmNext
    <3>1. ~Nuc'
      BY <1>2, <2>3, Firmware, FirmwareAfter, SamTyped, PicTyped, StmTyped DEF DeviceTypes
    <3> QED BY <3>1 DEF NucSessionInv
  <2> QED BY <1>2, <2>1, <2>2, <2>3 DEF Next
<1>3. Spec => []DeviceTypes
  BY DeviceFields
<1>4. Spec => [](Nuc => HostInv /\ NucInv)
  BY NucInvariant
<1> QED BY <1>1, <1>2, <1>3, <1>4, PTL DEF Spec

\* A response the SAMD11's host has taken is not in its IN endpoint any more
\* (udc_reset_endpoint, usb_send_callback), whatever the host does.
THEOREM SamEndpointsKept == Spec => []SamReplyInv
<1>1. Init => SamReplyInv
  <2> SUFFICES ASSUME Init, Sam PROVE SamReplyInv
    BY DEF SamReplyInv
  <2>1. SamInit
    BY DEF Init, Sam, NucInit, PicInit, StmInit
  <2> QED BY <2>1 DEF SamInit, SamReplyInv
<1>2. ASSUME DeviceTypes, SamReplyInv, [Next]_usbvars
      PROVE  SamReplyInv'
  <2>1. CASE UNCHANGED usbvars
    BY <1>2, <2>1 DEF usbvars, SamReplyInv, Sam
  <2>2. CASE SamNext
    <3>1. dev \in SamDevice
      BY <1>2, <2>2, Firmware DEF DeviceTypes
    <3> QED BY <1>2, <2>2, <3>1, SamEndpointsStep
  <2>3. CASE NucNext \/ PicNext \/ StmNext
    <3>1. ~Sam'
      BY <1>2, <2>3, Firmware, FirmwareAfter, NucTyped, PicTyped, StmTyped DEF DeviceTypes
    <3> QED BY <3>1 DEF SamReplyInv
  <2> QED BY <1>2, <2>1, <2>2, <2>3 DEF Next
<1>3. Spec => []DeviceTypes
  BY DeviceFields
<1> QED BY <1>1, <1>2, <1>3, PTL DEF Spec

\* The PIC16's OUT buffer is the peripheral's only when it holds no command
\* (usb_arm_out_endpoint), whatever the host does.
THEOREM PicArmed == Spec => []PicArmedInv
<1>1. Init => PicArmedInv
  <2> SUFFICES ASSUME Init, Pic PROVE PicArmedInv
    BY DEF PicArmedInv
  <2>1. PicInit
    BY DEF Init, Pic, NucInit, SamInit, StmInit
  <2> QED BY <2>1 DEF PicInit, PicArmedInv
<1>2. ASSUME DeviceTypes, PicArmedInv, [Next]_usbvars
      PROVE  PicArmedInv'
  <2>1. CASE UNCHANGED usbvars
    BY <1>2, <2>1 DEF usbvars, PicArmedInv, Pic
  <2>2. CASE PicNext
    <3>1. dev \in PicDevice /\ PicTokens(dev)
      BY <1>2, <2>2, Firmware DEF DeviceTypes
    <3> QED BY <1>2, <2>2, <3>1, PicEndpointsStep
  <2>3. CASE NucNext \/ SamNext \/ StmNext
    <3>1. ~Pic'
      BY <1>2, <2>3, Firmware, FirmwareAfter, NucTyped, SamTyped, StmTyped DEF DeviceTypes
    <3> QED BY <3>1 DEF PicArmedInv
  <2> QED BY <1>2, <2>1, <2>2, <2>3 DEF Next
<1>3. Spec => []DeviceTypes
  BY DeviceFields
<1> QED BY <1>1, <1>2, <1>3, PTL DEF Spec

\* With care, whichever firmware the device runs, it and the host mean the same
\* transfer, address and command.
THEOREM SessionsAgree ==
  ASSUME {"nuc121", "samd11", "pic16", "stm32f0x2"} \subseteq Calm
  PROVE  Spec => []SessionsInv
<1>0. "nuc121" \in Calm /\ "samd11" \in Calm /\ "pic16" \in Calm /\ "stm32f0x2" \in Calm
  OBVIOUS
<1>1. ASSUME DeviceTypes, Nuc => HostInv /\ NucInv, Sam => HostInv /\ SamInv,
             Pic => HostInv /\ PicInv, Stm => HostInv /\ StmInv,
             NucSessionInv, SamReplyInv, PicArmedInv
      PROVE  SessionsInv
  <2>1. Nuc \/ Sam \/ Pic \/ Stm
    BY <1>1, Firmware DEF DeviceTypes
  <2>2. NucInv /\ SamInv /\ PicInv /\ StmInv
    BY <1>1 DEF NucInv, SamInv, PicInv, StmInv
  <2> QED BY <1>1, <2>1, <2>2 DEF SessionsInv, EndpointsInv
<1>2. Spec => []DeviceTypes
  BY DeviceFields
<1>3. Spec => [](Nuc => HostInv /\ NucInv)
  BY <1>0, NucInvariant
<1>4. Spec => [](Sam => HostInv /\ SamInv)
  BY <1>0, SamInvariant
<1>5. Spec => [](Pic => HostInv /\ PicInv)
  BY <1>0, PicInvariant
<1>6. Spec => [](Stm => HostInv /\ StmInv)
  BY <1>0, StmInvariant
<1>7. Spec => []NucSessionInv
  BY <1>0, NucEndpoints
<1> QED BY <1>1, <1>2, <1>3, <1>4, <1>5, <1>6, <1>7, SamEndpointsKept, PicArmed, PTL

\* At power-up no command is owed.
LEMMA SessionStart == Init => Session!Init
<1> SUFFICES ASSUME Init PROVE Session!Init
  OBVIOUS
<1>1. HostInit /\ DeviceTypes
  BY DeviceStart DEF Init
<1>2. Held(None) = <<>>
  BY DEF Held
<1>3. <<>> \o <<>> = <<>> /\ (<<>> \o <<>>) \o <<>> = <<>>
  OBVIOUS
<1>4. Leftover \in Nat
  BY DEF Leftover
<1>5. Owed = <<>>
  <2>1. CASE NucInit
    <3>1. Nuc /\ dev.in1 = None /\ dev.dap_buffer = None /\ dev.buf1 = None
      BY <2>1 DEF NucInit, Nuc
    <3>2. Owed = NucOwed
      BY <1>1, <3>1, OwedOf, Firmware DEF DeviceTypes
    <3> QED BY <1>2, <1>3, <3>1, <3>2 DEF NucOwed
  <2>2. CASE SamInit
    <3>1. Sam /\ dev.in1 = None /\ dev.buf1 = None
      BY <2>2 DEF SamInit, Sam
    <3>2. Owed = SamOwed
      BY <1>1, <3>1, OwedOf, Firmware DEF DeviceTypes
    <3> QED BY <1>2, <1>3, <3>1, <3>2 DEF SamOwed
  <2>3. CASE PicInit
    <3>1. Pic /\ dev.in1 = None /\ dev.buf1 = None
      BY <2>3 DEF PicInit, Pic
    <3>2. Owed = PicOwed
      BY <1>1, <3>1, OwedOf, Firmware DEF DeviceTypes
    <3> QED BY <1>2, <1>3, <3>1, <3>2 DEF PicOwed
  <2>4. CASE StmInit
    <3>1. Stm /\ dev.in1 = None /\ dev.message = None /\ dev.buf1 = None
      BY <2>4 DEF StmInit, Stm
    <3>2. Owed = StmOwed
      BY <1>1, <3>1, OwedOf, Firmware DEF DeviceTypes
    <3> QED BY <1>2, <1>3, <3>1, <3>2 DEF StmOwed
  <2> QED BY <2>1, <2>2, <2>3, <2>4 DEF Init
<1> QED BY <1>1, <1>4, <1>5 DEF HostInit, Session!Init

\* Every step of host and device is one of the session, or none.
LEMMA SessionStep ==
  ASSUME {"nuc121", "samd11", "pic16", "stm32f0x2"} \subseteq Calm,
         SessionsInv, [Next]_usbvars
  PROVE  Session!Next \/ UNCHANGED Session!vars
<1>0. "nuc121" \in Calm /\ "samd11" \in Calm /\ "pic16" \in Calm /\ "stm32f0x2" \in Calm
  OBVIOUS
<1>1. DeviceTypes /\ HostInv /\ NucSessionInv /\ SamReplyInv /\ PicArmedInv
      /\ (Nuc => NucControlInv /\ NucAddressInv) /\ (Sam => SamControlInv /\ SamSessionInv)
      /\ (Pic => PicControlInv /\ PicSessionInv)
      /\ (Stm => StmControlInv /\ StmOnePlace /\ StmFreshSession)
  BY DEF SessionsInv, EndpointsInv, NucInv, SamInv, PicInv, StmInv
<1>2. CASE UNCHANGED usbvars
  <2>1. dev' = dev /\ UNCHANGED <<waiting, got>>
    BY <1>2 DEF usbvars, hostvars
  <2>2. Owed' = Owed /\ Leftover' = Leftover
    BY <2>1 DEF Owed, Leftover, NucOwed, SamOwed, PicOwed, StmOwed, Nuc, Sam, Pic, Stm
  <2> QED BY <2>1, <2>2, Unseen
<1>3. CASE NucNext
  <2>1. Nuc /\ dev \in NucDevice
    BY <1>1, <1>3, Firmware DEF DeviceTypes
  <2> QED BY <1>0, <1>1, <1>3, <2>1, NucTyped, NucSession
<1>4. CASE SamNext
  <2>1. Sam /\ dev \in SamDevice
    BY <1>1, <1>4, Firmware DEF DeviceTypes
  <2> QED BY <1>0, <1>1, <1>4, <2>1, SamTyped, SamSession
<1>5. CASE PicNext
  <2>1. Pic /\ dev \in PicDevice /\ PicTokens(dev)
    BY <1>1, <1>5, Firmware DEF DeviceTypes
  <2> QED BY <1>1, <1>5, <2>1, PicTyped, PicSession
<1>6. CASE StmNext
  <2>1. Stm /\ dev \in StmDevice
    BY <1>1, <1>6, Firmware DEF DeviceTypes
  <2> QED BY <1>1, <1>6, <2>1, StmTyped, StmSession
<1> QED BY <1>2, <1>3, <1>4, <1>5, <1>6 DEF Next

\* With care, whichever firmware the device runs, a command is answered by the
\* response to it, whatever resets and configurations came before.
THEOREM SessionKept ==
  ASSUME {"nuc121", "samd11", "pic16", "stm32f0x2"} \subseteq Calm
  PROVE  Spec => SessionContract
<1>1. Init => Session!Init
  BY SessionStart
<1>2. SessionsInv /\ [Next]_usbvars => [Session!Next]_(Session!vars)
  BY SessionStep
<1>3. Spec => []SessionsInv
  BY SessionsAgree
<1> QED BY <1>1, <1>2, <1>3, PTL DEF Spec, SessionContract, Session!Spec

-----------------------------------------------------------------------------
(* The host's moves                                                        *)

\* The sizes of a request.
LEMMA RequestSizes ==
  ASSUME NEW r \in Requests
  PROVE  r.want \in Nat /\ r.arg \in Nat /\ (r.kind # "get" => r.want = 0)
BY HostAssumption DEF Requests, SetAddress, SetConfig, Unknown, GetDesc, ClearHalt, ToDevice, ToHost

\* A packet of a request, from where its data are sent on: as much as endpoint 0
\* takes, and no more than there are.
LEMMA PacketOf ==
  ASSUME NEW r \in Requests, NEW k \in 0..Total(r)
  PROVE  LET l == Packet(r, k).len
         IN /\ Packet(r, k).req = r /\ Packet(r, k).from = k
            /\ l \in 0..MaxPacket0 /\ k + l \in 0..Total(r)
            /\ l < MaxPacket0 => k + l = Total(r)
            /\ k + l >= r.want => k + l = Total(r)
<1>1. r.want \in Nat /\ r.arg \in Nat
  BY RequestSizes
<1>2. Total(r) \in Nat /\ Total(r) <= r.want
  BY <1>1 DEF Total
<1>3. Packet(r, k).req = r /\ Packet(r, k).from = k
      /\ Packet(r, k).len = IF MaxPacket0 < Total(r) - k THEN MaxPacket0 ELSE Total(r) - k
  BY DEF Packet, Smaller
<1> QED BY <1>1, <1>2, <1>3, HostAssumption

\* A request without data has none to send, and is answered by an empty packet.
LEMMA NoData ==
  ASSUME NEW r \in Requests
  PROVE  /\ Total(r) \in Nat /\ 0 \in 0..Total(r)
         /\ r.kind # "get" => Total(r) = 0 /\ Zero(r) = Packet(r, 0)
<1>1. /\ r.want \in Nat /\ r.arg \in Nat
      /\ r.kind # "get" => r.want = 0
  BY RequestSizes
<1>2. Total(r) \in Nat /\ (r.kind # "get" => Total(r) = 0)
  BY <1>1 DEF Total
<1>3. Total(r) = 0 => Smaller(MaxPacket0, Total(r) - 0) = 0
  BY HostAssumption DEF Smaller
<1>4. Total(r) = 0 => Zero(r) = Packet(r, 0)
  BY <1>3 DEF Zero, Packet
<1> QED BY <1>2, <1>4

\* What the device's packets may bring about at the host, and what the host does
\* by itself.
Begins(r) ==
  /\ xfer = None
  /\ xfer' = [req |-> r, n |-> 0, last |-> None,
              stage |-> IF r.kind = "get" THEN "data" ELSE "status"]
  /\ outcome' = "none" /\ hostaddr' = hostaddr
  /\ r.kind = "config" => hostaddr # 0

HostMoves ==
  \/ UNCHANGED <<xfer, outcome, hostaddr>>
  \/ \E r \in Requests : Begins(r)
  \/ HostData(Packet(xfer.req, xfer.n))
  \/ xfer # None /\ xfer.req.kind # "unknown" /\ \E p \in Packets : HostStatusIn(p)
  \/ HostStatusOut
  \/ (Is("unknown") \/ Lost) /\ HostStalled
  \/ xfer # None /\ xfer' = None /\ outcome' = "none" /\ hostaddr' = hostaddr
  \/ xfer' = None /\ outcome' = "none" /\ hostaddr' = 0

\* A transfer under way, by its fields.
LEMMA TransferUnderWay ==
  ASSUME HostInv, xfer # None
  PROVE  /\ DOMAIN xfer = {"req", "n", "last", "stage"} /\ xfer.req \in Requests
         /\ xfer.stage \in {"data", "status"}
         /\ xfer.stage = "data" => xfer.req.kind = "get"
BY DEF HostInv

\* The next packet of the data, told field by field.
LEMMA NextData ==
  ASSUME HostInv, HostTransferInv, HostData(Packet(xfer.req, xfer.n))
  PROVE  LET l == Packet(xfer.req, xfer.n).len
             n == xfer.n + l
         IN /\ xfer # None /\ xfer.stage = "data" /\ xfer.req.kind = "get"
            /\ xfer'.req = xfer.req /\ xfer'.n = n
            /\ xfer' = [req |-> xfer.req, n |-> n, last |-> Packet(xfer.req, xfer.n),
                        stage |-> IF n < xfer.req.want /\ l = MaxPacket0 THEN "data" ELSE "status"]
            /\ UNCHANGED <<outcome, hostaddr>>
<1> DEFINE p == Packet(xfer.req, xfer.n)
           s == IF p.len < MaxPacket0 \/ xfer.n + p.len >= xfer.req.want THEN "status" ELSE "data"
           t == IF xfer.n + p.len < xfer.req.want /\ p.len = MaxPacket0 THEN "data" ELSE "status"
<1>1. /\ xfer # None /\ xfer.stage = "data"
      /\ xfer' = [xfer EXCEPT !.n = xfer.n + p.len, !.last = p, !.stage = s]
      /\ UNCHANGED <<outcome, hostaddr>>
  BY DEF HostData
<1>2. DOMAIN xfer = {"req", "n", "last", "stage"} /\ xfer.req \in Requests /\ xfer.req.kind = "get"
  BY <1>1, TransferUnderWay
<1>3. xfer.n \in 0..Total(xfer.req)
  BY <1>1 DEF HostTransferInv
<1>4. p.len \in 0..MaxPacket0 /\ xfer.req.want \in Nat /\ xfer.n \in Nat
  <2>1. xfer.req.want \in Nat
    BY <1>2, RequestSizes
  <2> QED BY <1>2, <1>3, <2>1, PacketOf
<1>5. s = t
  BY <1>4, HostAssumption
<1> HIDE DEF p, s, t
<1>6. xfer' = [req |-> xfer.req, n |-> xfer.n + p.len, last |-> p, stage |-> t]
  BY <1>1, <1>2, <1>5
<1> QED BY <1>1, <1>2, <1>6 DEF p, t

\* They leave the data that have come what they are.
LEMMA MovesKeepData ==
  ASSUME HostInv, HostTransferInv, HostMoves
  PROVE  HostTransferInv'
<1>1. CASE UNCHANGED <<xfer, outcome, hostaddr>>
  BY <1>1 DEF HostTransferInv
<1>2. CASE \E r \in Requests : Begins(r)
  <2>1. PICK r \in Requests : Begins(r)
    BY <1>2
  <2>2. /\ xfer'.req = r /\ xfer'.n = 0 /\ hostaddr' = hostaddr /\ (r.kind = "config" => hostaddr # 0)
        /\ xfer'.stage = IF r.kind = "get" THEN "data" ELSE "status"
    BY <2>1 DEF Begins
  <2> QED BY <2>2, NoData DEF HostTransferInv
<1>3. CASE HostData(Packet(xfer.req, xfer.n))
  <2> DEFINE l == Packet(xfer.req, xfer.n).len
             n == xfer.n + l
  <2>1. /\ xfer # None /\ xfer'.req = xfer.req /\ xfer'.n = n
        /\ xfer'.stage = IF n < xfer.req.want /\ l = MaxPacket0 THEN "data" ELSE "status"
        /\ xfer.req.kind = "get"
    BY <1>3, NextData
  <2>2. xfer.req \in Requests /\ xfer.n \in 0..Total(xfer.req)
    BY <2>1, TransferUnderWay DEF HostTransferInv
  <2>3. /\ l \in 0..MaxPacket0 /\ n \in 0..Total(xfer.req)
        /\ l < MaxPacket0 => n = Total(xfer.req)
        /\ n >= xfer.req.want => n = Total(xfer.req)
    BY <2>2, PacketOf
  <2>4. xfer.req.want \in Nat
    BY <2>2, RequestSizes
  <2>5. xfer'.stage = "status" => n = Total(xfer.req)
    <3> HIDE DEF l, n
    <3>1. n \in Nat /\ l \in Nat
      BY <2>2, <2>3, NoData
    <3> QED BY <2>1, <2>3, <2>4, <3>1, HostAssumption
  <2> HIDE DEF l, n
  <2> QED BY <2>1, <2>3, <2>5 DEF HostTransferInv
<1>4. CASE xfer' = None
  BY <1>4 DEF HostTransferInv
<1> QED BY <1>1, <1>2, <1>3, <1>4 DEF HostMoves, HostStatusIn, HostStatusOut, HostStalled

\* Each is one of the contract's, with the address the host means.
LEMMA MovesPromised ==
  ASSUME HostInv, HostTransferInv, HostMoves, Addr = hostaddr, Addr' = hostaddr', ~Lost, Lost' = Lost
  PROVE  Control!Next \/ UNCHANGED Control!vars
<1>0. /\ Control!Start => Control!Next
      /\ Control!Data => Control!Next
      /\ Control!Acknowledge => Control!Next
      /\ Control!Refuse => Control!Next
      /\ Control!Abandon => Control!Next
      /\ Control!Reset => Control!Next
  BY DEF Control!Next
<1>1. CASE UNCHANGED <<xfer, outcome, hostaddr>>
  BY <1>1 DEF Control!vars
<1>2. CASE \E r \in Requests : Begins(r)
  <2>1. PICK r \in Requests : Begins(r)
    BY <1>2
  <2> DEFINE x == [req |-> r, n |-> 0, last |-> None,
                   stage |-> IF r.kind = "get" THEN "data" ELSE "status"]
  <2>2. xfer = None /\ xfer' = x /\ outcome' = "none" /\ Addr' = Addr
    BY <2>1 DEF Begins
  <2>3. x # None
    <3>1. x \in [req : Requests, n : {0}, last : {None}, stage : {"data", "status"}]
      OBVIOUS
    <3> QED BY <3>1, HostAssumption
  <2>4. x.n = 0 /\ x.last = None /\ x.stage = (IF x.req.kind = "get" THEN "data" ELSE "status")
    OBVIOUS
  <2> HIDE DEF x
  <2>5. Control!Start
    BY <2>2, <2>3, <2>4 DEF Control!Start
  <2> QED BY <1>0, <2>5
<1>3. CASE HostData(Packet(xfer.req, xfer.n))
  <2> DEFINE p == Packet(xfer.req, xfer.n)
  <2>1. /\ xfer # None /\ xfer.stage = "data"
        /\ xfer' = [req |-> xfer.req, n |-> xfer.n + p.len, last |-> p,
                    stage |-> IF xfer.n + p.len < xfer.req.want /\ p.len = MaxPacket0
                              THEN "data" ELSE "status"]
        /\ UNCHANGED <<outcome, hostaddr>>
    BY <1>3, NextData
  <2>2. Control!Offer(xfer.req) = Total(xfer.req)
    <3>1. xfer.req \in Requests
      BY <2>1, TransferUnderWay
    <3>2. xfer.req.want \in Nat /\ xfer.req.arg \in Nat
      BY <3>1, RequestSizes
    <3> QED BY <3>2 DEF Control!Offer, Control!Least, Total
  <2>3. p.len = Control!Least(MaxPacket0, Control!Offer(xfer.req) - xfer.n)
    BY <2>2 DEF Packet, Smaller, Control!Least
  <2>4. p = [req |-> xfer.req, from |-> xfer.n, len |-> p.len]
    BY DEF Packet
  <2> HIDE DEF p
  <2>5. Control!Data
    <3> DEFINE len == Control!Least(MaxPacket0, Control!Offer(xfer.req) - xfer.n)
    <3>1. xfer' = [req |-> xfer.req, n |-> xfer.n + len,
                   last |-> [req |-> xfer.req, from |-> xfer.n, len |-> len],
                   stage |-> IF xfer.n + len < xfer.req.want /\ len = MaxPacket0
                             THEN "data" ELSE "status"]
      BY <2>1, <2>3, <2>4
    <3>2. outcome' = outcome /\ Addr' = Addr
      BY <2>1
    <3> QED BY <2>1, <3>1, <3>2, Zenon DEF Control!Data
  <2> QED BY <1>0, <2>5
<1>4. CASE xfer # None /\ xfer.req.kind # "unknown" /\ \E p \in Packets : HostStatusIn(p)
  <2>1. /\ xfer # None /\ xfer.stage = "status" /\ xfer.req.kind # "get" /\ xfer.req.kind # "unknown"
        /\ xfer' = None /\ outcome' = "done"
        /\ hostaddr' = IF xfer.req.kind = "address" THEN xfer.req.arg ELSE hostaddr
    BY <1>4 DEF HostStatusIn
  <2>2. Control!Acknowledge
    BY <2>1 DEF Control!Acknowledge
  <2> QED BY <1>0, <2>2
<1>5. CASE HostStatusOut
  <2>1. /\ xfer # None /\ xfer.stage = "status" /\ xfer.req.kind = "get"
        /\ xfer' = None /\ outcome' = "done" /\ hostaddr' = hostaddr
    BY <1>5 DEF HostStatusOut
  <2>2. xfer.n = Control!Offer(xfer.req)
    <3>1. xfer.req \in Requests
      BY <2>1, TransferUnderWay
    <3>2. xfer.req.want \in Nat /\ xfer.req.arg \in Nat
      BY <3>1, RequestSizes
    <3> QED BY <2>1, <3>2 DEF Control!Offer, Control!Least, Total, HostTransferInv
  <2>3. Control!Acknowledge
    BY <2>1, <2>2 DEF Control!Acknowledge
  <2> QED BY <1>0, <2>3
<1>6. CASE (Is("unknown") \/ Lost) /\ HostStalled
  <2>1. Control!Refuse
    BY <1>6 DEF Control!Refuse, Is, HostStalled
  <2> QED BY <1>0, <2>1
<1>7. CASE xfer # None /\ xfer' = None /\ outcome' = "none" /\ hostaddr' = hostaddr
  <2>1. Control!Abandon
    BY <1>7 DEF Control!Abandon
  <2> QED BY <1>0, <2>1
<1>8. CASE xfer' = None /\ outcome' = "none" /\ hostaddr' = 0
  <2>1. Control!Reset
    BY <1>8 DEF Control!Reset
  <2> QED BY <1>0, <2>1
<1> QED BY <1>1, <1>2, <1>3, <1>4, <1>5, <1>6, <1>7, <1>8 DEF HostMoves

-----------------------------------------------------------------------------
(* The NUC121's answers                                                    *)

\* A request served is answered from its start, or refused.
LEMMA NucAnswerOf ==
  ASSUME NEW d \in NucDevice
  PROVE  LET s == NucServeSetup(d)
             refused == d.setup.kind \in {"unknown", "clear"}
         IN /\ s.setup = None
            /\ d.setup = None => s.in0 = d.in0 /\ s.stall0 = d.stall0
            /\ d.setup # None =>
                 /\ s.in0 = IF refused THEN None ELSE Packet(d.setup, 0)
                 /\ s.stall0 = (refused \/ d.stall0)
<1>1. CASE d.setup = None
  BY <1>1 DEF NucServeSetup
<1>2. CASE d.setup # None
  <2> DEFINE r == d.setup
             e == [d EXCEPT !.setup = None, !.in0 = None, !.out0 = FALSE]
  <2>1. r \in NucRequests /\ r \in Requests /\ r.kind \in {"address", "config", "get", "unknown", "clear"}
    BY <1>2, RequestKinds DEF NucDevice
  <2>2. e.setup = None /\ e.in0 = None /\ e.stall0 = d.stall0 /\ e.stall0 \in BOOLEAN
    BY DEF NucDevice
  <2>3. DOMAIN e = {"fw", "faddr", "assigned", "bus", "setup", "in0", "out0", "stall0", "ev0", "ev1",
                    "in1", "out1", "buf1", "ev2", "dap_buffer", "epin_pending"}
    BY DEF NucDevice
  <2>4. r.kind # "get" => Zero(r) = Packet(r, 0)
    BY <2>1, NoData
  <2>5. CASE r.kind \in {"unknown", "clear"}
    <3>1. NucServeSetup(d) = [e EXCEPT !.stall0 = TRUE]
      BY <1>2, <2>5 DEF NucServeSetup
    <3> HIDE DEF e
    <3>2. NucServeSetup(d).setup = None /\ NucServeSetup(d).in0 = None /\ NucServeSetup(d).stall0
      BY <2>2, <2>3, <3>1
    <3> QED BY <1>2, <2>2, <2>5, <3>2
  <2>6. CASE r.kind \notin {"unknown", "clear"}
    <3> DEFINE h == NucHandle(e, r)
    <3>1. NucServeSetup(d) = [h EXCEPT !.out0 = TRUE]
      BY <1>2, <2>6 DEF NucServeSetup
    <3> HIDE DEF e
    <3>2. /\ DOMAIN h = DOMAIN e /\ h.in0 = Packet(r, 0)
          /\ h.setup = None /\ h.stall0 = e.stall0
      <4>1. CASE r.kind = "get"
        BY <2>2, <2>3, <4>1 DEF NucHandle
      <4>2. CASE r.kind = "address"
        BY <2>2, <2>3, <2>4, <4>2 DEF NucHandle
      <4>3. CASE r.kind = "config"
        BY <2>2, <2>3, <2>4, <4>3 DEF NucHandle, NucConfigured
      <4> QED BY <2>1, <2>6, <4>1, <4>2, <4>3
    <3> HIDE DEF h
    <3>3. /\ NucServeSetup(d).setup = None /\ NucServeSetup(d).in0 = Packet(r, 0)
          /\ NucServeSetup(d).stall0 = d.stall0
      BY <2>2, <2>3, <3>1, <3>2
    <3> QED BY <1>2, <2>2, <2>6, <3>3
  <2> QED BY <2>5, <2>6
<1> QED BY <1>1, <1>2

\* The endpoints' events leave the answer alone.
LEMMA NucEventsKeep ==
  ASSUME NEW d \in NucDevice
  PROVE  LET e == NucServeEp3(NucServeEp2(NucServeEp1(NucServeEp0(d))))
         IN e.setup = d.setup /\ e.in0 = d.in0 /\ e.stall0 = d.stall0
<1> DEFINE a == NucServeEp0(d)
           b == NucServeEp1(a)
           c == NucServeEp2(b)
           e == NucServeEp3(c)
           F == {"setup", "in0", "stall0"}
<1>1. a \in NucDevice /\ b \in NucDevice /\ c \in NucDevice
  BY NucServeTyped
<1>2. \A f \in F : a[f] = d[f]
  BY DEF NucServeEp0, NucDevice
<1>3. \A f \in F : b[f] = a[f]
  <2> HIDE DEF a
  <2> QED BY <1>1 DEF NucServeEp1, NucDevice
<1>4. \A f \in F : c[f] = b[f]
  <2> HIDE DEF b
  <2> QED BY <1>1 DEF NucServeEp2, NucDevice
<1>5. \A f \in F : e[f] = c[f]
  <2> HIDE DEF c
  <2> QED BY <1>1 DEF NucServeEp3, NucDevice
<1> HIDE DEF a, b, c, e
<1>6. e.setup = d.setup /\ e.in0 = d.in0 /\ e.stall0 = d.stall0
  BY <1>2, <1>3, <1>4, <1>5
<1> QED BY <1>6 DEF a, b, c, e

\* What goes out is the answer to what the host asks for.
LEMMA NucDataStep ==
  ASSUME "nuc121" \in Calm, dev \in NucDevice, HostInv, HostTransferInv,
         NucControlInv, NucAddressInv, NucDataInv, NucNext
  PROVE  NucDataInv' /\ HostMoves
<1> DEFINE D == /\ dev'.in0 # None => dev'.in0 = Packet(dev'.in0.req, 0) /\ dev'.in0.req.kind # "unknown"
                /\ dev'.setup # None => ~dev'.stall0
                /\ xfer' # None =>
                     /\ xfer'.req.kind # "clear"
                     /\ dev'.setup # None \/ dev'.in0 # None => xfer'.n = 0
                     /\ dev'.setup = None /\ dev'.stall0 => xfer'.req.kind = "unknown"
<1>0. D => NucDataInv'
  BY DEF NucDataInv
<1>1. /\ dev.fw \in Calm /\ dev.faddr \in {0, Address} /\ dev.assigned \in {0, Address}
      /\ dev.in0 # None => dev.in0 = Packet(dev.in0.req, 0) /\ dev.in0.req.kind # "unknown"
      /\ dev.setup # None => ~dev.stall0
      /\ dev.stall0 \in BOOLEAN
      /\ xfer # None =>
           /\ xfer.req.kind # "clear"
           /\ dev.setup # None \/ dev.in0 # None => xfer.n = 0
           /\ dev.setup = None /\ dev.stall0 => xfer.req.kind = "unknown"
      /\ xfer # None /\ dev.setup # None => dev.setup = xfer.req
      /\ xfer # None /\ dev.setup = None /\ dev.in0 # None => dev.in0.req = xfer.req
      /\ DOMAIN dev = {"fw", "faddr", "assigned", "bus", "setup", "in0", "out0", "stall0", "ev0", "ev1",
                       "in1", "out1", "buf1", "ev2", "dap_buffer", "epin_pending"}
  BY DEF NucDevice, Nuc, NucDataInv, NucControlInv
<1>2. CASE NucSetup
  <2>1. PICK r \in NucRequests :
          /\ NucRecovered /\ HostSetup(r, NucCare(r))
          /\ dev' = IF NucHeard THEN [dev EXCEPT !.setup = r, !.stall0 = FALSE] ELSE dev
    BY <1>2 DEF NucSetup
  <2>2. /\ xfer = None
        /\ xfer' = [req |-> r, n |-> 0, last |-> None,
                    stage |-> IF r.kind = "get" THEN "data" ELSE "status"]
        /\ outcome' = "none" /\ hostaddr' = hostaddr /\ Legal(r) /\ NucCare(r)
    BY <1>1, <2>1 DEF HostSetup, WithCare
  <2>3. NucHeard
    BY <1>1, <2>1 DEF NucRecovered, NucAddr, NucHeard, NucAddressInv
  <2>4. r \in Requests
    BY RequestKinds
  <2>5. Begins(r)
    BY <2>2 DEF Begins, Legal
  <2>6. xfer'.req = r /\ xfer'.n = 0 /\ r.kind # "clear" /\ r # None
    BY <2>2, RequestKinds DEF NucCare
  <2>7. dev'.setup = r /\ dev'.stall0 = FALSE /\ dev'.in0 = dev.in0
    BY <1>1, <2>1, <2>3
  <2>8. D
    BY <1>1, <2>6, <2>7
  <2> QED BY <1>0, <2>4, <2>5, <2>8 DEF HostMoves
<1>3. CASE NucControlIn
  <2>1. /\ dev.setup = None /\ dev.in0 # None /\ ~dev.stall0 /\ xfer # None
        /\ HostData(dev.in0) \/ HostStatusIn(dev.in0)
        /\ dev' = [dev EXCEPT !.in0 = None, !.ev0 = TRUE]
    BY <1>3 DEF NucControlIn, NucReady, HostData, HostStatusIn
  <2>2. dev'.setup = None /\ dev'.in0 = None /\ dev'.stall0 = FALSE
    BY <1>1, <2>1
  <2>3. dev.in0 = Packet(xfer.req, xfer.n) /\ xfer.req.kind # "unknown"
    BY <1>1, <2>1
  <2>4. CASE HostData(dev.in0)
    <3>1. xfer'.req = xfer.req
      BY <2>4, HostDataInv
    <3>2. D
      BY <1>1, <2>1, <2>2, <3>1
    <3> QED BY <1>0, <2>3, <2>4, <3>2 DEF HostMoves
  <2>5. CASE HostStatusIn(dev.in0)
    <3>1. xfer' = None
      BY <2>5 DEF HostStatusIn
    <3>2. D
      BY <2>2, <3>1
    <3>3. dev.in0 \in Packets
      BY <2>1 DEF NucDevice
    <3> QED BY <1>0, <2>1, <2>3, <2>5, <3>2, <3>3 DEF HostMoves
  <2> QED BY <2>1, <2>4, <2>5
<1>4. CASE NucControlOut \/ NucControlStall \/ NucAbandon \/ NucBusReset
  <2>1. xfer' = None
    BY <1>4 DEF NucControlOut, NucControlStall, NucAbandon, NucBusReset,
                HostStatusOut, HostStalled, HostAbandon, HostReset
  <2>2. \A f \in {"setup", "in0", "stall0"} : dev'[f] = dev[f]
    <3>1. CASE NucControlOut
      BY <1>1, <3>1 DEF NucControlOut
    <3>2. CASE NucControlStall \/ NucAbandon
      BY <3>2 DEF NucControlStall, NucAbandon
    <3>3. CASE NucBusReset
      <4>1. PICK c \in {dev.in1, None} : dev' = [dev EXCEPT !.bus = TRUE, !.in1 = c]
        BY <3>3 DEF NucBusReset
      <4> QED BY <1>1, <4>1
    <3> QED BY <1>4, <3>1, <3>2, <3>3
  <2>3. D
    BY <1>1, <2>1, <2>2
  <2>4. HostMoves
    <3>1. CASE NucControlOut
      BY <3>1 DEF NucControlOut, HostMoves
    <3>2. CASE NucControlStall
      <4>1. HostStalled /\ dev.stall0 /\ dev.setup = None /\ xfer # None
        BY <3>2 DEF NucControlStall, NucReady, HostStalled
      <4>2. Is("unknown")
        BY <1>1, <4>1 DEF Is
      <4> QED BY <4>1, <4>2 DEF HostMoves
    <3>3. CASE NucAbandon
      BY <3>3 DEF NucAbandon, HostAbandon, HostMoves
    <3>4. CASE NucBusReset
      BY <3>4 DEF NucBusReset, HostReset, HostMoves
    <3> QED BY <1>4, <3>1, <3>2, <3>3, <3>4
  <2> QED BY <1>0, <2>3, <2>4
<1>5. CASE NucAsk \/ NucTake \/ NucVendorHidTask
  <2>1. UNCHANGED <<xfer, outcome, hostaddr>>
    BY <1>5 DEF NucAsk, NucTake, NucVendorHidTask, HostAsk, HostTake, hostvars
  <2>2. \A f \in {"setup", "in0", "stall0"} : dev'[f] = dev[f]
    BY <1>1, <1>5 DEF NucAsk, NucTake, NucVendorHidTask
  <2>3. D
    BY <1>1, <2>1, <2>2
  <2> QED BY <1>0, <2>1, <2>3 DEF HostMoves
<1>6. CASE NucUsbTask
  <2>1. UNCHANGED <<xfer, outcome, hostaddr>>
    BY <1>6 DEF NucUsbTask, hostvars
  <2> DEFINE b == NucServeBus(dev)
             d == NucServeSetup(b)
  <2>2. b \in NucDevice /\ d \in NucDevice
    BY NucServeTyped
  <2>3. b.setup = dev.setup /\ b.in0 = dev.in0 /\ b.stall0 = dev.stall0
    BY <1>1 DEF NucServeBus
  <2>4. dev' = NucServeEp3(NucServeEp2(NucServeEp1(NucServeEp0(d))))
    BY <1>6 DEF NucUsbTask
  <2> HIDE DEF b
  <2>5. LET refused == dev.setup.kind \in {"unknown", "clear"}
        IN /\ d.setup = None
           /\ dev.setup = None => d.in0 = dev.in0 /\ d.stall0 = dev.stall0
           /\ dev.setup # None =>
                /\ d.in0 = IF refused THEN None ELSE Packet(dev.setup, 0)
                /\ d.stall0 = (refused \/ dev.stall0)
    BY <2>2, <2>3, NucAnswerOf
  <2> HIDE DEF d
  <2>6. dev'.setup = d.setup /\ dev'.in0 = d.in0 /\ dev'.stall0 = d.stall0
    BY <2>2, <2>4, NucEventsKeep
  <2>7. \A r : Packet(r, 0).req = r
    BY DEF Packet
  <2>8. D
    BY <1>1, <2>1, <2>5, <2>6, <2>7
  <2> QED BY <1>0, <2>1, <2>8 DEF HostMoves
<1> QED BY <1>2, <1>3, <1>4, <1>5, <1>6 DEF NucNext, NucHost

-----------------------------------------------------------------------------
(* The SAMD11's answers                                                    *)

\* The endpoints served: control transfers are left alone.
LEMMA SamEndpointsKeep ==
  ASSUME NEW d \in SamDevice
  PROVE  \A f \in {"setup", "wait", "in0", "stall0"} : SamEndpoints(d)[f] = d[f]
<1> DEFINE e == SamServeIn(d)
           F == {"setup", "wait", "in0", "stall0"}
<1>0. e \in {[d EXCEPT !.ev1 = FALSE, !.in1 = None], d}
  BY DEF SamServeIn
<1>1. e \in SamDevice /\ \A f \in F : e[f] = d[f]
  BY <1>0 DEF SamDevice
<1> HIDE DEF e
<1>3. \A f \in F : SamServeOut(e)[f] = e[f]
  BY <1>1 DEF SamServeOut, SamDevice
<1>4. SamEndpoints(d) = SamServeOut(e)
  BY DEF SamEndpoints, e
<1> QED BY <1>1, <1>3, <1>4

\* A request served has its answer wait for the host, or is refused.
LEMMA SamServeSetupOf ==
  ASSUME NEW d \in SamDevice
  PROVE  LET s == SamServeSetup(SamServeBus(d))
         IN /\ s \in SamDevice /\ s.setup = None
            /\ d.setup = None =>
                 s.wait = d.wait /\ s.stall0 = d.stall0 /\ (s.in0 => d.in0)
            /\ d.setup # None /\ d.setup.kind = "unknown" =>
                 s.wait = d.wait /\ s.stall0 /\ (s.in0 => d.in0)
            /\ d.setup # None /\ d.setup.kind # "unknown" =>
                 s.wait = d.setup /\ s.stall0 = d.stall0
<1> DEFINE b == SamServeBus(d)
           s == SamServeSetup(b)
<1>1. b \in SamDevice /\ s \in SamDevice
  BY SamServeTyped
<1>2. b.setup = d.setup /\ b.wait = d.wait /\ b.stall0 = d.stall0
  BY DEF SamServeBus, SamDevice
<1>3. (b.in0 => d.in0) /\ b.in0 \in BOOLEAN
  BY DEF SamServeBus, SamDevice
<1> HIDE DEF b
<1>4. CASE b.setup = None
  <2>1. s = b
    BY <1>4 DEF SamServeSetup
  <2> QED BY <1>1, <1>2, <1>3, <1>4, <2>1 DEF b
<1>5. CASE b.setup # None
  <2> DEFINE e == [b EXCEPT !.setup = None, !.out0 = TRUE]
  <2>1. /\ e.setup = None /\ e.wait = b.wait /\ e.stall0 = b.stall0 /\ e.in0 = b.in0
        /\ DOMAIN e = {"fw", "dadd", "bus", "setup", "wait", "in0", "out0", "stall0", "in1", "ev1",
                       "out1", "buf1", "toggle", "host"}
    BY <1>1 DEF SamDevice
  <2>2. s = IF b.setup.kind = "unknown" THEN [e EXCEPT !.stall0 = TRUE]
            ELSE [e EXCEPT !.wait = b.setup, !.in0 = TRUE]
    BY <1>5 DEF SamServeSetup
  <2> HIDE DEF e, s
  <2>3. CASE b.setup.kind = "unknown"
    <3>1. s.setup = None /\ s.wait = b.wait /\ s.stall0 /\ s.in0 = b.in0
      BY <2>1, <2>2, <2>3
    <3>2. s.in0 => d.in0
      BY <1>3, <3>1
    <3> QED BY <1>1, <1>2, <1>5, <2>3, <3>1, <3>2 DEF s, b
  <2>4. CASE b.setup.kind # "unknown"
    <3>1. s.setup = None /\ s.wait = b.setup /\ s.stall0 = b.stall0
      BY <2>1, <2>2, <2>4
    <3> QED BY <1>1, <1>2, <1>5, <2>4, <3>1 DEF s, b
  <2> QED BY <2>3, <2>4
<1> QED BY <1>4, <1>5

\* What goes out is the answer to what the host asks for.
LEMMA SamDataStep ==
  ASSUME "samd11" \in Calm, dev \in SamDevice, HostInv, HostTransferInv,
         SamControlInv, SamDataInv, SamNext
  PROVE  SamDataInv' /\ HostMoves
<1> DEFINE D == /\ dev'.wait # None => dev'.wait.kind # "unknown"
                /\ dev'.setup # None => ~dev'.stall0
                /\ xfer' # None =>
                     /\ dev'.setup # None \/ dev'.in0 => xfer'.n = 0
                     /\ dev'.setup = None /\ dev'.stall0 => xfer'.req.kind = "unknown"
           F == {"setup", "wait", "in0", "stall0"}
<1>0. D => SamDataInv'
  BY DEF SamDataInv
<1>1. /\ dev.fw \in Calm
      /\ dev.in0 \in BOOLEAN /\ dev.stall0 \in BOOLEAN
      /\ dev.wait # None => dev.wait.kind # "unknown"
      /\ dev.setup # None => ~dev.stall0
      /\ xfer # None =>
           /\ dev.setup # None \/ dev.in0 => xfer.n = 0
           /\ dev.setup = None /\ dev.stall0 => xfer.req.kind = "unknown"
      /\ xfer # None /\ dev.setup # None => dev.setup = xfer.req
      /\ dev.in0 => dev.wait # None
      /\ xfer # None /\ dev.setup = None /\ dev.in0 => dev.wait = xfer.req
      /\ DOMAIN dev = {"fw", "dadd", "bus", "setup", "wait", "in0", "out0", "stall0", "in1", "ev1",
                       "out1", "buf1", "toggle", "host"}
  BY DEF SamDevice, Sam, SamDataInv, SamControlInv
<1>2. CASE SamSetup
  <2>1. PICK r \in SamRequests :
          /\ SamRecovered /\ HostSetup(r, SamCare(r))
          /\ dev' = IF SamHeard
                    THEN [dev EXCEPT !.setup = r, !.stall0 = FALSE,
                                     !.host = IF r.kind = "config" THEN <<0, 0>> ELSE @]
                    ELSE dev
    BY <1>2 DEF SamSetup
  <2>2. /\ xfer = None
        /\ xfer' = [req |-> r, n |-> 0, last |-> None,
                    stage |-> IF r.kind = "get" THEN "data" ELSE "status"]
        /\ outcome' = "none" /\ hostaddr' = hostaddr /\ Legal(r)
    BY <2>1 DEF HostSetup
  <2>3. SamHeard
    BY <2>1, HostAssumption DEF SamRecovered, SamAddr, SamHeard, SamControlInv
  <2>4. r \in Requests /\ r # None
    BY RequestKinds
  <2>5. Begins(r)
    BY <2>2 DEF Begins, Legal
  <2>6. xfer'.req = r /\ xfer'.n = 0
    BY <2>2
  <2>7. dev'.setup = r /\ dev'.stall0 = FALSE /\ dev'.wait = dev.wait
    BY <1>1, <2>1, <2>3
  <2>8. D
    BY <1>1, <2>4, <2>6, <2>7
  <2> QED BY <1>0, <2>4, <2>5, <2>8 DEF HostMoves
<1>3. CASE SamControlIn
  <2>1. /\ dev.setup = None /\ dev.in0 /\ ~dev.stall0 /\ xfer # None
        /\ HostData(SamAnswer) \/ HostStatusIn(SamAnswer)
    BY <1>3 DEF SamControlIn, SamReady, HostData, HostStatusIn
  <2>2. dev'.setup = None /\ ~dev'.in0 /\ ~dev'.stall0 /\ dev'.wait = dev.wait
    BY <1>1, <1>3, <2>1 DEF SamControlIn
  <2>3. dev.wait = xfer.req /\ xfer.n = 0 /\ xfer.req.kind # "unknown" /\ xfer.req \in Requests
    BY <1>1, <2>1, TransferUnderWay
  <2>4. SamAnswer = Packet(xfer.req, xfer.n)
    BY <2>3, NoData DEF SamAnswer
  <2>5. CASE HostData(SamAnswer)
    <3>1. D
      BY <1>1, <2>2
    <3> QED BY <1>0, <2>4, <2>5, <3>1 DEF HostMoves
  <2>6. CASE HostStatusIn(SamAnswer)
    <3>1. D
      BY <1>1, <2>2
    <3>2. SamAnswer \in Packets
      <4>1. xfer.n \in Int
        BY <2>3
      <4> QED BY <2>3, <2>4, <4>1, PacketTyped
    <3> QED BY <1>0, <2>1, <2>3, <2>6, <3>1, <3>2 DEF HostMoves
  <2> QED BY <2>1, <2>5, <2>6
<1>4. CASE SamControlOut \/ SamControlStall \/ SamAbandon \/ SamBusReset
  <2>1. xfer' = None
    BY <1>4 DEF SamControlOut, SamControlStall, SamAbandon, SamBusReset,
                HostStatusOut, HostStalled, HostAbandon, HostReset
  <2>2. \A f \in F : dev'[f] = dev[f]
    <3>1. CASE SamControlOut
      BY <1>1, <3>1 DEF SamControlOut
    <3>2. CASE SamControlStall \/ SamAbandon
      BY <3>2 DEF SamControlStall, SamAbandon
    <3>3. CASE SamBusReset
      <4>1. PICK c \in {dev.in1, None}, q \in {dev.buf1, None} :
              dev' = [dev EXCEPT !.bus = TRUE, !.in1 = c, !.buf1 = q]
        BY <3>3 DEF SamBusReset
      <4> QED BY <1>1, <4>1
    <3> QED BY <1>4, <3>1, <3>2, <3>3
  <2>3. D
    BY <1>1, <2>1, <2>2
  <2>4. HostMoves
    <3>1. CASE SamControlOut
      BY <3>1 DEF SamControlOut, HostMoves
    <3>2. CASE SamControlStall
      <4>1. HostStalled /\ dev.stall0 /\ dev.setup = None /\ xfer # None
        BY <3>2 DEF SamControlStall, SamReady, HostStalled
      <4>2. Is("unknown")
        BY <1>1, <4>1 DEF Is
      <4> QED BY <4>1, <4>2 DEF HostMoves
    <3>3. CASE SamAbandon
      BY <3>3 DEF SamAbandon, HostAbandon, HostMoves
    <3>4. CASE SamBusReset
      BY <3>4 DEF SamBusReset, HostReset, HostMoves
    <3> QED BY <1>4, <3>1, <3>2, <3>3, <3>4
  <2> QED BY <1>0, <2>3, <2>4
<1>5. CASE SamAsk \/ SamTake
  <2>1. UNCHANGED <<xfer, outcome, hostaddr>>
    BY <1>5 DEF SamAsk, SamTake, HostAsk, HostTake, hostvars
  <2>2. \A f \in F : dev'[f] = dev[f]
    BY <1>1, <1>5 DEF SamAsk, SamTake
  <2>3. D
    BY <1>1, <2>1, <2>2
  <2> QED BY <1>0, <2>1, <2>3 DEF HostMoves
<1>6. CASE SamHandler
  <2>1. UNCHANGED <<xfer, outcome, hostaddr>>
    BY <1>6 DEF SamHandler, hostvars
  <2> DEFINE d == SamServeSetup(SamServeBus(dev))
  <2>2. dev.wait = None /\ dev' = (IF d.wait = None THEN SamEndpoints(d) ELSE d)
    BY <1>6 DEF SamHandler
  <2>3. /\ d \in SamDevice /\ d.setup = None
        /\ dev.setup = None => d.wait = dev.wait /\ d.stall0 = dev.stall0 /\ (d.in0 => dev.in0)
        /\ dev.setup # None /\ dev.setup.kind = "unknown" =>
             d.wait = dev.wait /\ d.stall0 /\ (d.in0 => dev.in0)
        /\ dev.setup # None /\ dev.setup.kind # "unknown" => d.wait = dev.setup /\ d.stall0 = dev.stall0
    BY SamServeSetupOf
  <2> HIDE DEF d
  <2>4. \A f \in F : dev'[f] = d[f]
    BY <2>2, <2>3, SamEndpointsKeep
  <2>5. D
    BY <1>1, <2>1, <2>2, <2>3, <2>4
  <2> QED BY <1>0, <2>1, <2>5 DEF HostMoves
<1>7. CASE SamWaited
  <2>1. UNCHANGED <<xfer, outcome, hostaddr>>
    BY <1>7 DEF SamWaited, hostvars
  <2> DEFINE d == SamAnswered(dev)
             e == [dev EXCEPT !.wait = None]
  <2>2. dev.wait # None /\ ~dev.in0 /\ dev' = SamEndpoints(d)
    BY <1>7 DEF SamWaited, SamTaken
  <2>3. d \in SamDevice
    BY <2>2, SamAnsweredIn
  <2>4. /\ e.wait = None /\ e.setup = dev.setup /\ e.in0 = dev.in0 /\ e.stall0 = dev.stall0
        /\ DOMAIN e = DOMAIN dev
    BY <1>1
  <2> HIDE DEF e
  <2>5. \A f \in F : d[f] = e[f]
    <3>1. d \in {[e EXCEPT !.dadd = dev.wait.arg], SamConfigured(e), e}
      BY DEF SamAnswered, e
    <3> QED BY <1>1, <2>4, <3>1 DEF SamConfigured
  <2> HIDE DEF d
  <2>6. \A f \in F : dev'[f] = d[f]
    BY <2>2, <2>3, SamEndpointsKeep
  <2>7. D
    BY <1>1, <2>1, <2>2, <2>4, <2>5, <2>6
  <2> QED BY <1>0, <2>1, <2>7 DEF HostMoves
<1> QED BY <1>2, <1>3, <1>4, <1>5, <1>6, <1>7 DEF SamNext, SamHost, SamPolls

-----------------------------------------------------------------------------
(* The PIC16's data                                                        *)

\* A packet goes out, and what follows it stays.
LEMMA PicSendOf ==
  ASSUME NEW d \in PicDevice, NEW r, NEW k
  PROVE  LET e == PicSend(d, r, k)
             p == Packet(r, k)
         IN /\ DOMAIN e = DOMAIN d
            /\ e.in0 = p
            /\ e.stage # None => e.stage.from = k + p.len
            /\ e.pktdis = d.pktdis /\ e.tokens = d.tokens
<1> DEFINE p == Packet(r, k)
           s == IF k + p.len < Total(r) THEN [req |-> r, from |-> k + p.len] ELSE None
           e == PicSend(d, r, k)
<1>1. e = [d EXCEPT !.in0 = p, !.stage = s]
  BY DEF PicSend
<1>2. s # None => s.from = k + p.len
  OBVIOUS
<1> HIDE DEF p, s, e
<1>3. /\ DOMAIN e = DOMAIN d /\ e.in0 = p /\ e.stage = s
      /\ e.pktdis = d.pktdis /\ e.tokens = d.tokens
  BY <1>1 DEF PicDevice
<1> QED BY <1>2, <1>3 DEF e, p

\* A SETUP packet served: its data are sent from their start, or it is refused.
LEMMA PicServeSetupData ==
  ASSUME NEW d \in PicDevice, d.setup # None
  PROVE  LET e == PicServeSetup(d)
         IN /\ e.pktdis = FALSE /\ e.tokens = d.tokens
            /\ e.in0 # None => e.in0 = Packet(d.setup, 0) /\ d.setup.kind # "unknown"
            /\ e.stage # None => e.in0 = Packet(d.setup, 0) /\ e.stage.from = 0 + Packet(d.setup, 0).len
<1> DEFINE r == d.setup
           c == [d EXCEPT !.setup = None, !.in0 = None, !.stall0 = FALSE, !.stage = None]
           a == PicHandle(c, r)
           e == PicServeSetup(d)
<1>1. r \in PicRequests /\ r \in Requests /\ r.kind \in {"address", "config", "get", "unknown", "clear"}
  BY RequestKinds DEF PicDevice
<1>2. c \in PicDevice
  BY DEF PicDevice
<1>3. c.in0 = None /\ c.stage = None /\ c.tokens = d.tokens
  BY DEF PicDevice
<1>4. e = [a EXCEPT !.pktdis = FALSE, !.out0 = TRUE] /\ a \in PicDevice
  BY <1>1, <1>2, PicHandleTyped DEF PicServeSetup
<1> HIDE DEF c
<1>5. r.kind # "get" => Zero(r) = Packet(r, 0)
  BY <1>1, NoData
<1>6. /\ a.tokens = d.tokens
      /\ a.in0 # None => a.in0 = Packet(r, 0) /\ r.kind # "unknown"
      /\ a.stage # None => a.in0 = Packet(r, 0) /\ a.stage.from = 0 + Packet(r, 0).len
  <2>1. CASE r.kind = "get"
    <3>1. a = PicSend(c, r, 0)
      BY <2>1 DEF PicHandle
    <3> HIDE DEF a, r
    <3> QED BY <1>2, <1>3, <2>1, <3>1, PicSendOf
  <2>2. CASE r.kind = "address"
    <3>1. a = [c EXCEPT !.addr = r.arg, !.in0 = Zero(r)]
      BY <2>2 DEF PicHandle
    <3> HIDE DEF a, r
    <3> QED BY <1>2, <1>3, <1>5, <2>2, <3>1 DEF PicDevice
  <2>3. CASE r.kind = "config"
    <3>1. a = [c EXCEPT !.in0 = Zero(r), !.configured = TRUE]
      BY <2>3 DEF PicHandle
    <3> HIDE DEF a, r
    <3> QED BY <1>2, <1>3, <1>5, <2>3, <3>1 DEF PicDevice
  <2>4. CASE r.kind = "clear"
    <3> DEFINE b == PicClear(c, r.arg)
    <3>1. a = [b EXCEPT !.in0 = Zero(r)]
      BY <2>4 DEF PicHandle
    <3>2. b = IF r.arg = ToHost THEN [c EXCEPT !.in1 = None, !.tx_dts = 0]
              ELSE [c EXCEPT !.out1 = TRUE, !.buf1 = None, !.dts = 0, !.rx_dts = 1]
      BY DEF PicClear
    <3> HIDE DEF a, b, r
    <3>3. DOMAIN b = DOMAIN c /\ b.stage = None /\ b.tokens = c.tokens
      BY <1>2, <1>3, <3>2 DEF PicDevice
    <3>4. a.stage = None /\ a.tokens = c.tokens /\ a.in0 = Zero(r)
      BY <1>2, <3>1, <3>3 DEF PicDevice
    <3> QED BY <1>3, <1>5, <2>4, <3>4
  <2>5. CASE r.kind = "unknown"
    <3>1. a = [c EXCEPT !.stall0 = TRUE]
      BY <2>5 DEF PicHandle
    <3> HIDE DEF a, r
    <3> QED BY <1>2, <1>3, <2>5, <3>1 DEF PicDevice
  <2> QED BY <1>1, <2>1, <2>2, <2>3, <2>4, <2>5
<1> HIDE DEF a, e
<1>7. e.pktdis = FALSE /\ e.tokens = a.tokens /\ e.in0 = a.in0 /\ e.stage = a.stage
  BY <1>4 DEF PicDevice
<1> QED BY <1>6, <1>7 DEF e

\* The token of a packet taken: the next of the data is sent.
LEMMA PicServeInData ==
  ASSUME NEW d \in PicDevice
  PROVE  LET e == PicServeEp0In(d)
         IN /\ e.pktdis = d.pktdis /\ e.tokens = d.tokens
            /\ d.stage = None => e.in0 = d.in0 /\ e.stage = None
            /\ d.stage # None =>
                 /\ e.in0 = Packet(d.stage.req, d.stage.from)
                 /\ e.stage # None => e.stage.from = d.stage.from + e.in0.len
<1> DEFINE u == IF d.addr # 0 THEN d.addr ELSE d.uaddr
           a == [d EXCEPT !.uaddr = u, !.addr = 0]
           e == PicServeEp0In(d)
<1>1. e = IF a.stage = None THEN a ELSE PicSend(a, a.stage.req, a.stage.from)
  BY DEF PicServeEp0In
<1>2. u \in {0, Address}
  BY DEF PicDevice
<1> HIDE DEF u
<1>3. a \in PicDevice
  BY <1>2 DEF PicDevice
<1>4. /\ a.stage = d.stage /\ a.in0 = d.in0 /\ a.tokens = d.tokens /\ a.pktdis = d.pktdis
  BY DEF PicDevice
<1> HIDE DEF a, e
<1>5. CASE a.stage = None
  <2>1. e = a
    BY <1>1, <1>5
  <2> QED BY <1>4, <1>5, <2>1 DEF e
<1>6. CASE a.stage # None
  <2>1. e = PicSend(a, a.stage.req, a.stage.from)
    BY <1>1, <1>6
  <2>2. /\ e.in0 = Packet(a.stage.req, a.stage.from)
        /\ e.stage # None => e.stage.from = a.stage.from + e.in0.len
        /\ e.pktdis = a.pktdis /\ e.tokens = a.tokens
    BY <1>3, <2>1, PicSendOf
  <2> QED BY <1>4, <1>6, <2>2 DEF e
<1> QED BY <1>5, <1>6

\* Nothing but these touches the data of a transfer.
LEMMA PicDataKeep ==
  ASSUME dev \in PicDevice, PicDataInv, xfer' = xfer,
         \A f \in {"pktdis", "tokens", "in0", "stage"} : dev'[f] = dev[f]
  PROVE  PicDataInv'
<1>1. /\ dev'.pktdis = dev.pktdis /\ dev'.tokens = dev.tokens /\ dev'.in0 = dev.in0
      /\ dev'.stage = dev.stage /\ Pic
  BY DEF PicDevice, Pic
<1> QED BY <1>1 DEF PicDataInv

\* The next packet goes out when that before it has been taken.
LEMMA PicTokenData ==
  ASSUME dev \in PicDevice, PicTokens(dev), HostInv, HostTransferInv, PicControlInv, PicDataInv,
         xfer' = xfer,
         ~dev.bus, dev.tokens # <<>>, dev' = PicServeToken(dev)
  PROVE  PicDataInv'
<1> DEFINE e == [dev EXCEPT !.tokens = Tail(dev.tokens)]
<1>0. SUFFICES ASSUME xfer # None
              PROVE  /\ dev'.pktdis => xfer.n = 0
                     /\ ~dev'.pktdis =>
                          /\ Len(dev'.tokens) <= 1
                          /\ dev'.in0 # None =>
                               /\ dev'.in0 = Packet(xfer.req, xfer.n) /\ xfer.req.kind # "unknown"
                               /\ dev'.tokens = <<>>
                          /\ dev'.stage # None =>
                               dev'.stage.from = xfer.n + (IF dev'.in0 = None THEN 0 ELSE dev'.in0.len)
  BY DEF PicDataInv
<1>1. /\ dev.pktdis => xfer.n = 0
      /\ ~dev.pktdis =>
           /\ Len(dev.tokens) <= 1
           /\ dev.in0 = None
           /\ dev.stage # None => dev.stage.from = xfer.n /\ dev.stage.req = xfer.req
      /\ dev.setup # None => dev.setup = xfer.req
      /\ dev.stage # None => dev.stage.req.kind = "get"
      /\ xfer.n \in Int
  <2>1. Pic
    BY Firmware
  <2>2. /\ dev.pktdis => xfer.n = 0
        /\ ~dev.pktdis =>
             /\ Len(dev.tokens) <= 1
             /\ dev.in0 # None => dev.tokens = <<>>
             /\ dev.stage # None =>
                  dev.stage.from = xfer.n + (IF dev.in0 = None THEN 0 ELSE dev.in0.len)
    BY <1>0, <2>1 DEF PicDataInv
  <2>3. /\ ~dev.pktdis /\ dev.stage # None => dev.stage.req = xfer.req
        /\ dev.setup # None => dev.setup = xfer.req
        /\ dev.stage # None => dev.stage.req.kind = "get"
    BY <1>0 DEF PicControlInv
  <2>4. xfer.n \in Int
    BY <1>0 DEF HostTransferInv
  <2> QED BY <2>2, <2>3, <2>4
<1>2. dev.tokens \in Seq({"setup", "in", "out"})
  BY DEF PicDevice
<1>3. Head(dev.tokens) \in {"setup", "in", "out"} /\ Tail(dev.tokens) \in Seq({"setup", "in", "out"})
      /\ Len(Tail(dev.tokens)) = Len(dev.tokens) - 1 /\ Len(dev.tokens) \in Nat \ {0}
  BY <1>2
<1>4. Len(dev.tokens) <= 1 => Tail(dev.tokens) = <<>> /\ Len(Tail(dev.tokens)) = 0
  <2> DEFINE l == Len(dev.tokens)
             m == Len(Tail(dev.tokens))
  <2>0. m = l - 1 /\ l \in Nat \ {0}
    BY <1>3
  <2> HIDE DEF l, m
  <2>1. l <= 1 => m = 0
    BY <2>0
  <2> USE DEF l, m
  <2>2. \A q \in Seq({"setup", "in", "out"}) : Len(q) = 0 => q = <<>>
    OBVIOUS
  <2> QED BY <1>3, <2>1, <2>2
<1>5. /\ e \in PicDevice
      /\ e.tokens = Tail(dev.tokens) /\ e.setup = dev.setup /\ e.stage = dev.stage /\ e.in0 = dev.in0
      /\ e.pktdis = dev.pktdis
  <2>1. e \in PicDevice
    BY <1>3 DEF PicDevice
  <2>2. /\ e.tokens = Tail(dev.tokens) /\ e.setup = dev.setup /\ e.stage = dev.stage /\ e.in0 = dev.in0
        /\ e.pktdis = dev.pktdis
    BY DEF PicDevice
  <2> QED BY <2>1, <2>2
<1>6. CASE Head(dev.tokens) = "setup"
  <2>1. dev' = PicServeSetup(e)
    BY <1>6 DEF PicServeToken
  <2> HIDE DEF e
  <2>2. dev.setup # None /\ dev.pktdis /\ Len(dev.tokens) = 1
    <3>1. 1 \in 1..Len(dev.tokens) /\ dev.tokens[1] = "setup"
      BY <1>2, <1>3, <1>6
    <3>2. dev.setup # None /\ Len(dev.tokens) = 1
      BY <3>1 DEF PicTokens
    <3> QED BY <3>2 DEF PicTokens
  <2>3. /\ dev'.pktdis = FALSE /\ dev'.tokens = Tail(dev.tokens)
        /\ dev'.in0 # None => dev'.in0 = Packet(xfer.req, 0) /\ xfer.req.kind # "unknown"
        /\ dev'.stage # None =>
             dev'.in0 = Packet(xfer.req, 0) /\ dev'.stage.from = 0 + Packet(xfer.req, 0).len
    BY <1>1, <1>5, <2>1, <2>2, PicServeSetupData
  <2>4. dev'.stage # None => dev'.in0 # None
    <3> SUFFICES ASSUME dev'.stage # None, dev'.in0 = None PROVE FALSE
      OBVIOUS
    <3>1. Packet(xfer.req, 0) = None
      BY <2>3
    <3>2. xfer.req \in Requests /\ 0 \in Int
      BY <1>0, TransferUnderWay
    <3>3. Packet(xfer.req, 0) \in Packets
      BY <3>2, PacketTyped
    <3> QED BY <3>1, <3>3, HostAssumption
  <2>5. xfer.n = 0
    BY <1>1, <2>2
  <2>6. dev'.tokens = <<>> /\ Len(dev'.tokens) <= 1
    <3>1. Tail(dev.tokens) = <<>> /\ Len(Tail(dev.tokens)) = 0
      BY <1>4, <2>2
    <3>2. Len(dev'.tokens) = 0
      BY <2>3, <3>1
    <3> QED BY <2>3, <3>1, <3>2
  <2>7. dev'.stage # None => dev'.stage.from = xfer.n + dev'.in0.len
    BY <2>3, <2>5
  <2> QED BY <2>3, <2>4, <2>5, <2>6, <2>7
<1>7. CASE Head(dev.tokens) = "out"
  <2>1. dev' = PicServeEp0Out(e)
    BY <1>7 DEF PicServeToken
  <2> HIDE DEF e
  <2>2. /\ dev'.pktdis = e.pktdis /\ dev'.tokens = e.tokens /\ dev'.in0 = e.in0
        /\ dev'.stage = None
    BY <1>5, <2>1, PicServeTakenOf
  <2> QED BY <1>1, <1>4, <1>5, <2>2
<1>8. CASE Head(dev.tokens) = "in"
  <2>1. dev' = PicServeEp0In(e)
    BY <1>8 DEF PicServeToken
  <2> HIDE DEF e
  <2>2. /\ dev'.pktdis = dev.pktdis /\ dev'.tokens = Tail(dev.tokens)
        /\ dev.stage = None => dev'.in0 = dev.in0 /\ dev'.stage = None
        /\ dev.stage # None =>
             /\ dev'.in0 = Packet(dev.stage.req, dev.stage.from)
             /\ dev'.stage # None => dev'.stage.from = dev.stage.from + dev'.in0.len
    <3>1. LET a == PicServeEp0In(e)
          IN /\ a.pktdis = e.pktdis /\ a.tokens = e.tokens
             /\ e.stage = None => a.in0 = e.in0 /\ a.stage = None
             /\ e.stage # None =>
                  /\ a.in0 = Packet(e.stage.req, e.stage.from)
                  /\ a.stage # None => a.stage.from = e.stage.from + a.in0.len
      BY <1>5, PicServeInData, Zenon
    <3> QED BY <1>5, <2>1, <3>1
  <2>3. CASE dev.pktdis
    BY <1>1, <2>2, <2>3
  <2>4. CASE ~dev.pktdis
    <3>1. ~dev'.pktdis /\ dev'.tokens = <<>> /\ Len(dev'.tokens) <= 1
      BY <1>1, <1>4, <2>2, <2>4
    <3>2. CASE dev.stage = None
      BY <1>1, <2>2, <2>4, <3>1, <3>2
    <3>3. CASE dev.stage # None
      <4>1. /\ dev'.in0 = Packet(xfer.req, xfer.n) /\ xfer.req.kind = "get"
            /\ dev'.stage # None => dev'.stage.from = xfer.n + dev'.in0.len
        BY <1>1, <2>2, <2>4, <3>3
      <4>2. dev'.in0 # None
        <5>1. xfer.req \in Requests
          BY <1>0, TransferUnderWay
        <5>2. Packet(xfer.req, xfer.n) \in Packets
          BY <1>1, <5>1, PacketTyped
        <5> QED BY <4>1, <5>2, HostAssumption
      <4> QED BY <3>1, <4>1, <4>2
    <3> QED BY <3>2, <3>3
  <2> QED BY <2>3, <2>4
<1> QED BY <1>3, <1>6, <1>7, <1>8

\* What goes out is what the host asks for, from where its data are.
LEMMA PicDataStep ==
  ASSUME "pic16" \in Calm, dev \in PicDevice, PicTokens(dev), HostInv, HostTransferInv,
         PicControlInv, PicDataInv, PicNext
  PROVE  PicDataInv' /\ HostMoves
<1>0. xfer' = None => PicDataInv'
  BY DEF PicDataInv
<1>1. /\ Pic /\ dev.fw \in Calm
      /\ dev.tokens \in Seq({"setup", "in", "out"})
      /\ DOMAIN dev = {"fw", "uaddr", "addr", "bus", "pktdis", "tokens", "setup", "out0", "in0",
                       "stall0", "stage", "configured", "in1", "tx_dts", "rx_dts", "out1", "dts",
                       "buf1", "hin", "hout"}
  BY DEF PicDevice, Pic
<1>2. CASE PicSetup
  <2>1. PICK r \in PicRequests :
          /\ PicRecovered /\ (dev.pktdis => PicLost)
          /\ HostSetup(r, r.kind = "config" => ~dev.configured)
          /\ dev' = IF PicHeard
                    THEN [dev EXCEPT !.setup = r, !.out0 = FALSE, !.pktdis = TRUE,
                               !.tokens = Append(@, "setup"),
                               !.hin = IF r.kind = "config" THEN 0 ELSE @,
                               !.hout = IF r.kind = "config" THEN 0 ELSE @]
                    ELSE dev
    BY <1>2 DEF PicSetup
  <2>2. /\ xfer = None
        /\ xfer' = [req |-> r, n |-> 0, last |-> None,
                    stage |-> IF r.kind = "get" THEN "data" ELSE "status"]
        /\ outcome' = "none" /\ hostaddr' = hostaddr /\ Legal(r)
    BY <2>1 DEF HostSetup
  <2>3. r \in Requests
    BY RequestKinds
  <2>4. Begins(r)
    BY <2>2 DEF Begins, Legal
  <2>5. xfer'.n = 0
    BY <2>2
  <2>6. dev'.pktdis
    <3>1. CASE PicHeard
      BY <1>1, <2>1, <3>1
    <3>2. CASE ~PicHeard
      <4>1. ~dev.bus /\ PicAddr = dev.uaddr
        BY <2>1 DEF PicRecovered
      <4>2. dev.addr = 0
        <5> SUFFICES ASSUME dev.addr # 0 PROVE FALSE
          OBVIOUS
        <5>1. dev.uaddr = 0 /\ dev.tokens = <<"in">>
          BY <2>2, <4>1 DEF PicControlInv, Is
        <5>2. Head(<<"in">>) = "in" /\ <<"in">> # <<>>
          OBVIOUS
        <5> QED BY <4>1, <5>1, <5>2 DEF PicAddr
      <4>3. dev.uaddr = hostaddr
        BY <4>1, <4>2 DEF PicControlInv
      <4> QED BY <1>1, <2>1, <3>2, <4>1, <4>3 DEF PicHeard
    <3> QED BY <3>1, <3>2
  <2>7. PicDataInv'
    BY <2>5, <2>6 DEF PicDataInv
  <2> QED BY <2>3, <2>4, <2>7 DEF HostMoves
<1>3. CASE PicControlIn
  <2>1. /\ ~dev.pktdis /\ dev.in0 # None /\ xfer # None
        /\ HostData(dev.in0) \/ HostStatusIn(dev.in0)
    BY <1>3 DEF PicControlIn, PicHeard, HostData, HostStatusIn
  <2>2. /\ dev.in0 = Packet(xfer.req, xfer.n) /\ xfer.req.kind # "unknown" /\ dev.tokens = <<>>
        /\ dev.stage # None => dev.stage.from = xfer.n + dev.in0.len
    BY <1>1, <2>1 DEF PicDataInv
  <2>3. /\ dev'.in0 = None /\ dev'.tokens = Append(dev.tokens, "in")
        /\ dev'.pktdis = dev.pktdis /\ dev'.stage = dev.stage
    BY <1>1, <1>3 DEF PicControlIn
  <2>4. dev.in0 \in Packets
    BY <2>1 DEF PicDevice
  <2>5. CASE HostData(dev.in0)
    <3>1. xfer'.n = xfer.n + dev.in0.len
      <4>1. DOMAIN xfer = {"req", "n", "last", "stage"}
        BY <2>1, TransferUnderWay
      <4> QED BY <2>5, <4>1 DEF HostData
    <3>2. xfer.n \in Int /\ dev.in0.len \in Int
      BY <2>1, <2>4 DEF HostTransferInv, Packets
    <3>3. Len(dev'.tokens) = 1
      BY <2>2, <2>3
    <3>4. ~dev'.pktdis
      BY <2>1, <2>3
    <3>5. dev'.stage # None => dev'.stage.from = xfer'.n + 0
      BY <2>2, <2>3, <3>1, <3>2
    <3>6. PicDataInv'
      BY <2>3, <3>3, <3>4, <3>5 DEF PicDataInv
    <3> QED BY <2>2, <2>5, <3>6 DEF HostMoves
  <2>6. CASE HostStatusIn(dev.in0)
    <3>1. xfer' = None
      BY <2>6 DEF HostStatusIn
    <3> QED BY <1>0, <2>1, <2>2, <2>4, <2>6, <3>1 DEF HostMoves
  <2> QED BY <2>1, <2>5, <2>6
<1>4. CASE PicControlOut \/ PicControlStall \/ PicAbandon \/ PicBusReset
  <2>1. xfer' = None
    BY <1>4 DEF PicControlOut, PicControlStall, PicAbandon, PicBusReset,
                HostStatusOut, HostStalled, HostAbandon, HostReset
  <2>2. HostMoves
    <3>1. CASE PicControlOut
      BY <3>1 DEF PicControlOut, HostMoves
    <3>2. CASE PicControlStall
      <4>1. HostStalled /\ dev.stall0 /\ ~dev.pktdis /\ xfer # None
        BY <3>2 DEF PicControlStall, PicHeard, HostStalled
      <4>2. Is("unknown")
        BY <4>1 DEF Is, PicControlInv
      <4> QED BY <4>1, <4>2 DEF HostMoves
    <3>3. CASE PicAbandon
      BY <3>3 DEF PicAbandon, HostAbandon, HostMoves
    <3>4. CASE PicBusReset
      BY <3>4 DEF PicBusReset, HostReset, HostMoves
    <3> QED BY <1>4, <3>1, <3>2, <3>3, <3>4
  <2> QED BY <1>0, <2>1, <2>2
<1>5. CASE PicAsk \/ PicTake \/ PicMain
  <2>1. UNCHANGED <<xfer, outcome, hostaddr>>
    BY <1>5 DEF PicAsk, PicTake, PicMain, HostAsk, HostTake, hostvars
  <2>2. \A f \in {"pktdis", "tokens", "in0", "stage"} : dev'[f] = dev[f]
    <3>1. CASE PicAsk \/ PicTake
      BY <1>1, <3>1 DEF PicAsk, PicTake
    <3>2. CASE PicMain
      <4> DEFINE e == [dev EXCEPT !.in1 = [cmd |-> dev.buf1, dts |-> dev.tx_dts], !.tx_dts = 1 - @]
      <4>1. dev' = PicArm(e)
        BY <3>2 DEF PicMain
      <4>2. DOMAIN e = DOMAIN dev /\ \A f \in {"pktdis", "tokens", "in0", "stage"} : e[f] = dev[f]
        BY <1>1
      <4> HIDE DEF e
      <4> QED BY <1>1, <4>1, <4>2 DEF PicArm
    <3> QED BY <1>5, <3>1, <3>2
  <2>3. PicDataInv'
    BY <2>1, <2>2, PicDataKeep
  <2> QED BY <2>1, <2>3 DEF HostMoves
<1>6. CASE PicUsbService
  <2>1. UNCHANGED <<xfer, outcome, hostaddr>>
    BY <1>6 DEF PicUsbService, hostvars
  <2>2. PicDataInv'
    <3>1. CASE dev.bus
      <4>1. xfer' = None
        BY <2>1, <3>1 DEF PicControlInv
      <4> QED BY <1>0, <4>1
    <3>2. CASE ~dev.bus
      <4>1. PicServeBus(dev) = dev
        BY <3>2 DEF PicServeBus
      <4>2. dev' = PicServeToken(dev) /\ dev' # dev
        BY <1>6, <4>1 DEF PicUsbService
      <4>3. dev.tokens # <<>>
        BY <4>2 DEF PicServeToken
      <4> QED BY <2>1, <3>2, <4>2, <4>3, PicTokenData
    <3> QED BY <3>1, <3>2
  <2> QED BY <2>1, <2>2 DEF HostMoves
<1> QED BY <1>2, <1>3, <1>4, <1>5, <1>6 DEF PicNext, PicHost, PicPolls

-----------------------------------------------------------------------------
(* The STM32's data                                                        *)

\* The fields of a device of the STM32's.
LEMMA StmFields ==
  ASSUME NEW d \in StmDevice
  PROVE  DOMAIN d = {"fw", "daddr", "address", "state", "bus", "setup", "in0", "sent", "data", "out0",
                     "came", "stall0", "in1", "last", "out1", "buf1", "message", "lock", "refused"}
BY DEF StmDevice

\* What of it an answer leaves alone.
StmOthers == {"daddr", "address", "state", "bus", "setup", "sent", "lock"}

\* Data asked of the HAL are the next to go out, or, while the main loop has the
\* HAL, refused.
LEMMA StmDataSent ==
  ASSUME NEW d \in StmDevice, NEW r \in Requests, NEW k \in Int
  PROVE  /\ \A f \in StmOthers : StmSend(d, r, k)[f] = d[f]
         /\ StmSend(d, r, k).stall0 = d.stall0
         /\ StmSend(d, r, k).data = [req |-> r, from |-> k]
         /\ d.lock => StmSend(d, r, k).refused /\ StmSend(d, r, k).in0 = d.in0
         /\ ~d.lock => StmSend(d, r, k).refused = d.refused /\ StmSend(d, r, k).in0 = Packet(r, k)
<1> DEFINE s == StmSend(d, r, k)
           p == Packet(r, k)
           x == [req |-> r, from |-> k]
           e == [d EXCEPT !.data = x]
<1>1. s = IF e.lock THEN [e EXCEPT !.refused = TRUE] ELSE [e EXCEPT !.in0 = p]
  BY DEF StmSend, StmAsks
<1> HIDE DEF p, x
<1>2. /\ DOMAIN e = DOMAIN d /\ e.data = x /\ e.stall0 = d.stall0 /\ e.in0 = d.in0
      /\ e.refused = d.refused /\ \A f \in StmOthers : e[f] = d[f]
  BY StmFields DEF StmOthers
<1>3. e.lock = d.lock
  BY <1>2 DEF StmOthers
<1> HIDE DEF e, s
<1>4. /\ \A f \in StmOthers : s[f] = d[f]
      /\ s.stall0 = d.stall0 /\ s.data = x
      /\ d.lock => s.refused /\ s.in0 = d.in0
      /\ ~d.lock => s.refused = d.refused /\ s.in0 = p
  <2>1. CASE d.lock
    <3>1. s = [e EXCEPT !.refused = TRUE]
      BY <1>1, <1>3, <2>1
    <3> QED BY <1>2, <2>1, <3>1, StmFields DEF StmOthers
  <2>2. CASE ~d.lock
    <3>1. s = [e EXCEPT !.in0 = p]
      BY <1>1, <1>3, <2>2
    <3> QED BY <1>2, <2>2, <3>1, StmFields DEF StmOthers
  <2> QED BY <2>1, <2>2
<1> QED BY <1>4, Zenon DEF s, p, x

\* So is the status packet, ...
LEMMA StmStatusSent ==
  ASSUME NEW d \in StmDevice, NEW r \in Requests
  PROVE  /\ \A f \in StmOthers : StmStatus(d, r)[f] = d[f]
         /\ StmStatus(d, r).stall0 = d.stall0 /\ StmStatus(d, r).data = d.data
         /\ d.lock => StmStatus(d, r).refused /\ StmStatus(d, r).in0 = d.in0
         /\ ~d.lock => StmStatus(d, r).refused = d.refused /\ StmStatus(d, r).in0 = Zero(r)
<1> DEFINE t == StmStatus(d, r)
           z == Zero(r)
<1>1. t = IF d.lock THEN [d EXCEPT !.refused = TRUE] ELSE [d EXCEPT !.in0 = z]
  BY DEF StmStatus, StmAsks
<1> HIDE DEF t, z
<1>2. /\ \A f \in StmOthers : t[f] = d[f]
      /\ t.stall0 = d.stall0 /\ t.data = d.data
      /\ d.lock => t.refused /\ t.in0 = d.in0
      /\ ~d.lock => t.refused = d.refused /\ t.in0 = z
  <2>1. CASE d.lock
    BY <1>1, <2>1, StmFields DEF StmOthers
  <2>2. CASE ~d.lock
    BY <1>1, <2>2, StmFields DEF StmOthers
  <2> QED BY <2>1, <2>2
<1> QED BY <1>2, Zenon DEF t, z

\* ... and STALL.
LEMMA StmStallSaid ==
  ASSUME NEW d \in StmDevice
  PROVE  /\ \A f \in StmOthers : StmStall(d)[f] = d[f]
         /\ StmStall(d).in0 = d.in0 /\ StmStall(d).data = d.data
         /\ d.lock => StmStall(d).refused
         /\ ~d.lock => StmStall(d).refused = d.refused
<1> DEFINE u == StmStall(d)
<1>1. u = IF d.lock THEN [d EXCEPT !.refused = TRUE] ELSE [d EXCEPT !.stall0 = TRUE]
  BY DEF StmStall, StmAsks
<1> HIDE DEF u
<1>2. /\ \A f \in StmOthers : u[f] = d[f]
      /\ u.in0 = d.in0 /\ u.data = d.data
      /\ d.lock => u.refused
      /\ ~d.lock => u.refused = d.refused
  <2>1. CASE d.lock
    BY <1>1, <2>1, StmFields DEF StmOthers
  <2>2. CASE ~d.lock
    BY <1>1, <2>2, StmFields DEF StmOthers
  <2> QED BY <2>1, <2>2
<1> QED BY <1>2, Zenon DEF u

\* The debugger's endpoints as a request leaves them are fields of a device.
LEMMA StmEndsTyped ==
  ASSUME NEW d \in StmDevice
  PROVE  /\ [d EXCEPT !.in1 = None, !.out1 = TRUE] \in StmDevice
         /\ [d EXCEPT !.in1 = d.last] \in StmDevice /\ [d EXCEPT !.out1 = TRUE] \in StmDevice
<1>1. [d EXCEPT !.in1 = None, !.out1 = TRUE] \in StmDevice
  BY DEF StmDevice
<1>2. [d EXCEPT !.in1 = d.last] \in StmDevice
  BY DEF StmDevice
<1>3. [d EXCEPT !.out1 = TRUE] \in StmDevice
  BY DEF StmDevice
<1> QED BY <1>1, <1>2, <1>3

\* A request served: answered from its start, or refused.
LEMMA StmServeSetupAll ==
  ASSUME NEW d \in StmDevice, d.setup # None, d.in0 = None, ~d.sent, d.address = 0, ~d.stall0
  PROVE  LET e == StmServeSetup(d)
             r == d.setup
         IN /\ e.setup = None /\ e.bus = d.bus /\ ~e.sent /\ e.daddr = d.daddr
            /\ ~e.refused => ~d.refused
            /\ e.in0 # None => e.in0 = Packet(r, 0) /\ r.kind # "unknown"
            /\ e.data # None => e.data.req = r /\ e.data.from = 0
            /\ e.address # 0 =>
                 /\ e.address = Address /\ r.kind = "address" /\ e.data = None
                 /\ e.state = "addressed" /\ ~e.stall0
            /\ e.in0 # None /\ r.kind = "address" => e.address # 0
            /\ ~e.refused /\ e.stall0 =>
                 \/ r.kind = "unknown"
                 \/ r.kind = "address" /\ d.state = "configured"
                 \/ r.kind = "config" /\ d.state = "default"
                 \/ r.kind = "clear" /\ d.state # "configured"
            /\ \/ e.state = d.state
               \/ r.kind = "address" /\ e.state = "addressed"
               \/ r.kind = "config" /\ e.state = "configured"
<1> DEFINE r == d.setup
           c == [d EXCEPT !.setup = None, !.data = None]
           e == StmServeSetup(d)
<1>1. r \in Requests /\ r.kind \in {"address", "config", "get", "unknown", "clear"}
      /\ (r.kind = "address" => r.arg = Address)
  BY RequestKinds DEF StmDevice
<1>2. c \in StmDevice
  BY StmFlagsTyped, Zenon
<1>3. /\ c.setup = None /\ c.data = None /\ c.in0 = None /\ c.address = 0 /\ ~c.stall0 /\ ~c.sent
      /\ \A f \in StmOthers \ {"setup"} : c[f] = d[f]
      /\ c.refused = d.refused
  <2>1. /\ c.setup = None /\ c.data = None /\ c.in0 = d.in0 /\ c.address = d.address
        /\ c.stall0 = d.stall0 /\ c.sent = d.sent /\ c.refused = d.refused
        /\ \A f \in StmOthers \ {"setup"} : c[f] = d[f]
    BY StmFields DEF StmOthers
  <2> HIDE DEF c
  <2> QED BY <2>1
<1>4. Packet(r, 0).len \in Int /\ (r.kind # "get" => Zero(r) = Packet(r, 0))
  BY <1>1, NoData, PacketTyped
<1>5. SUFFICES /\ e.setup = None /\ e.bus = c.bus /\ ~e.sent /\ e.daddr = c.daddr
               /\ ~e.refused => ~c.refused
               /\ e.in0 # None => e.in0 = Packet(r, 0) /\ r.kind # "unknown"
               /\ e.data # None => e.data.req = r /\ e.data.from = 0
               /\ e.address # 0 =>
                    /\ e.address = Address /\ r.kind = "address" /\ e.data = None
                    /\ e.state = "addressed" /\ ~e.stall0
               /\ e.in0 # None /\ r.kind = "address" => e.address # 0
               /\ ~e.refused /\ e.stall0 =>
                    \/ r.kind = "unknown"
                    \/ r.kind = "address" /\ c.state = "configured"
                    \/ r.kind = "config" /\ c.state = "default"
                    \/ r.kind = "clear" /\ c.state # "configured"
               /\ \/ e.state = c.state
                  \/ r.kind = "address" /\ e.state = "addressed"
                  \/ r.kind = "config" /\ e.state = "configured"
  <2>1. d.bus = c.bus /\ d.daddr = c.daddr /\ d.refused = c.refused /\ d.state = c.state
    BY <1>3
  <2> HIDE DEF c, e
  <2> QED BY <2>1 DEF e
<1>6. CASE r.kind = "get"
  <2>1. e = StmSend(c, r, 0)
    BY <1>6 DEF StmServeSetup
  <2> HIDE DEF e, c, r
  <2>2. /\ \A f \in StmOthers : e[f] = c[f]
        /\ e.stall0 = c.stall0 /\ e.data = [req |-> r, from |-> 0]
        /\ c.lock => e.refused /\ e.in0 = c.in0
        /\ ~c.lock => e.refused = c.refused /\ e.in0 = Packet(r, 0)
    BY <1>1, <1>2, <2>1, StmDataSent
  <2> QED BY <1>3, <1>6, <2>2 DEF StmOthers
<1>7. CASE r.kind = "unknown"
  <2>1. e = StmStall(c)
    BY <1>7 DEF StmServeSetup
  <2> HIDE DEF e, c, r
  <2>2. /\ \A f \in StmOthers : e[f] = c[f]
        /\ e.in0 = c.in0 /\ e.data = c.data
        /\ c.lock => e.refused
        /\ ~c.lock => e.refused = c.refused
    BY <1>1, <1>2, <2>1, StmStallSaid
  <2> QED BY <1>3, <1>7, <2>2 DEF StmOthers
<1>8. CASE r.kind = "address"
  <2>1. e = StmSetAddress(c, r)
    BY <1>8 DEF StmServeSetup
  <2> HIDE DEF e, c, r
  <2>2. CASE c.state = "configured"
    <3>1. e = StmStall(c)
      BY <2>1, <2>2 DEF StmSetAddress
    <3>2. /\ \A f \in StmOthers : e[f] = c[f]
          /\ e.in0 = c.in0 /\ e.data = c.data
          /\ c.lock => e.refused
          /\ ~c.lock => e.refused = c.refused
      BY <1>1, <1>2, <3>1, StmStallSaid
    <3> QED BY <1>3, <1>8, <2>2, <3>2 DEF StmOthers
  <2>3. CASE c.state # "configured"
    <3> DEFINE a == StmAsks(c, [c EXCEPT !.address = r.arg])
               g == StmStatus(a, r)
    <3>1. a \in StmDevice
      <4>1. [c EXCEPT !.address = r.arg] \in StmDevice
        BY <1>1, <1>2, <1>8 DEF StmDevice
      <4> QED BY <1>2, <4>1, StmAsksTyped
    <3>2. /\ a.in0 = None /\ a.data = None /\ ~a.stall0
          /\ \A f \in StmOthers \ {"address"} : a[f] = c[f]
          /\ c.lock => a.refused /\ a.address = 0
          /\ ~c.lock => a.refused = c.refused /\ a.address = Address
      <4>1. a = IF c.lock THEN [c EXCEPT !.refused = TRUE] ELSE [c EXCEPT !.address = r.arg]
        BY DEF StmAsks
      <4> HIDE DEF a
      <4>2. CASE c.lock
        <5>1. a = [c EXCEPT !.refused = TRUE]
          BY <4>1, <4>2
        <5> QED BY <1>2, <1>3, <4>2, <5>1, StmFields DEF StmOthers
      <4>3. CASE ~c.lock
        <5>1. a = [c EXCEPT !.address = Address]
          BY <1>1, <1>8, <4>1, <4>3
        <5> QED BY <1>2, <1>3, <4>3, <5>1, StmFields DEF StmOthers
      <4> QED BY <4>2, <4>3
    <3> HIDE DEF a
    <3>3. g \in StmDevice
      BY <1>1, <3>1, StmStatusTyped
    <3>4. /\ \A f \in StmOthers : g[f] = a[f]
          /\ g.stall0 = a.stall0 /\ g.data = a.data
          /\ a.lock => g.refused /\ g.in0 = a.in0
          /\ ~a.lock => g.refused = a.refused /\ g.in0 = Zero(r)
      BY <1>1, <3>1, StmStatusSent
    <3>5. e = [g EXCEPT !.state = "addressed"]
      BY <2>1, <2>3 DEF StmSetAddress, a
    <3> HIDE DEF g
    <3>6. /\ e.state = "addressed" /\ e.stall0 = g.stall0 /\ e.data = g.data /\ e.in0 = g.in0
          /\ e.refused = g.refused /\ \A f \in StmOthers \ {"state"} : e[f] = g[f]
      BY <3>3, <3>5, StmFields DEF StmOthers
    <3>7. CASE c.lock
      <4>1. /\ e.setup = None /\ e.bus = c.bus /\ ~e.sent /\ e.daddr = c.daddr
            /\ e.refused /\ e.in0 = None /\ e.data = None /\ e.address = 0
            /\ e.state = "addressed"
        BY <1>3, <3>2, <3>4, <3>6, <3>7 DEF StmOthers
      <4> QED BY <1>8, <4>1
    <3>8. CASE ~c.lock
      <4>1. /\ e.setup = None /\ e.bus = c.bus /\ ~e.sent /\ e.daddr = c.daddr
            /\ e.refused = c.refused /\ e.in0 = Zero(r) /\ e.data = None /\ e.address = Address
            /\ e.state = "addressed" /\ ~e.stall0
        BY <1>3, <3>2, <3>4, <3>6, <3>8 DEF StmOthers
      <4> QED BY <1>4, <1>8, <4>1, HostAssumption
    <3> QED BY <3>7, <3>8
  <2> QED BY <2>2, <2>3
<1>9. CASE r.kind = "config"
  <2>1. e = StmSetConfig(c, r)
    BY <1>9 DEF StmServeSetup
  <2>2. c.state \in {"default", "addressed", "configured"}
    BY <1>2 DEF StmDevice
  <2> HIDE DEF e, c, r
  <2>3. CASE c.state = "default"
    <3>1. e = StmStall(c)
      BY <2>1, <2>3 DEF StmSetConfig
    <3>2. /\ \A f \in StmOthers : e[f] = c[f]
          /\ e.in0 = c.in0 /\ e.data = c.data
          /\ c.lock => e.refused
          /\ ~c.lock => e.refused = c.refused
      BY <1>1, <1>2, <3>1, StmStallSaid
    <3> QED BY <1>3, <1>9, <2>3, <3>2 DEF StmOthers
  <2>4. CASE c.state = "configured"
    <3>1. e = StmStatus(c, r)
      BY <2>1, <2>4 DEF StmSetConfig
    <3>2. /\ \A f \in StmOthers : e[f] = c[f]
          /\ e.stall0 = c.stall0 /\ e.data = c.data
          /\ c.lock => e.refused /\ e.in0 = c.in0
          /\ ~c.lock => e.refused = c.refused /\ e.in0 = Zero(r)
      BY <1>1, <1>2, <3>1, StmStatusSent
    <3> QED BY <1>3, <1>4, <1>9, <2>4, <3>2 DEF StmOthers
  <2>5. CASE c.state = "addressed"
    <3> DEFINE a == StmOpened(c)
               g == [a EXCEPT !.state = "configured"]
    <3>1. a \in StmDevice
      <4>1. [c EXCEPT !.in1 = None, !.out1 = TRUE] \in StmDevice
        BY <1>2, StmEndsTyped
      <4> QED BY <1>2, <4>1, StmAsksTyped DEF StmOpened
    <3>2. /\ a.in0 = None /\ a.data = None /\ ~a.stall0
          /\ \A f \in StmOthers : a[f] = c[f]
          /\ c.lock => a.refused
          /\ ~c.lock => a.refused = c.refused
      <4>1. a = IF c.lock THEN [c EXCEPT !.refused = TRUE] ELSE [c EXCEPT !.in1 = None, !.out1 = TRUE]
        BY DEF StmOpened, StmAsks
      <4> HIDE DEF a
      <4>2. CASE c.lock
        <5>1. a = [c EXCEPT !.refused = TRUE]
          BY <4>1, <4>2
        <5> QED BY <1>2, <1>3, <4>2, <5>1, StmFields DEF StmOthers
      <4>3. CASE ~c.lock
        <5>1. a = [c EXCEPT !.in1 = None, !.out1 = TRUE]
          BY <4>1, <4>3
        <5> QED BY <1>2, <1>3, <4>3, <5>1, StmFields DEF StmOthers
      <4> QED BY <4>2, <4>3
    <3>3. e = StmStatus(g, r)
      BY <2>1, <2>5 DEF StmSetConfig
    <3> HIDE DEF a
    <3>4. g \in StmDevice
      BY <3>1 DEF StmDevice
    <3>5. /\ g.state = "configured" /\ g.in0 = a.in0 /\ g.data = a.data /\ g.stall0 = a.stall0
          /\ g.refused = a.refused /\ \A f \in StmOthers \ {"state"} : g[f] = a[f]
      BY <3>1, StmFields DEF StmOthers
    <3> HIDE DEF g
    <3>6. /\ \A f \in StmOthers : e[f] = g[f]
          /\ e.stall0 = g.stall0 /\ e.data = g.data
          /\ g.lock => e.refused /\ e.in0 = g.in0
          /\ ~g.lock => e.refused = g.refused /\ e.in0 = Zero(r)
      BY <1>1, <3>3, <3>4, StmStatusSent
    <3>7. /\ e.setup = None /\ e.bus = c.bus /\ ~e.sent /\ e.daddr = c.daddr
          /\ e.data = None /\ e.address = 0 /\ e.state = "configured" /\ ~e.stall0
          /\ ~e.refused => ~c.refused
          /\ e.in0 # None => e.in0 = Zero(r)
      BY <1>3, <3>2, <3>5, <3>6 DEF StmOthers
    <3> QED BY <1>4, <1>9, <3>7
  <2> QED BY <2>2, <2>3, <2>4, <2>5
<1>10. CASE r.kind = "clear"
  <2>1. e = StmClearFeature(c, r)
    BY <1>10 DEF StmServeSetup
  <2> HIDE DEF e, c, r
  <2>2. CASE c.state = "default"
    <3>1. e = StmStall(c)
      BY <2>1, <2>2 DEF StmClearFeature
    <3>2. /\ \A f \in StmOthers : e[f] = c[f]
          /\ e.in0 = c.in0 /\ e.data = c.data
          /\ c.lock => e.refused
          /\ ~c.lock => e.refused = c.refused
      BY <1>1, <1>2, <3>1, StmStallSaid
    <3> QED BY <1>3, <1>10, <2>2, <3>2 DEF StmOthers
  <2>4. CASE c.state = "addressed"
    <3>1. e \in {[c EXCEPT !.refused = TRUE], [c EXCEPT !.in1 = None], [c EXCEPT !.out1 = FALSE]}
      BY <2>1, <2>4 DEF StmClearFeature, StmStallEp, StmAsks
    <3>2. /\ e.in0 = c.in0 /\ e.data = c.data /\ e.stall0 = c.stall0
          /\ e.refused \/ e.refused = c.refused
          /\ \A f \in StmOthers : e[f] = c[f]
      BY <1>2, <3>1, StmFields DEF StmOthers
    <3> QED BY <1>3, <1>10, <2>4, <3>2 DEF StmOthers
  <2>3. CASE c.state = "configured"
    <3> DEFINE a == StmClear(c, r.arg)
    <3>1. a \in {[c EXCEPT !.refused = TRUE], [c EXCEPT !.in1 = c.last], [c EXCEPT !.out1 = TRUE]}
      BY DEF StmClear, StmAsks
    <3>2. e = StmStatus(a, r)
      BY <2>1, <2>3 DEF StmClearFeature
    <3> HIDE DEF a
    <3>3. a \in StmDevice
      <4>1. [c EXCEPT !.refused = TRUE] \in StmDevice
        BY <1>2, StmFlagsTyped
      <4>2. [c EXCEPT !.in1 = c.last] \in StmDevice /\ [c EXCEPT !.out1 = TRUE] \in StmDevice
        BY <1>2, StmEndsTyped
      <4> QED BY <3>1, <4>1, <4>2
    <3>4. /\ a.in0 = c.in0 /\ a.data = c.data /\ a.stall0 = c.stall0 /\ (a.refused \/ a.refused = c.refused)
          /\ \A f \in StmOthers : a[f] = c[f]
      BY <1>2, <3>1, StmFields DEF StmOthers
    <3>5. /\ \A f \in StmOthers : e[f] = a[f]
          /\ e.stall0 = a.stall0 /\ e.data = a.data
          /\ a.lock => e.refused /\ e.in0 = a.in0
          /\ ~a.lock => e.refused = a.refused /\ e.in0 = Zero(r)
      BY <1>1, <3>2, <3>3, StmStatusSent
    <3>6. /\ e.setup = None /\ e.bus = c.bus /\ ~e.sent /\ e.daddr = c.daddr
          /\ e.data = None /\ e.address = 0 /\ e.state = c.state /\ ~e.stall0
          /\ ~e.refused => ~c.refused
          /\ e.in0 # None => e.in0 = Zero(r)
      BY <1>3, <3>4, <3>5 DEF StmOthers
    <3> QED BY <1>4, <1>10, <3>6
  <2>5. c.state \in {"default", "addressed", "configured"}
    BY <1>2 DEF StmDevice
  <2> QED BY <2>2, <2>3, <2>4, <2>5
<1> QED BY <1>1, <1>6, <1>7, <1>8, <1>9, <1>10

\* A packet that has been taken is followed by the next of its data, if there
\* are more, or by the address that waits.
LEMMA StmServeInAll ==
  ASSUME NEW d \in StmDevice, d.in0 = None
  PROVE  LET e == StmServeIn(d)
             k == d.data.from + MaxPacket0
         IN /\ ~e.sent /\ e.setup = d.setup /\ e.bus = d.bus /\ e.state = d.state
            /\ e.stall0 = d.stall0
            /\ ~e.refused => ~d.refused
            /\ d.address = 0 => e.address = 0 /\ e.daddr = d.daddr
            /\ d.address # 0 /\ d.data = None =>
                 e.daddr = d.address /\ e.address = 0 /\ e.data = None /\ e.in0 = None
            /\ e.in0 # None => StmMore(d) /\ e.in0 = Packet(d.data.req, k)
            /\ e.data # None => StmMore(d) /\ e.data = [req |-> d.data.req, from |-> k]
<1> DEFINE c == [d EXCEPT !.sent = FALSE]
           a == StmDataIn(c)
           e == StmServeIn(d)
           k == d.data.from + MaxPacket0
<1>1. c \in StmDevice /\ ~c.sent /\ c.in0 = None /\ c.data = d.data /\ c.stall0 = d.stall0
      /\ c.refused = d.refused /\ \A f \in StmOthers \ {"sent"} : c[f] = d[f]
  <2>1. c \in StmDevice
    BY StmFlagsTyped, Zenon
  <2>2. /\ ~c.sent /\ c.in0 = d.in0 /\ c.data = d.data /\ c.stall0 = d.stall0
        /\ c.refused = d.refused /\ \A f \in StmOthers \ {"sent"} : c[f] = d[f]
    BY StmFields DEF StmOthers
  <2> HIDE DEF c
  <2> QED BY <2>1, <2>2
<1>2. StmMore(c) <=> StmMore(d)
  BY <1>1 DEF StmMore
<1>3. /\ DOMAIN a = DOMAIN d
      /\ \A f \in StmOthers : a[f] = c[f]
      /\ a.stall0 = c.stall0
      /\ a.refused \/ a.refused = c.refused
      /\ a.in0 # None => StmMore(d) /\ a.in0 = Packet(d.data.req, k)
      /\ a.data # None => StmMore(d) /\ a.data = [req |-> d.data.req, from |-> k]
  <2>1. CASE c.data = None
    <3>1. a = c
      BY <2>1 DEF StmDataIn
    <3> HIDE DEF a, c
    <3> QED BY <1>1, <2>1, <3>1, StmFields
  <2>2. CASE c.data # None /\ StmMore(c)
    <3>1. d.data.req \in Requests /\ k \in Int
      <4>1. d.data \in [req : Requests, from : Int]
        BY <1>1, <2>2 DEF StmDevice
      <4> QED BY <4>1, HostAssumption
    <3>2. a = StmSend(c, d.data.req, k)
      BY <1>1, <2>2 DEF StmDataIn
    <3> HIDE DEF a, c, k
    <3>3. a \in StmDevice
      BY <1>1, <3>1, <3>2, StmSendTyped
    <3>4. /\ \A f \in StmOthers : a[f] = c[f]
          /\ a.stall0 = c.stall0 /\ a.data = [req |-> d.data.req, from |-> k]
          /\ c.lock => a.refused /\ a.in0 = c.in0
          /\ ~c.lock => a.refused = c.refused /\ a.in0 = Packet(d.data.req, k)
      BY <1>1, <3>1, <3>2, StmDataSent
    <3>5. DOMAIN a = DOMAIN d
      BY <3>3, StmFields
    <3> QED BY <1>1, <1>2, <2>2, <3>4, <3>5
  <2>3. CASE c.data # None /\ ~StmMore(c)
    <3> DEFINE b == [c EXCEPT !.data = None]
    <3>1. a = IF b.lock THEN [b EXCEPT !.refused = TRUE] ELSE [c EXCEPT !.data = None, !.out0 = TRUE]
      BY <2>3 DEF StmDataIn, StmAsks
    <3> HIDE DEF a, c
    <3>2. CASE b.lock
      <4>1. a = [[c EXCEPT !.data = None] EXCEPT !.refused = TRUE]
        BY <3>1, <3>2
      <4> QED BY <1>1, <4>1, StmFields DEF StmOthers
    <3>3. CASE ~b.lock
      <4>1. a = [c EXCEPT !.data = None, !.out0 = TRUE]
        BY <3>1, <3>3
      <4> QED BY <1>1, <4>1, StmFields DEF StmOthers
    <3> QED BY <3>2, <3>3
  <2> QED BY <2>1, <2>2, <2>3
<1>4. e = IF d.address # 0 /\ ~StmMore(a) THEN [a EXCEPT !.daddr = d.address, !.address = 0] ELSE a
  BY DEF StmServeIn
<1>5. d.data = None => ~StmMore(a)
  <2> HIDE DEF a, c
  <2> QED BY <1>3 DEF StmMore
<1> HIDE DEF a, c, e, k
<1>6. /\ ~e.sent /\ e.setup = d.setup /\ e.bus = d.bus /\ e.state = d.state
      /\ e.stall0 = d.stall0 /\ e.refused = a.refused /\ e.in0 = a.in0 /\ e.data = a.data
      /\ d.address = 0 => e.address = 0 /\ e.daddr = d.daddr
      /\ d.address # 0 /\ ~StmMore(a) => e.daddr = d.address /\ e.address = 0
  <2>1. CASE d.address # 0 /\ ~StmMore(a)
    <3>1. e = [a EXCEPT !.daddr = d.address, !.address = 0]
      BY <1>4, <2>1
    <3> QED BY <1>1, <1>3, <2>1, <3>1, StmFields DEF StmOthers
  <2>2. CASE ~(d.address # 0 /\ ~StmMore(a))
    <3>1. e = a
      BY <1>4, <2>2
    <3> QED BY <1>1, <1>3, <2>2, <3>1 DEF StmOthers
  <2> QED BY <2>1, <2>2
<1>7. /\ ~e.sent /\ e.setup = d.setup /\ e.bus = d.bus /\ e.state = d.state
      /\ e.stall0 = d.stall0
      /\ ~e.refused => ~d.refused
      /\ d.address = 0 => e.address = 0 /\ e.daddr = d.daddr
      /\ d.address # 0 /\ d.data = None =>
           e.daddr = d.address /\ e.address = 0 /\ e.data = None /\ e.in0 = None
      /\ e.in0 # None => StmMore(d) /\ e.in0 = Packet(d.data.req, k)
      /\ e.data # None => StmMore(d) /\ e.data = [req |-> d.data.req, from |-> k]
  <2>1. d.data = None => ~StmMore(d)
    BY DEF StmMore
  <2> QED BY <1>1, <1>3, <1>5, <1>6, <2>1
<1> QED BY <1>7, Zenon DEF e, k

\* What the address and the data depend on left alone, they agree as before.
LEMMA StmDataKeep ==
  ASSUME Stm, UNCHANGED <<xfer, hostaddr>>, StmAddressInv, StmDataInv,
         \A f \in {"fw", "daddr", "address", "state", "bus", "setup", "in0", "sent", "data", "stall0"} :
           dev'[f] = dev[f],
         ~dev'.refused => ~dev.refused
  PROVE  StmAddressInv' /\ StmDataInv'
<1>1. /\ dev'.daddr = dev.daddr /\ dev'.address = dev.address /\ dev'.state = dev.state
      /\ dev'.bus = dev.bus /\ dev'.setup = dev.setup /\ dev'.in0 = dev.in0 /\ dev'.sent = dev.sent
      /\ dev'.data = dev.data /\ dev'.stall0 = dev.stall0
  OBVIOUS
<1>2. StmAddr' = StmAddr /\ (Is("address")' <=> Is("address"))
  BY <1>1 DEF StmAddr, Is
<1>3. StmAddressInv'
  BY <1>1, <1>2 DEF StmAddressInv
<1>4. StmDataInv'
  BY <1>1 DEF StmDataInv
<1> QED BY <1>3, <1>4

\* Only a host without care takes a request that gives an address away from the
\* device.
LEMMA StmAddressStays ==
  ASSUME StmControlInv, StmAddressInv, xfer # None => ~StmGivenAddress
  PROVE  /\ dev.address # 0 => dev.sent
         /\ dev.setup # None => dev.setup.kind # "address"
<1>1. dev.address # 0 => dev.sent
  BY DEF StmAddressInv, Is, StmGivenAddress
<1>2. dev.setup # None => dev.setup.kind # "address"
  BY DEF StmAddressInv, StmControlInv, StmGivenAddress
<1> QED BY <1>1, <1>2

\* A request comes when nothing is left of the last.
LEMMA StmSetupData ==
  ASSUME "stm32f0x2" \in Calm, dev \in StmDevice, StmControlInv, StmAddressInv, StmDataInv, StmSetup
  PROVE  StmAddressInv' /\ StmDataInv' /\ HostMoves
<1>1. PICK r \in StmRequests :
        /\ StmRecovered
        /\ HostSetup(r, StmCare(r))
        /\ dev' = IF StmHeard
                  THEN [dev EXCEPT !.setup = r, !.in0 = None, !.out0 = FALSE, !.came = FALSE,
                                   !.stall0 = FALSE]
                  ELSE dev
  BY DEF StmSetup
<1>2. /\ Stm /\ ~dev.bus /\ xfer = None /\ ~dev.sent /\ Legal(r) /\ r \in Requests
      /\ xfer' = [req |-> r, n |-> 0, last |-> None,
                  stage |-> IF r.kind = "get" THEN "data" ELSE "status"]
      /\ outcome' = "none" /\ hostaddr' = hostaddr
  <2>1. dev.fw \in Calm /\ Stm /\ ~dev.bus
    BY <1>1 DEF StmDevice, StmRecovered
  <2>2. StmCare(r)
    BY <1>1, <2>1 DEF HostSetup, WithCare
  <2> QED BY <1>1, <2>1, <2>2, RequestKinds DEF HostSetup, StmCare
<1>3. Begins(r) /\ (r.kind = "config" => hostaddr # 0)
  BY <1>2 DEF Begins, Legal
<1>4. HostMoves
  BY <1>2, <1>3 DEF HostMoves
<1>5. xfer'.req = r /\ xfer'.n = 0 /\ r # None /\ xfer' # None
  <2>1. xfer' \in [req : Requests, n : {0}, last : {None}, stage : {"data", "status"}]
    BY <1>2
  <2> QED BY <1>2, <2>1, HostAssumption
<1>6. dev.address = 0 /\ StmAddr = dev.daddr
  BY <1>2, HostAssumption DEF StmAddressInv, Is, StmAddr
<1>7. CASE StmHeard
  <2>1. dev' = [dev EXCEPT !.setup = r, !.in0 = None, !.out0 = FALSE, !.came = FALSE, !.stall0 = FALSE]
    BY <1>1, <1>7
  <2>2. /\ dev'.setup = r /\ dev'.in0 = None /\ dev'.stall0 = FALSE /\ dev'.address = 0
        /\ \A f \in {"daddr", "state", "bus", "sent", "data", "refused"} : dev'[f] = dev[f]
    BY <1>6, <2>1, StmFields
  <2>3. StmAddr' = dev.daddr
    BY <1>2, <2>2 DEF StmAddr
  <2>4. StmAddressInv'
    BY <1>2, <1>3, <1>5, <1>6, <2>2, <2>3 DEF StmAddressInv
  <2>5. StmDataInv'
    BY <1>5, <2>2 DEF StmDataInv
  <2> QED BY <1>4, <2>4, <2>5
<1>8. CASE ~StmHeard
  <2>1. dev' = dev
    BY <1>1, <1>8
  <2>2. dev.daddr # hostaddr /\ dev.refused /\ dev.setup = None
    BY <1>2, <1>6, <1>8 DEF StmHeard, StmAddressInv, StmControlInv
  <2>3. StmAddressInv'
    BY <1>6, <2>1, <2>2 DEF StmAddressInv
  <2>4. StmDataInv'
    BY <1>2, <2>1, <2>2 DEF StmDataInv
  <2> QED BY <1>4, <2>3, <2>4
<1> QED BY <1>7, <1>8

\* The packet that goes out is the next of the transfer's.
LEMMA StmControlInData ==
  ASSUME dev \in StmDevice, HostInv, StmControlInv, StmAddressInv, StmDataInv, StmControlIn
  PROVE  StmAddressInv' /\ StmDataInv' /\ HostMoves
<1>1. /\ dev.daddr = hostaddr /\ ~dev.bus /\ dev.setup = None /\ dev.in0 # None /\ xfer # None
      /\ HostData(dev.in0) \/ HostStatusIn(dev.in0)
      /\ dev' = [dev EXCEPT !.in0 = None, !.sent = TRUE]
  BY DEF StmControlIn, StmReady, StmHeard, HostData, HostStatusIn
<1>2. /\ dev'.in0 = None /\ dev'.sent = TRUE /\ dev'.setup = None
      /\ \A f \in {"daddr", "address", "state", "bus", "setup", "data", "stall0", "refused"} :
           dev'[f] = dev[f]
  BY <1>1, StmFields
<1>3. /\ dev.in0 = Packet(xfer.req, xfer.n) /\ dev.in0.req = xfer.req /\ ~dev.sent
      /\ dev.in0.req.kind # "unknown"
      /\ dev.data # None => dev.data.from = xfer.n /\ dev.data.req = xfer.req
      /\ dev.address # 0 => Is("address")
  BY <1>1 DEF StmDataInv, StmControlInv, StmAddressInv
<1>4. dev.address \in {0, Address} /\ dev.in0 \in Packets
  BY <1>1 DEF StmDevice
<1>5. CASE HostData(dev.in0)
  <2>1. xfer'.req = xfer.req /\ xfer'.n = xfer.n + dev.in0.len /\ hostaddr' = hostaddr
        /\ xfer.req.kind = "get"
    <3>1. DOMAIN xfer = {"req", "n", "last", "stage"} /\ xfer.req.kind = "get"
      BY <1>1, <1>5, TransferUnderWay DEF HostData
    <3> QED BY <1>5, <3>1 DEF HostData
  <2>2. dev.address = 0 /\ dev'.address = 0
    BY <1>2, <1>3, <2>1 DEF Is
  <2>3. StmAddr' = StmAddr
    BY <1>1, <1>2, <2>2 DEF StmAddr
  <2>4. StmAddressInv'
    BY <1>2, <2>1, <2>2, <2>3 DEF StmAddressInv
  <2>5. dev'.data # None => xfer'.n = dev'.data.from + Packet(dev'.data.req, dev'.data.from).len
    BY <1>2, <1>3, <2>1
  <2>6. StmDataInv'
    BY <1>1, <1>2, <2>1, <2>5 DEF StmDataInv
  <2>7. HostMoves
    BY <1>3, <1>5 DEF HostMoves
  <2> QED BY <2>4, <2>6, <2>7
<1>6. CASE HostStatusIn(dev.in0)
  <2>1. /\ xfer' = None /\ hostaddr' = IF xfer.req.kind = "address" THEN xfer.req.arg ELSE hostaddr
    BY <1>6 DEF HostStatusIn
  <2>2. HostMoves
    BY <1>1, <1>3, <1>4, <1>6 DEF HostMoves
  <2>3. StmDataInv'
    BY <1>2, <2>1 DEF StmDataInv
  <2>4. StmAddressInv'
    <3>1. CASE xfer.req.kind = "address"
      <4>1. dev.address # 0 /\ dev.address = Address
        BY <1>1, <1>3, <1>4, <3>1 DEF StmAddressInv
      <4>2. hostaddr' = Address /\ Address # 0
        <5>1. xfer.req \in Requests
          BY <1>1, TransferUnderWay
        <5> QED BY <2>1, <3>1, <5>1, RequestKinds, HostAssumption
      <4>3. dev.data = None /\ dev.state = "addressed"
        BY <4>1 DEF StmAddressInv
      <4>4. StmAddr' = Address
        BY <1>1, <1>2, <4>1, <4>2 DEF StmAddr
      <4> QED BY <1>1, <1>2, <4>1, <4>2, <4>3, <4>4 DEF StmAddressInv
    <3>2. CASE xfer.req.kind # "address"
      <4>1. dev.address = 0 /\ hostaddr' = hostaddr
        BY <1>3, <2>1, <3>2 DEF Is
      <4>2. StmAddr' = StmAddr
        BY <1>1, <1>2, <4>1 DEF StmAddr
      <4> QED BY <1>1, <1>2, <4>1, <4>2 DEF StmAddressInv
    <3> QED BY <3>1, <3>2
  <2> QED BY <2>2, <2>3, <2>4
<1> QED BY <1>1, <1>5, <1>6

\* A transfer that ends otherwise leaves no address waiting for its status stage.
LEMMA StmEndsData ==
  ASSUME "stm32f0x2" \in Calm, dev \in StmDevice, StmControlInv, StmAddressInv, StmDataInv,
         StmControlOut \/ StmControlStall \/ StmAbandon \/ StmBusReset
  PROVE  StmAddressInv' /\ StmDataInv' /\ HostMoves
<1>1. dev.fw \in Calm /\ xfer' = None
  BY DEF StmDevice, StmControlOut, StmControlStall, StmAbandon, StmBusReset,
         HostStatusOut, HostStalled, HostAbandon, HostReset
<1>2. CASE StmControlOut
  <2>1. /\ dev.setup = None /\ xfer # None /\ xfer.req.kind = "get" /\ hostaddr' = hostaddr
        /\ dev' = [dev EXCEPT !.out0 = FALSE, !.came = TRUE]
    BY <1>2 DEF StmControlOut, StmReady, HostStatusOut
  <2>2. \A f \in {"daddr", "address", "state", "bus", "setup", "in0", "sent", "data", "stall0", "refused"} :
          dev'[f] = dev[f]
    BY <2>1, StmFields
  <2>3. dev.address # 0 => dev.sent
    BY <2>1 DEF StmAddressInv, Is
  <2>4. StmAddr' = StmAddr
    BY <2>2 DEF StmAddr
  <2>5. StmAddressInv'
    BY <2>1, <2>2, <2>3, <2>4 DEF StmAddressInv
  <2>6. StmDataInv'
    BY <1>1, <2>2 DEF StmDataInv
  <2>7. HostMoves
    BY <1>2 DEF StmControlOut, HostMoves
  <2> QED BY <2>5, <2>6, <2>7
<1>3. CASE StmControlStall
  <2>1. /\ Stm /\ dev.setup = None /\ xfer # None /\ dev.stall0 /\ hostaddr' = hostaddr
        /\ dev' = dev /\ HostStalled
    BY <1>3 DEF StmControlStall, StmReady, StmHeard, HostStalled
  <2>2. dev.address # 0 => dev.sent
    BY <2>1 DEF StmAddressInv
  <2>3. StmAddr' = StmAddr
    BY <2>1 DEF StmAddr
  <2>4. StmAddressInv'
    BY <2>1, <2>2, <2>3 DEF StmAddressInv
  <2>5. StmDataInv'
    BY <1>1, <2>1 DEF StmDataInv
  <2>6. Is("unknown") \/ Lost
    BY <2>1 DEF StmDataInv, Is, Lost
  <2> QED BY <2>1, <2>4, <2>5, <2>6 DEF HostMoves
<1>4. CASE StmAbandon
  <2>1. /\ xfer # None /\ ~StmGivenAddress /\ dev' = dev /\ hostaddr' = hostaddr /\ outcome' = "none"
    BY <1>1, <1>4 DEF StmAbandon, HostAbandon, WithCare
  <2>2. /\ dev.address # 0 => dev.sent
        /\ dev.setup # None => dev.setup.kind # "address"
    BY <2>1, StmAddressStays
  <2>3. StmAddr' = StmAddr
    BY <2>1 DEF StmAddr
  <2>4. StmAddressInv'
    BY <2>1, <2>2, <2>3 DEF StmAddressInv
  <2>5. StmDataInv'
    BY <1>1, <2>1 DEF StmDataInv
  <2> QED BY <1>1, <2>1, <2>4, <2>5 DEF HostMoves
<1>5. CASE StmBusReset
  <2>1. /\ xfer # None => ~StmGivenAddress
        /\ hostaddr' = 0 /\ outcome' = "none"
        /\ dev' = [dev EXCEPT !.bus = TRUE, !.in0 = None, !.out0 = FALSE, !.stall0 = FALSE,
                              !.in1 = None, !.out1 = FALSE]
    BY <1>1, <1>5 DEF StmBusReset, HostReset, WithCare
  <2>2. /\ dev'.bus = TRUE /\ dev'.in0 = None /\ dev'.stall0 = FALSE
        /\ \A f \in {"address", "state", "setup", "sent", "data"} : dev'[f] = dev[f]
    BY <2>1, StmFields
  <2>3. /\ dev.address # 0 => dev.sent
        /\ dev.setup # None => dev.setup.kind # "address"
    BY <2>1, StmAddressStays
  <2>4. StmAddressInv'
    BY <2>2, <2>3 DEF StmAddressInv
  <2>5. StmDataInv'
    BY <1>1, <2>2 DEF StmDataInv
  <2> QED BY <1>1, <2>1, <2>4, <2>5 DEF HostMoves
<1> QED BY <1>2, <1>3, <1>4, <1>5

\* A request served is answered from its start, and refused only when the device
\* does not know it.
LEMMA StmServeSetupData ==
  ASSUME dev \in StmDevice, HostInv, StmControlInv, StmOnePlace, StmAddressInv, StmDataInv,
         Stm, dev.setup # None, dev' = StmServeSetup(dev), UNCHANGED <<xfer, hostaddr>>
  PROVE  StmAddressInv' /\ StmDataInv'
<1> DEFINE r == dev.setup
<1>1. dev.in0 = None /\ ~dev.sent /\ ~dev.stall0 /\ dev.address = 0
      /\ (xfer # None => r = xfer.req /\ xfer.n = 0 /\ ~dev.bus)
      /\ (r.kind = "address" => xfer # None /\ hostaddr = 0)
      /\ (r.kind = "config" /\ ~dev.bus => hostaddr # 0)
  BY DEF StmControlInv, StmAddressInv, StmDataInv, HostInv
<1>2. /\ dev'.setup = None /\ dev'.bus = dev.bus /\ ~dev'.sent /\ dev'.daddr = dev.daddr
      /\ ~dev'.refused => ~dev.refused
      /\ dev'.in0 # None => dev'.in0 = Packet(r, 0) /\ r.kind # "unknown"
      /\ dev'.data # None => dev'.data.req = r /\ dev'.data.from = 0
      /\ dev'.address # 0 =>
           /\ dev'.address = Address /\ r.kind = "address" /\ dev'.data = None
           /\ dev'.state = "addressed" /\ ~dev'.stall0
      /\ dev'.in0 # None /\ r.kind = "address" => dev'.address # 0
      /\ ~dev'.refused /\ dev'.stall0 =>
           \/ r.kind = "unknown"
           \/ r.kind = "address" /\ dev.state = "configured"
           \/ r.kind = "config" /\ dev.state = "default"
           \/ r.kind = "clear" /\ dev.state # "configured"
      /\ \/ dev'.state = dev.state
         \/ r.kind = "address" /\ dev'.state = "addressed"
         \/ r.kind = "config" /\ dev'.state = "configured"
  BY <1>1, StmServeSetupAll
<1>3. Packet(r, 0).req = r /\ Packet(r, 0).from = 0
  BY DEF Packet
<1>4. ~dev.refused /\ ~dev.bus =>
        /\ StmAddr = hostaddr /\ StmAddr = dev.daddr
        /\ IF hostaddr = 0 THEN dev.state # "configured" ELSE dev.state # "default"
  BY <1>1 DEF StmAddressInv, StmAddr
<1>5. ~dev'.sent /\ ~dev'.bus => StmAddr' = dev.daddr
  BY <1>2 DEF StmAddr
<1> HIDE DEF r
<1>6. StmAddressInv'
  <2>1. dev'.address # 0 =>
          /\ dev'.data = None /\ dev'.setup = None /\ dev'.state = "addressed"
          /\ Is("address")' /\ ~dev'.stall0
    <3>1. xfer' = xfer
      OBVIOUS
    <3> QED BY <1>1, <1>2, <3>1 DEF Is
  <2>2. dev'.in0 # None /\ dev'.in0.req.kind = "address" => dev'.address # 0
    BY <1>2, <1>3
  <2>3. ~dev'.refused /\ ~dev'.bus =>
          /\ StmAddr' = hostaddr'
          /\ IF hostaddr' = 0 THEN dev'.state # "configured" ELSE dev'.state # "default"
    <3>1. hostaddr' = hostaddr
      OBVIOUS
    <3>2. ~dev'.refused /\ ~dev'.bus => ~dev.refused /\ ~dev.bus /\ StmAddr' = dev.daddr
      BY <1>2, <1>5
    <3> QED BY <1>1, <1>2, <1>4, <3>1, <3>2
  <2> QED BY <1>2, <2>1, <2>2, <2>3 DEF StmAddressInv
<1>7. StmDataInv'
  <2>1. xfer' # None /\ dev'.in0 # None => dev'.in0 = Packet(xfer'.req, xfer'.n)
    BY <1>1, <1>2
  <2>2. xfer' # None /\ dev'.data # None => dev'.data.from = xfer'.n
    BY <1>1, <1>2
  <2>3. dev'.in0 # None => dev'.in0.req.kind # "unknown"
    BY <1>2, <1>3
  <2>4. xfer' # None /\ dev'.stall0 /\ ~dev'.refused => xfer'.req.kind = "unknown"
    <3>1. SUFFICES ASSUME xfer # None, dev'.stall0, ~dev'.refused
                   PROVE  r.kind = "unknown"
      BY <1>1
    <3>2. ~dev.refused /\ ~dev.bus
      BY <1>1, <1>2, <3>1
    <3>3. r.kind = "clear" => dev.state = "configured"
      <4>1. r.kind = "clear" => conf
        BY <1>1, <3>1 DEF HostInv
      <4> QED BY <4>1 DEF StmOnePlace
    <3> QED BY <1>1, <1>2, <1>4, <3>1, <3>2, <3>3
  <2> QED BY <1>2, <2>1, <2>2, <2>3, <2>4 DEF StmDataInv
<1> QED BY <1>6, <1>7

\* The packet that follows one that has been taken is the next of the transfer's.
LEMMA StmServeInData ==
  ASSUME dev \in StmDevice, StmControlInv, StmAddressInv, StmDataInv,
         Stm, dev.setup = None, dev.sent, dev' = StmServeIn(dev), UNCHANGED <<xfer, hostaddr>>
  PROVE  StmAddressInv' /\ StmDataInv'
<1> DEFINE k == dev.data.from + MaxPacket0
<1>1. dev.in0 = None
  BY DEF StmControlInv
<1>2. /\ ~dev'.sent /\ dev'.setup = None /\ dev'.bus = dev.bus /\ dev'.state = dev.state
      /\ dev'.stall0 = dev.stall0
      /\ ~dev'.refused => ~dev.refused
      /\ dev.address = 0 => dev'.address = 0 /\ dev'.daddr = dev.daddr
      /\ dev.address # 0 /\ dev.data = None =>
           dev'.daddr = dev.address /\ dev'.address = 0 /\ dev'.data = None /\ dev'.in0 = None
      /\ dev'.in0 # None => StmMore(dev) /\ dev'.in0 = Packet(dev.data.req, k)
      /\ dev'.data # None => StmMore(dev) /\ dev'.data = [req |-> dev.data.req, from |-> k]
  BY <1>1, StmServeInAll
<1>3. dev.address # 0 => dev.data = None
  BY DEF StmAddressInv
<1>4. dev'.address = 0
  BY <1>2, <1>3
<1>5. StmAddr' = StmAddr
  BY <1>2, <1>3, <1>4 DEF StmAddr
<1>6. StmMore(dev) =>
        /\ dev.data # None /\ dev.data.req.kind = "get" /\ dev.address = 0
        /\ Packet(dev.data.req, dev.data.from).len = MaxPacket0
  <2>1. SUFFICES ASSUME dev.data # None, dev.data.from + MaxPacket0 < Total(dev.data.req)
                 PROVE  /\ dev.data.req.kind = "get" /\ dev.address = 0
                        /\ Packet(dev.data.req, dev.data.from).len = MaxPacket0
    BY DEF StmMore
  <2>2. dev.data.req.kind = "get" /\ dev.address = 0
    BY <1>3, <2>1 DEF StmControlInv
  <2>3. dev.data.from \in Int /\ dev.data.req \in Requests
    BY <2>1 DEF StmDevice
  <2>4. Total(dev.data.req) \in Int
    BY <2>3, NoData
  <2>5. MaxPacket0 < Total(dev.data.req) - dev.data.from
    BY <2>1, <2>3, <2>4, HostAssumption
  <2> QED BY <2>2, <2>5 DEF Packet, Smaller
<1>7. Packet(dev.data.req, k).req = dev.data.req
  BY DEF Packet
<1>8. StmAddressInv'
  <2>1. dev'.in0 # None => dev'.in0.req.kind = "get"
    BY <1>2, <1>6, <1>7
  <2> QED BY <1>2, <1>4, <1>5, <2>1 DEF StmAddressInv
<1>9. StmDataInv'
  <2>1. ASSUME xfer # None, dev'.daddr = hostaddr, StmMore(dev)
        PROVE  xfer.n = k /\ dev.data.req = xfer.req
    <3>1. dev.data.req = xfer.req
      BY <1>6, <2>1 DEF StmControlInv
    <3>2. dev.daddr = hostaddr
      BY <1>2, <1>6, <2>1
    <3>3. xfer.n = dev.data.from + Packet(dev.data.req, dev.data.from).len
      BY <1>6, <2>1, <3>2 DEF StmDataInv
    <3> QED BY <1>6, <2>1, <3>1, <3>3
  <2> HIDE DEF k
  <2>2. dev'.in0 # None => dev'.in0.req.kind # "unknown"
    BY <1>2, <1>6, <1>7
  <2>3. xfer' # None /\ dev'.daddr = hostaddr' /\ dev'.in0 # None =>
          dev'.in0 = Packet(xfer'.req, xfer'.n)
    BY <1>2, <2>1
  <2>4. xfer' # None /\ dev'.daddr = hostaddr' /\ dev'.data # None => dev'.data.from = xfer'.n
    BY <1>2, <2>1
  <2>5. xfer' # None /\ dev'.stall0 /\ ~dev'.refused => xfer'.req.kind = "unknown"
    BY <1>2 DEF StmDataInv
  <2> QED BY <1>2, <2>2, <2>3, <2>4, <2>5 DEF StmDataInv
<1> QED BY <1>8, <1>9

\* A reset served leaves no address.
LEMMA StmResetData ==
  ASSUME dev \in StmDevice, StmControlInv, StmAddressInv, StmDataInv, StmReset
  PROVE  StmAddressInv' /\ StmDataInv'
<1> DEFINE e == [dev EXCEPT !.bus = FALSE, !.state = "default"]
           g == [e EXCEPT !.daddr = 0, !.out0 = TRUE, !.in0 = None, !.in1 = None,
                          !.out1 = FALSE, !.refused = FALSE]
           h == [e EXCEPT !.refused = TRUE]
<1>1. /\ dev.setup = None /\ ~dev.sent /\ dev.bus /\ xfer = None /\ hostaddr = 0
      /\ xfer' = xfer /\ hostaddr' = hostaddr
      /\ dev' \in {g, h}
  BY DEF StmReset, StmControlDone, StmServeBus, StmAsks, StmControlInv, hostvars
<1>2. dev.address = 0 /\ (dev.in0 # None => dev.in0.req.kind \notin {"address", "unknown"})
  BY <1>1 DEF StmAddressInv, StmDataInv, Is
<1>3. /\ dev'.bus = FALSE /\ dev'.state = "default" /\ dev'.in0 \in {dev.in0, None}
      /\ dev'.refused \/ dev'.daddr = 0
      /\ \A f \in {"address", "setup", "sent", "data", "stall0"} : dev'[f] = dev[f]
  <2>1. DOMAIN e = DOMAIN dev /\ e.bus = FALSE /\ e.state = "default" /\ e.in0 = dev.in0
        /\ \A f \in {"address", "setup", "sent", "data", "stall0"} : e[f] = dev[f]
    BY StmFields
  <2> HIDE DEF e
  <2>2. CASE dev' = g
    BY <2>1, <2>2, StmFields
  <2>3. CASE dev' = h
    BY <2>1, <2>3, StmFields
  <2> QED BY <1>1, <2>2, <2>3
<1> HIDE DEF e, g, h
<1>4. ~dev'.refused => StmAddr' = 0
  BY <1>2, <1>3 DEF StmAddr
<1>5. StmAddressInv'
  BY <1>1, <1>2, <1>3, <1>4 DEF StmAddressInv
<1>6. StmDataInv'
  BY <1>1, <1>2, <1>3 DEF StmDataInv
<1> QED BY <1>5, <1>6

\* What goes out is what the host asks for, whatever it does and the interrupt
\* serves.
LEMMA StmDataStep ==
  ASSUME "stm32f0x2" \in Calm, dev \in StmDevice, HostInv, StmControlInv, StmOnePlace,
         StmAddressInv, StmDataInv, StmNext
  PROVE  StmAddressInv' /\ StmDataInv' /\ HostMoves
<1> DEFINE R == {"fw", "daddr", "address", "state", "bus", "setup", "in0", "sent", "data", "stall0"}
<1>0. Stm
  BY DEF StmDevice, Stm
<1>1. CASE StmSetup
  BY <1>1, StmSetupData
<1>2. CASE StmControlIn
  BY <1>2, StmControlInData
<1>3. CASE StmControlOut \/ StmControlStall \/ StmAbandon \/ StmBusReset
  BY <1>3, StmEndsData
<1>4. CASE StmAsk \/ StmTake \/ StmService \/ StmServiced
  <2>1. UNCHANGED <<xfer, outcome, hostaddr>>
    BY <1>4 DEF StmAsk, StmTake, StmService, StmServiced, HostAsk, HostTake, hostvars
  <2>2. \A f \in R \cup {"refused"} : dev'[f] = dev[f]
    BY <1>4, StmFields DEF StmAsk, StmTake, StmService, StmServiced
  <2> QED BY <1>0, <2>1, <2>2, StmDataKeep DEF HostMoves
<1>5. CASE StmControl
  <2>1. UNCHANGED <<xfer, outcome, hostaddr>>
    BY <1>5 DEF StmControl, hostvars
  <2>2. CASE dev.setup # None /\ dev' = StmServeSetup(dev)
    BY <1>0, <2>1, <2>2, StmServeSetupData DEF HostMoves
  <2>3. CASE dev' = StmServeOut(dev)
    <3>1. \A f \in R \cup {"refused"} : dev'[f] = dev[f]
      BY <2>3, StmFields DEF StmServeOut
    <3> QED BY <1>0, <2>1, <3>1, StmDataKeep DEF HostMoves
  <2>4. CASE dev.setup = None /\ dev.sent /\ dev' = StmServeIn(dev)
    BY <1>0, <2>1, <2>4, StmServeInData DEF HostMoves
  <2> QED BY <1>5, <2>2, <2>3, <2>4 DEF StmControl
<1>6. CASE StmCommand
  <2> DEFINE e == [dev EXCEPT !.buf1 = None]
  <2>1. UNCHANGED <<xfer, outcome, hostaddr>> /\ dev' = StmServeCommand(dev)
    BY <1>6 DEF StmCommand, hostvars
  <2>2. dev' \in {e, [e EXCEPT !.refused = TRUE], [e EXCEPT !.out1 = TRUE, !.message = dev.buf1]}
    BY <2>1 DEF StmServeCommand, StmAsks
  <2>3. DOMAIN e = DOMAIN dev /\ \A f \in R \cup {"refused"} : e[f] = dev[f]
    BY StmFields
  <2> HIDE DEF e
  <2>4. (\A f \in R : dev'[f] = dev[f]) /\ (~dev'.refused => ~dev.refused)
    BY <2>2, <2>3, StmFields
  <2> QED BY <1>0, <2>1, <2>4, StmDataKeep DEF HostMoves
<1>7. CASE StmReset
  <2>1. UNCHANGED <<xfer, outcome, hostaddr>>
    BY <1>7 DEF StmReset, hostvars
  <2> QED BY <1>7, <2>1, StmResetData DEF HostMoves
<1> QED BY <1>1, <1>2, <1>3, <1>4, <1>5, <1>6, <1>7
        DEF StmNext, StmHost, StmPolls, StmInterrupt

-----------------------------------------------------------------------------
(* The contract                                                            *)

\* At power-up no data are under way.
LEMMA TransfersStart == Init => TransfersInv
<1> SUFFICES ASSUME Init PROVE TransfersInv
  OBVIOUS
<1>1. xfer = None /\ hostaddr = 0 /\ DeviceTypes
  BY DeviceStart DEF Init, HostInit
<1>2. HostTransferInv /\ PicDataInv
  BY <1>1 DEF HostTransferInv, PicDataInv
<1>3. NucDataInv
  <2>1. Nuc => NucInit
    BY DEF Init, NucInit, SamInit, PicInit, StmInit, Nuc
  <2>2. NucInit => dev.in0 = None /\ dev.setup = None
    BY DEF NucInit
  <2> QED BY <1>1, <2>1, <2>2 DEF NucDataInv
<1>4. SamDataInv
  <2>1. Sam => SamInit
    BY DEF Init, NucInit, SamInit, PicInit, StmInit, Sam
  <2>2. SamInit => dev.wait = None /\ dev.setup = None
    BY DEF SamInit
  <2> QED BY <1>1, <2>1, <2>2 DEF SamDataInv
<1>5. StmTransferInv
  <2>1. Stm => StmInit
    BY DEF Init, NucInit, SamInit, PicInit, StmInit, Stm
  <2>2. StmInit => /\ dev.in0 = None /\ dev.setup = None /\ dev.address = 0 /\ dev.daddr = 0
                   /\ ~dev.bus /\ ~dev.sent /\ dev.state = "default"
    BY DEF StmInit
  <2>3. SUFFICES ASSUME Stm PROVE StmAddressInv /\ StmDataInv
    BY DEF StmTransferInv
  <2>4. StmAddr = 0
    BY <2>1, <2>2, <2>3 DEF StmAddr
  <2>5. StmAddressInv
    BY <1>1, <2>1, <2>2, <2>3, <2>4 DEF StmAddressInv
  <2>6. StmDataInv
    BY <1>1, <2>1, <2>2, <2>3 DEF StmDataInv
  <2> QED BY <2>5, <2>6
<1> QED BY <1>2, <1>3, <1>4, <1>5 DEF TransfersInv

\* A step of host and device is one of the moves, and leaves their data agreed.
LEMMA TransfersStep ==
  ASSUME {"nuc121", "samd11", "pic16", "stm32f0x2"} \subseteq Calm, DevicesInv, Next
  PROVE  TransfersInv' /\ HostMoves
<1>0. "nuc121" \in Calm /\ "samd11" \in Calm /\ "pic16" \in Calm /\ "stm32f0x2" \in Calm
  OBVIOUS
<1>1. DeviceTypes /\ HostInv /\ HostTransferInv /\ NucDataInv /\ SamDataInv /\ PicDataInv
      /\ (Nuc => NucControlInv /\ NucAddressInv) /\ (Sam => SamControlInv) /\ (Pic => PicControlInv)
      /\ (Stm => StmControlInv /\ StmOnePlace /\ StmAddressInv /\ StmDataInv)
  BY DEF DevicesInv, SessionsInv, TransfersInv, NucInv, SamInv, PicInv, StmInv, StmTransferInv
<1>2. HostMoves => HostTransferInv'
  BY <1>1, MovesKeepData
<1>3. CASE NucNext
  <2>1. dev \in NucDevice /\ Nuc
    BY <1>1, <1>3, Firmware DEF DeviceTypes
  <2>2. NucDataInv' /\ HostMoves
    BY <1>0, <1>1, <1>3, <2>1, NucDataStep
  <2>3. ~Sam' /\ ~Pic' /\ ~Stm'
    BY <1>3, <2>1, NucTyped, FirmwareAfter
  <2>4. SamDataInv' /\ PicDataInv' /\ StmTransferInv'
    BY <2>3 DEF SamDataInv, PicDataInv, StmTransferInv
  <2> QED BY <1>2, <2>2, <2>4 DEF TransfersInv
<1>4. CASE SamNext
  <2>1. dev \in SamDevice /\ Sam
    BY <1>1, <1>4, Firmware DEF DeviceTypes
  <2>2. SamDataInv' /\ HostMoves
    BY <1>0, <1>1, <1>4, <2>1, SamDataStep
  <2>3. ~Nuc' /\ ~Pic' /\ ~Stm'
    BY <1>4, <2>1, SamTyped, FirmwareAfter
  <2>4. NucDataInv' /\ PicDataInv' /\ StmTransferInv'
    BY <2>3 DEF NucDataInv, PicDataInv, StmTransferInv
  <2> QED BY <1>2, <2>2, <2>4 DEF TransfersInv
<1>5. CASE PicNext
  <2>1. dev \in PicDevice /\ PicTokens(dev) /\ Pic
    BY <1>1, <1>5, Firmware DEF DeviceTypes
  <2>2. PicDataInv' /\ HostMoves
    BY <1>0, <1>1, <1>5, <2>1, PicDataStep
  <2>3. ~Nuc' /\ ~Sam' /\ ~Stm'
    BY <1>5, <2>1, PicTyped, FirmwareAfter
  <2>4. NucDataInv' /\ SamDataInv' /\ StmTransferInv'
    BY <2>3 DEF NucDataInv, SamDataInv, StmTransferInv
  <2> QED BY <1>2, <2>2, <2>4 DEF TransfersInv
<1>6. CASE StmNext
  <2>1. dev \in StmDevice /\ Stm
    BY <1>1, <1>6, Firmware DEF DeviceTypes
  <2>2. StmAddressInv' /\ StmDataInv' /\ HostMoves
    BY <1>0, <1>1, <1>6, <2>1, StmDataStep
  <2>3. ~Nuc' /\ ~Sam' /\ ~Pic'
    BY <1>6, <2>1, StmTyped, FirmwareAfter
  <2>4. NucDataInv' /\ SamDataInv' /\ PicDataInv' /\ StmTransferInv'
    BY <2>2, <2>3 DEF NucDataInv, SamDataInv, PicDataInv, StmTransferInv
  <2> QED BY <1>2, <2>2, <2>4 DEF TransfersInv
<1> QED BY <1>3, <1>4, <1>5, <1>6 DEF Next

\* Without a step, nothing changes.
LEMMA TransfersStand ==
  ASSUME TransfersInv, UNCHANGED usbvars PROVE TransfersInv'
<1>1. dev' = dev /\ xfer' = xfer /\ hostaddr' = hostaddr
  BY DEF usbvars, hostvars
<1>2. HostTransferInv' /\ NucDataInv' /\ SamDataInv' /\ PicDataInv'
  BY <1>1 DEF TransfersInv, HostTransferInv, NucDataInv, SamDataInv, PicDataInv, Nuc, Sam, Pic
<1>3. StmTransferInv'
  <2>1. StmAddr' = StmAddr /\ (Is("address")' <=> Is("address"))
    BY <1>1 DEF StmAddr, Is
  <2> QED BY <1>1, <2>1 DEF TransfersInv, StmTransferInv, StmAddressInv, StmDataInv, Stm
<1> QED BY <1>2, <1>3 DEF TransfersInv

\* With care, whichever firmware the device runs, it and the host mean the same
\* transfer, the same data of it, the same address and the same command.
THEOREM DevicesAgree ==
  ASSUME {"nuc121", "samd11", "pic16", "stm32f0x2"} \subseteq Calm
  PROVE  Spec => []DevicesInv
<1>1. Init => TransfersInv
  BY TransfersStart
<1>2. SessionsInv /\ TransfersInv /\ [Next]_usbvars => TransfersInv'
  BY TransfersStep, TransfersStand DEF DevicesInv
<1>3. Spec => []SessionsInv
  BY SessionsAgree
<1>4. SessionsInv /\ TransfersInv => DevicesInv
  BY DEF DevicesInv
<1> QED BY <1>1, <1>2, <1>3, <1>4, PTL DEF Spec

\* The address is that of the firmware it runs.
LEMMA AddrOf ==
  /\ Nuc => Addr = NucAddr
  /\ Sam => Addr = SamAddr
  /\ Pic => Addr = PicAddr
  /\ Stm => Addr = StmAddr
<1>1. Nuc => Addr = NucAddr
  BY DEF Addr, Nuc, Sam, Pic, Stm
<1>2. Sam => Addr = SamAddr
  BY DEF Addr, Nuc, Sam, Pic, Stm
<1>3. Pic => Addr = PicAddr
  BY DEF Addr, Nuc, Sam, Pic, Stm
<1>4. Stm => Addr = StmAddr
  BY DEF Addr, Nuc, Sam, Pic, Stm
<1> QED BY <1>1, <1>2, <1>3, <1>4

\* A device that is not lost answers, once it has served what has happened, to
\* the address the host uses.
AddressKnown == Lost \/ Addr = hostaddr

\* So it does where they agree.
LEMMA AddressAgreed ==
  ASSUME DevicesInv PROVE AddressKnown
<1>0. SUFFICES ASSUME ~Lost PROVE Addr = hostaddr
  BY DEF AddressKnown
<1>1. DeviceTypes /\ HostInv
      /\ (Nuc => NucControlInv /\ NucAddressInv) /\ (Sam => SamControlInv) /\ (Pic => PicControlInv)
      /\ (Stm => StmControlInv /\ StmAddressInv)
  BY DEF DevicesInv, SessionsInv, TransfersInv, NucInv, SamInv, PicInv, StmInv, StmTransferInv
<1>2. CASE Nuc
  <2>1. CASE dev.bus
    BY <1>1, <1>2, <2>1, AddrOf DEF NucControlInv, NucAddr
  <2>2. CASE ~dev.bus
    <3>1. dev.assigned # 0 \/ dev.assigned = 0
      OBVIOUS
    <3> QED BY <1>1, <1>2, <2>2, AddrOf DEF NucAddressInv, NucAddr
  <2> QED BY <2>1, <2>2
<1>3. CASE Sam
  <2>1. Addr = SamAddr
    BY <1>3, AddrOf
  <2> QED BY <1>1, <1>3, <2>1 DEF SamControlInv, SamAddr
<1>4. CASE Pic
  <2>1. Addr = PicAddr
    BY <1>4, AddrOf
  <2>2. CASE dev.bus
    BY <1>1, <1>4, <2>1, <2>2 DEF PicControlInv, PicAddr
  <2>3. CASE ~dev.bus /\ dev.addr = 0
    BY <1>1, <1>4, <2>1, <2>3 DEF PicControlInv, PicAddr
  <2>4. CASE ~dev.bus /\ dev.addr # 0
    <3>1. \/ dev.tokens = <<>> /\ dev.uaddr = hostaddr
          \/ dev.tokens = <<"in">> /\ dev.addr = hostaddr
      BY <1>1, <1>4, <2>4 DEF PicControlInv
    <3>2. CASE dev.tokens = <<>> /\ dev.uaddr = hostaddr
      BY <2>1, <2>4, <3>2 DEF PicAddr
    <3>3. CASE dev.tokens = <<"in">> /\ dev.addr = hostaddr
      <4>1. dev.tokens # <<>> /\ Head(dev.tokens) = "in"
        BY <3>3
      <4> QED BY <2>1, <2>4, <3>3, <4>1 DEF PicAddr
    <3> QED BY <3>1, <3>2, <3>3
  <2> QED BY <2>2, <2>3, <2>4
<1>5. CASE Stm
  <2>1. Addr = StmAddr /\ ~dev.refused
    BY <1>0, <1>5, AddrOf DEF Lost
  <2>2. CASE dev.bus
    BY <1>1, <1>5, <2>1, <2>2 DEF StmControlInv, StmAddr
  <2>3. CASE ~dev.bus
    BY <1>1, <1>5, <2>1, <2>3 DEF StmAddressInv
  <2> QED BY <2>2, <2>3
<1> QED BY <1>1, <1>2, <1>3, <1>4, <1>5, Firmware DEF DeviceTypes

\* At power-up nothing is promised yet.
LEMMA ControlStart == Init => Control!Init
<1> SUFFICES ASSUME Init PROVE Control!Init
  OBVIOUS
<1>1. xfer = None /\ outcome = "none" /\ hostaddr = 0
  BY DEF Init, HostInit
<1>2. CASE NucInit
  <2>1. Nuc /\ ~Sam /\ ~Pic /\ ~Stm /\ ~dev.bus /\ ~dev.ev0 /\ dev.faddr = 0
    BY <1>2 DEF NucInit, Nuc, Sam, Pic, Stm
  <2>2. Addr = 0 /\ ~Lost
    BY <2>1, AddrOf DEF NucAddr, Lost
  <2> QED BY <1>1, <2>2 DEF Control!Init
<1>3. CASE SamInit
  <2>1. Sam /\ ~Pic /\ ~Stm /\ ~dev.bus /\ dev.wait = None /\ dev.dadd = 0
    BY <1>3 DEF SamInit, Sam, Pic, Stm
  <2>2. Addr = 0 /\ ~Lost
    BY <2>1, AddrOf DEF SamAddr, SamTaken, SamLost, Lost
  <2> QED BY <1>1, <2>2 DEF Control!Init
<1>4. CASE PicInit
  <2>1. Pic /\ ~Sam /\ ~Stm /\ ~dev.bus /\ ~dev.pktdis /\ dev.addr = 0 /\ dev.uaddr = 0
    BY <1>4 DEF PicInit, Sam, Pic, Stm
  <2>2. Addr = 0 /\ ~Lost
    BY <2>1, AddrOf DEF PicAddr, PicLost, Lost
  <2> QED BY <1>1, <2>2 DEF Control!Init
<1>5. CASE StmInit
  <2>1. Stm /\ ~Sam /\ ~Pic /\ ~dev.bus /\ ~dev.refused /\ dev.address = 0 /\ dev.daddr = 0
    BY <1>5 DEF StmInit, Sam, Pic, Stm
  <2>2. Addr = 0 /\ ~Lost
    BY <2>1, AddrOf DEF StmAddr, Lost
  <2> QED BY <1>1, <2>2 DEF Control!Init
<1> QED BY <1>2, <1>3, <1>4, <1>5 DEF Init

\* Every step of host and device is one of the contract's, or none.
LEMMA ControlStep ==
  ASSUME {"nuc121", "samd11", "pic16", "stm32f0x2"} \subseteq Calm,
         DevicesInv, AddressKnown, AddressKnown', [Next]_usbvars
  PROVE  Control!Next \/ UNCHANGED Control!vars
<1>1. CASE UNCHANGED usbvars
  <2>1. dev' = dev /\ xfer' = xfer /\ outcome' = outcome
    BY <1>1 DEF usbvars, hostvars
  <2>2. Addr' = Addr
    BY <2>1 DEF Addr, NucAddr, SamAddr, SamTaken, PicAddr, StmAddr, Nuc, Sam, Pic, Stm
  <2>3. Lost' = Lost
    BY <2>1 DEF Lost, SamLost, PicLost, Sam, Pic, Stm
  <2> QED BY <2>1, <2>2, <2>3 DEF Control!vars
<1>2. CASE Lost \/ Lost'
  BY <1>2 DEF Control!Next
<1>3. CASE Next /\ ~Lost /\ ~Lost'
  <2>1. Addr = hostaddr /\ Addr' = hostaddr'
    BY <1>3 DEF AddressKnown
  <2>2. Lost' = Lost
    BY <1>3 DEF Lost
  <2>3. HostInv /\ HostTransferInv
    BY DEF DevicesInv, SessionsInv, TransfersInv
  <2>4. HostMoves
    BY <1>3, TransfersStep
  <2> QED BY <1>3, <2>1, <2>2, <2>3, <2>4, MovesPromised
<1> QED BY <1>1, <1>2, <1>3

\* With care, whichever firmware the device runs, the data of a request are its
\* own, in order and whole, what the device knows is answered and all else
\* refused, and the address changes by the transfer that gives it.
THEOREM ControlKept ==
  ASSUME {"nuc121", "samd11", "pic16", "stm32f0x2"} \subseteq Calm
  PROVE  Spec => ControlContract
<1>1. Init => Control!Init
  BY ControlStart
<1>2. DevicesInv /\ AddressKnown /\ AddressKnown' /\ [Next]_usbvars => [Control!Next]_(Control!vars)
  BY ControlStep
<1>3. Spec => []DevicesInv
  BY DevicesAgree
<1>4. DevicesInv => AddressKnown
  BY AddressAgreed
<1> QED BY <1>1, <1>2, <1>3, <1>4, PTL DEF Spec, ControlContract, Control!Spec
=============================================================================
