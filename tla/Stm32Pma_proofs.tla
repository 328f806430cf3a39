--------------------------- MODULE Stm32Pma_proofs ---------------------------
(***************************************************************************)
(* Theorems about the packet memory of the STM32F0x2, for every build that *)
(* fits into it.                                                           *)
(*                                                                         *)
(* The argument: the calls place every endpoint where Base says, whichever *)
(* calls came before; two class endpoints never get the same units, and    *)
(* only the first class endpoint those of endpoint 0; so that a write for  *)
(* one endpoint leaves the packet of another as it is.                     *)
(***************************************************************************)
EXTENDS Stm32Pma, TLAPS, SequenceTheorems

\* The sizes, in units.
LEMMA Sizes ==
  /\ USB_MAX_EP0_SIZE = 8 /\ HID_EP_SIZE = 8 /\ MaxPacket = 8 /\ BufferTable = 8
  /\ CDC_DATA_IN_MAX_PACKET_SIZE = 32 /\ CDC_DATA_OUT_MAX_PACKET_SIZE = 8
  /\ CDC_CMD_PACKET_SIZE = 1 /\ CdcSpace = 41 /\ HidSpace = 16
BY SMT DEF USB_MAX_EP0_SIZE, HID_EP_SIZE, MaxPacket, BufferTable, CDC_DATA_IN_MAX_PACKET_SIZE,
           CDC_DATA_OUT_MAX_PACKET_SIZE, CDC_CMD_PACKET_SIZE, CdcSpace, HidSpace, Unit

\* What is known of the build: a number of each class, which fit.
LEMMA Build ==
  ASSUME config \in Configs
  PROVE  /\ config[1] \in Nat /\ config[2] \in Nat /\ PmaSize \in Nat
         /\ 16 <= PmaSize /\ 8 + (41 * config[1]) + (16 * config[2]) <= PmaSize
<1>1. config \in Nat \X Nat /\ PmaSize \in Nat
  BY PmaAssumption
<1>2. config[1] \in Nat /\ config[2] \in Nat
  BY <1>1
<1>3. /\ BufferTable + USB_MAX_EP0_SIZE <= PmaSize
      /\ BufferTable + (CdcSpace * config[1]) + (HidSpace * config[2]) <= PmaSize
  BY PmaAssumption
<1>4. QED
  BY <1>1, <1>2, <1>3, Sizes

\* Base, an endpoint at a time.
LEMMA BaseOf ==
  ASSUME config \in Configs, NEW i \in Nat \ {0}
  PROVE  /\ Base(<<"EP0", i>>) = 8
         /\ Base(<<"CDC in", i>>) = (41 * i) - 33
         /\ Base(<<"CDC out", i>>) = (41 * i) - 1
         /\ Base(<<"CDC cmd", i>>) = (41 * i) + 7
         /\ Base(<<"HID in", i>>) = (41 * config[1]) + (16 * i) - 8
         /\ Base(<<"HID out", i>>) = (41 * config[1]) + (16 * i)
<1>1. CdcBase(i) = (41 * i) - 33
  BY Sizes DEF CdcBase
<1>2. HidBase(i) = (41 * config[1]) + (16 * i) - 8
  BY Sizes, Build DEF HidBase
<1>3. Base(<<"EP0", i>>) = 8
  BY Sizes DEF Base
<1>4. Base(<<"CDC in", i>>) = (41 * i) - 33
  BY <1>1 DEF Base
<1>5. Base(<<"CDC out", i>>) = (41 * i) - 1
  BY <1>1, Sizes DEF Base
<1>6. Base(<<"CDC cmd", i>>) = (41 * i) + 7
  BY <1>1, Sizes DEF Base
<1>7. Base(<<"HID in", i>>) = (41 * config[1]) + (16 * i) - 8
  BY <1>2 DEF Base
<1>8. Base(<<"HID out", i>>) = (41 * config[1]) + (16 * i)
  BY <1>2, Sizes, Build DEF Base
<1>9. QED
  BY <1>3, <1>4, <1>5, <1>6, <1>7, <1>8

\* The shapes of an endpoint: its name, its place and the length of its packets.
Ep0Placed(e) == e[1] = "EP0" /\ Base(e) = 8 /\ Longest(e) = 8
CdcPlaced(e, i) ==
  \/ e = <<"CDC in", i>> /\ Base(e) = (41 * i) - 33 /\ Longest(e) = 8
  \/ e = <<"CDC out", i>> /\ Base(e) = (41 * i) - 1 /\ Longest(e) = 8
  \/ e = <<"CDC cmd", i>> /\ Base(e) = (41 * i) + 7 /\ Longest(e) = 1
HidPlaced(e, i) ==
  \/ e = <<"HID in", i>> /\ Base(e) = (41 * config[1]) + (16 * i) - 8 /\ Longest(e) = 8
  \/ e = <<"HID out", i>> /\ Base(e) = (41 * config[1]) + (16 * i) /\ Longest(e) = 8

\* Every endpoint of a build has one of them.
LEMMA EndpointCases ==
  ASSUME config \in Configs, NEW e \in Endpoints
  PROVE  /\ Base(e) \in Nat /\ Longest(e) \in Nat
         /\ \/ Ep0Placed(e)
            \/ \E i \in 1..config[1] : CdcPlaced(e, i)
            \/ \E i \in 1..config[2] : HidPlaced(e, i)
<1>b. config[1] \in Nat /\ config[2] \in Nat
  BY Build
<1>1. CASE e \in {Ep0Out, Ep0In}
  <2>1. e[1] = "EP0"
    BY <1>1 DEF Ep0Out, Ep0In
  <2>2. Base(e) = 8
    BY <2>1, Sizes DEF Base
  <2>3. Longest(e) = 8
    BY <2>1, Sizes DEF Longest
  <2>4. QED
    BY <2>1, <2>2, <2>3 DEF Ep0Placed
<1>2. CASE e \in Named("CDC in", config[1])
  <2>1. PICK i \in 1..config[1] : e = <<"CDC in", i>>
    BY <1>2 DEF Named
  <2>2. i \in Nat \ {0}
    BY <1>b
  <2>3. Base(e) = (41 * i) - 33
    BY <2>1, <2>2, BaseOf
  <2>4. Longest(e) = 8
    BY <2>1, Sizes DEF Longest
  <2>5. Base(e) \in Nat
    BY <1>b, <2>2, <2>3
  <2>6. CdcPlaced(e, i)
    BY <2>1, <2>3, <2>4 DEF CdcPlaced
  <2>7. Longest(e) \in Nat
    BY <2>4
  <2>8. QED
    BY <2>5, <2>6, <2>7
<1>3. CASE e \in Named("CDC out", config[1])
  <2>1. PICK i \in 1..config[1] : e = <<"CDC out", i>>
    BY <1>3 DEF Named
  <2>2. i \in Nat \ {0}
    BY <1>b
  <2>3. Base(e) = (41 * i) - 1
    BY <2>1, <2>2, BaseOf
  <2>4. Longest(e) = 8
    BY <2>1, Sizes DEF Longest
  <2>5. Base(e) \in Nat
    BY <1>b, <2>2, <2>3
  <2>6. CdcPlaced(e, i)
    BY <2>1, <2>3, <2>4 DEF CdcPlaced
  <2>7. Longest(e) \in Nat
    BY <2>4
  <2>8. QED
    BY <2>5, <2>6, <2>7
<1>4. CASE e \in Named("CDC cmd", config[1])
  <2>1. PICK i \in 1..config[1] : e = <<"CDC cmd", i>>
    BY <1>4 DEF Named
  <2>2. i \in Nat \ {0}
    BY <1>b
  <2>3. Base(e) = (41 * i) + 7
    BY <2>1, <2>2, BaseOf
  <2>4. Longest(e) = 1
    BY <2>1, Sizes DEF Longest
  <2>5. Base(e) \in Nat
    BY <1>b, <2>2, <2>3
  <2>6. CdcPlaced(e, i)
    BY <2>1, <2>3, <2>4 DEF CdcPlaced
  <2>7. Longest(e) \in Nat
    BY <2>4
  <2>8. QED
    BY <2>5, <2>6, <2>7
<1>5. CASE e \in Named("HID in", config[2])
  <2>1. PICK i \in 1..config[2] : e = <<"HID in", i>>
    BY <1>5 DEF Named
  <2>2. i \in Nat \ {0}
    BY <1>b
  <2>3. Base(e) = (41 * config[1]) + (16 * i) - 8
    BY <2>1, <2>2, BaseOf
  <2>4. Longest(e) = 8
    BY <2>1, Sizes DEF Longest
  <2>5. Base(e) \in Nat
    BY <1>b, <2>2, <2>3
  <2>6. HidPlaced(e, i)
    BY <2>1, <2>3, <2>4 DEF HidPlaced
  <2>7. Longest(e) \in Nat
    BY <2>4
  <2>8. QED
    BY <2>5, <2>6, <2>7
<1>6. CASE e \in Named("HID out", config[2])
  <2>1. PICK i \in 1..config[2] : e = <<"HID out", i>>
    BY <1>6 DEF Named
  <2>2. i \in Nat \ {0}
    BY <1>b
  <2>3. Base(e) = (41 * config[1]) + (16 * i)
    BY <2>1, <2>2, BaseOf
  <2>4. Longest(e) = 8
    BY <2>1, Sizes DEF Longest
  <2>5. Base(e) \in Nat
    BY <1>b, <2>2, <2>3
  <2>6. HidPlaced(e, i)
    BY <2>1, <2>3, <2>4 DEF HidPlaced
  <2>7. Longest(e) \in Nat
    BY <2>4
  <2>8. QED
    BY <2>5, <2>6, <2>7
<1>7. QED
  BY <1>1, <1>2, <1>3, <1>4, <1>5, <1>6 DEF Endpoints

\* Of which the numbers alone are these.
CdcNumbers(e, i) ==
  \/ Base(e) = (41 * i) - 33 /\ Longest(e) = 8
  \/ Base(e) = (41 * i) - 1 /\ Longest(e) = 8
  \/ Base(e) = (41 * i) + 7 /\ Longest(e) = 1
HidNumbers(e, i) ==
  \/ Base(e) = (41 * config[1]) + (16 * i) - 8 /\ Longest(e) = 8
  \/ Base(e) = (41 * config[1]) + (16 * i) /\ Longest(e) = 8

\* The place of a CDC endpoint.
LEMMA CdcSpan ==
  ASSUME NEW e, NEW i \in Nat, CdcPlaced(e, i)
  PROVE  /\ CdcNumbers(e, i)
         /\ (41 * i) - 33 <= Base(e) /\ Base(e) + Longest(e) <= (41 * i) + 8 /\ 1 <= Longest(e)
<1>1. CdcNumbers(e, i)
  BY Zenon DEF CdcPlaced, CdcNumbers
<1>2. QED
  BY <1>1 DEF CdcNumbers

\* The place of a HID endpoint.
LEMMA HidSpan ==
  ASSUME NEW e, NEW i \in Nat, config[1] \in Nat, HidPlaced(e, i)
  PROVE  /\ HidNumbers(e, i)
         /\ (41 * config[1]) + (16 * i) - 8 <= Base(e) /\ 1 <= Longest(e)
         /\ Base(e) + Longest(e) <= (41 * config[1]) + (16 * i) + 8
<1>1. HidNumbers(e, i)
  BY Zenon DEF HidPlaced, HidNumbers
<1>2. QED
  BY <1>1 DEF HidNumbers

\* The packets of an endpoint lie between the buffer table and the end of
\* packet memory, and of the class endpoints only First is where endpoint 0 is.
LEMMA Inside ==
  ASSUME config \in Configs, NEW e \in Endpoints
  PROVE  /\ 8 <= Base(e) /\ Base(e) + Longest(e) <= PmaSize /\ 1 <= Longest(e)
         /\ e[1] # "EP0" /\ e # First => 16 <= Base(e)
<1>b. /\ config[1] \in Nat /\ config[2] \in Nat /\ PmaSize \in Nat
      /\ 16 <= PmaSize /\ 8 + (41 * config[1]) + (16 * config[2]) <= PmaSize
  BY Build
<1>t. Base(e) \in Nat /\ Longest(e) \in Nat
  BY EndpointCases
<1>1. CASE Ep0Placed(e)
  <2>1. Base(e) = 8 /\ Longest(e) = 8 /\ e[1] = "EP0"
    BY <1>1 DEF Ep0Placed
  <2>2. 8 <= Base(e) /\ Base(e) + Longest(e) <= PmaSize /\ 1 <= Longest(e)
    BY <1>b, <2>1
  <2>3. QED
    BY <2>1, <2>2
<1>2. CASE \E i \in 1..config[1] : CdcPlaced(e, i)
  <2>1. PICK i \in 1..config[1] : CdcPlaced(e, i)
    BY <1>2
  <2>2. i \in Nat /\ 1 <= i /\ i <= config[1]
    BY <1>b
  <2>3. /\ (41 * i) - 33 <= Base(e) /\ Base(e) + Longest(e) <= (41 * i) + 8 /\ 1 <= Longest(e)
        /\ CdcNumbers(e, i)
    BY <2>1, <2>2, CdcSpan
  <2>4. 8 <= Base(e) /\ Base(e) + Longest(e) <= PmaSize
    BY <1>b, <1>t, <2>2, <2>3
  <2>5. ASSUME e # First PROVE 16 <= Base(e)
    <3>1. config[1] > 0
      BY <1>b, <2>2
    <3>2. First = <<"CDC in", 1>>
      BY <3>1 DEF First
    <3>3. i # 1 \/ ~(e = <<"CDC in", i>> /\ Base(e) = (41 * i) - 33 /\ Longest(e) = 8)
      BY <2>5, <3>2
    <3>4. \/ i # 1
          \/ Base(e) = (41 * i) - 1 /\ Longest(e) = 8
          \/ Base(e) = (41 * i) + 7 /\ Longest(e) = 1
      BY <2>1, <3>3, Zenon DEF CdcPlaced
    <3>5. QED
      BY <1>t, <2>2, <2>3, <3>4
  <2>6. QED
    BY <2>3, <2>4, <2>5
<1>3. CASE \E i \in 1..config[2] : HidPlaced(e, i)
  <2>1. PICK i \in 1..config[2] : HidPlaced(e, i)
    BY <1>3
  <2>2. i \in Nat /\ 1 <= i /\ i <= config[2]
    BY <1>b
  <2>3. /\ (41 * config[1]) + (16 * i) - 8 <= Base(e) /\ 1 <= Longest(e)
        /\ Base(e) + Longest(e) <= (41 * config[1]) + (16 * i) + 8
    BY <1>b, <2>1, <2>2, HidSpan
  <2>4. 8 <= Base(e) /\ Base(e) + Longest(e) <= PmaSize
    BY <1>b, <1>t, <2>2, <2>3
  <2>5. ASSUME e # First PROVE 16 <= Base(e)
    <3>1. CASE i = 1 /\ config[1] = 0
      <4>1. ~(config[1] > 0)
        BY <3>1
      <4>2. First = <<"HID in", 1>>
        BY <4>1 DEF First
      <4>3. ~(e = <<"HID in", i>> /\ Base(e) = (41 * config[1]) + (16 * i) - 8 /\ Longest(e) = 8)
        BY <2>5, <3>1, <4>2
      <4>4. Base(e) = (41 * config[1]) + (16 * i)
        BY <2>1, <4>3, Zenon DEF HidPlaced
      <4>5. QED
        BY <3>1, <4>4
    <3>2. CASE i # 1 \/ config[1] # 0
      BY <1>b, <1>t, <2>2, <2>3, <3>2
    <3>3. QED
      BY <3>1, <3>2
  <2>6. QED
    BY <2>3, <2>4, <2>5
<1>4. QED
  BY <1>1, <1>2, <1>3, EndpointCases

\* Two places share nothing.
Clear(e, f) == Base(e) + Longest(e) <= Base(f) \/ Base(f) + Longest(f) <= Base(e)

\* Two class endpoints share nothing, and those after First nothing with
\* endpoint 0.
LEMMA Apart ==
  ASSUME config \in Configs, NEW e \in Endpoints, NEW f \in Endpoints,
         e # f, e[1] # "EP0", f[1] # "EP0" \/ e # First
  PROVE  Clear(e, f)
<1>b. config[1] \in Nat /\ config[2] \in Nat
  BY Build
<1>t. Base(e) \in Nat /\ Longest(e) \in Nat /\ Base(f) \in Nat /\ Longest(f) \in Nat
  BY EndpointCases
<1>n. ~Ep0Placed(e)
  BY DEF Ep0Placed
<1>1. CASE Ep0Placed(f)
  <2>1. f[1] = "EP0" /\ Base(f) = 8 /\ Longest(f) = 8
    BY <1>1 DEF Ep0Placed
  <2>2. 16 <= Base(e)
    BY <2>1, Inside
  <2>3. QED
    BY <1>t, <2>1, <2>2 DEF Clear
<1>2. CASE (\E i \in 1..config[1] : CdcPlaced(e, i)) /\ (\E i \in 1..config[1] : CdcPlaced(f, i))
  <2>1. PICK i \in 1..config[1] : CdcPlaced(e, i)
    BY <1>2
  <2>2. PICK j \in 1..config[1] : CdcPlaced(f, j)
    BY <1>2
  <2>3. i \in Nat /\ j \in Nat
    BY <1>b
  <2>4. CASE i = j
    <3>1. CdcPlaced(f, i)
      BY <2>2, <2>4
    <3>2. \/ /\ Base(e) = (41 * i) - 33 /\ Longest(e) = 8
             /\ Base(f) = (41 * i) - 1 \/ Base(f) = (41 * i) + 7
          \/ /\ Base(e) = (41 * i) - 1 /\ Longest(e) = 8
             /\ (Base(f) = (41 * i) - 33 /\ Longest(f) = 8) \/ Base(f) = (41 * i) + 7
          \/ /\ Base(e) = (41 * i) + 7
             /\ Longest(f) = 8 /\ (Base(f) = (41 * i) - 33 \/ Base(f) = (41 * i) - 1)
      BY <2>1, <3>1, Zenon DEF CdcPlaced
    <3>3. QED
      BY <2>3, <3>2 DEF Clear
  <2>5. CASE i # j
    <3>1. /\ (41 * i) - 33 <= Base(e) /\ Base(e) + Longest(e) <= (41 * i) + 8
          /\ (41 * j) - 33 <= Base(f) /\ Base(f) + Longest(f) <= (41 * j) + 8
      BY <2>1, <2>2, <2>3, CdcSpan
    <3>2. QED
      BY <1>t, <2>3, <2>5, <3>1 DEF Clear
  <2>6. QED
    BY <2>4, <2>5
<1>3. CASE (\E i \in 1..config[2] : HidPlaced(e, i)) /\ (\E i \in 1..config[2] : HidPlaced(f, i))
  <2>1. PICK i \in 1..config[2] : HidPlaced(e, i)
    BY <1>3
  <2>2. PICK j \in 1..config[2] : HidPlaced(f, j)
    BY <1>3
  <2>3. i \in Nat /\ j \in Nat
    BY <1>b
  <2>4. CASE i = j
    <3>1. HidPlaced(f, i)
      BY <2>2, <2>4
    <3>2. \/ /\ Base(e) = (41 * config[1]) + (16 * i) - 8 /\ Longest(e) = 8
             /\ Base(f) = (41 * config[1]) + (16 * i)
          \/ /\ Base(f) = (41 * config[1]) + (16 * i) - 8 /\ Longest(f) = 8
             /\ Base(e) = (41 * config[1]) + (16 * i)
      BY <2>1, <3>1, Zenon DEF HidPlaced
    <3>3. QED
      BY <1>b, <2>3, <3>2 DEF Clear
  <2>5. CASE i # j
    <3>1. /\ (41 * config[1]) + (16 * i) - 8 <= Base(e)
          /\ Base(e) + Longest(e) <= (41 * config[1]) + (16 * i) + 8
          /\ (41 * config[1]) + (16 * j) - 8 <= Base(f)
          /\ Base(f) + Longest(f) <= (41 * config[1]) + (16 * j) + 8
      BY <1>b, <2>1, <2>2, <2>3, HidSpan
    <3>2. QED
      BY <1>b, <1>t, <2>3, <2>5, <3>1 DEF Clear
  <2>6. QED
    BY <2>4, <2>5
<1>4. CASE (\E i \in 1..config[1] : CdcPlaced(e, i)) /\ (\E i \in 1..config[2] : HidPlaced(f, i))
  <2>1. PICK i \in 1..config[1] : CdcPlaced(e, i)
    BY <1>4
  <2>2. PICK j \in 1..config[2] : HidPlaced(f, j)
    BY <1>4
  <2>3. i \in Nat /\ i <= config[1] /\ j \in Nat /\ 1 <= j
    BY <1>b
  <2>4. Base(e) + Longest(e) <= (41 * i) + 8 /\ (41 * config[1]) + (16 * j) - 8 <= Base(f)
    BY <1>b, <2>1, <2>2, <2>3, CdcSpan, HidSpan
  <2>5. QED
    BY <1>b, <1>t, <2>3, <2>4 DEF Clear
<1>5. CASE (\E i \in 1..config[2] : HidPlaced(e, i)) /\ (\E i \in 1..config[1] : CdcPlaced(f, i))
  <2>1. PICK i \in 1..config[2] : HidPlaced(e, i)
    BY <1>5
  <2>2. PICK j \in 1..config[1] : CdcPlaced(f, j)
    BY <1>5
  <2>3. i \in Nat /\ 1 <= i /\ j \in Nat /\ j <= config[1]
    BY <1>b
  <2>4. Base(f) + Longest(f) <= (41 * j) + 8 /\ (41 * config[1]) + (16 * i) - 8 <= Base(e)
    BY <1>b, <2>1, <2>2, <2>3, CdcSpan, HidSpan
  <2>5. QED
    BY <1>b, <1>t, <2>3, <2>4 DEF Clear
<1>6. QED
  BY <1>n, <1>1, <1>2, <1>3, <1>4, <1>5, EndpointCases

\* A number is one of three in its row.
LEMMA Thirds ==
  ASSUME NEW k \in Nat, k >= 1
  PROVE  \E i \in Nat \ {0} : k = (3 * i) - 2 \/ k = (3 * i) - 1 \/ k = 3 * i
<1> DEFINE q == (k - 1) \div 3
<1>1. q \in Nat /\ 3*q <= k - 1 /\ k - 1 < 3*q + 3
  OBVIOUS
<1> HIDE DEF q
<1>2. q + 1 \in Nat \ {0} /\ (k = (3 * (q+1)) - 2 \/ k = (3 * (q+1)) - 1 \/ k = 3 * (q+1))
  BY <1>1
<1>3. QED BY <1>2, Zenon
\* The row and the place in the row.
LEMMA ThirdsOf ==
  ASSUME NEW i \in Nat \ {0}
  PROVE  /\ (((3 * i) - 2) - 1) \div 3 = i - 1 /\ (((3 * i) - 2) - 1) % 3 = 0
         /\ (((3 * i) - 1) - 1) \div 3 = i - 1 /\ (((3 * i) - 1) - 1) % 3 = 1
         /\ ((3 * i) - 1) \div 3 = i - 1 /\ ((3 * i) - 1) % 3 = 2
OBVIOUS
\* The same in rows of two.
LEMMA HalvesOf ==
  ASSUME NEW i \in Nat \ {0}
  PROVE  /\ (((2 * i) - 1) - 1) \div 2 = i - 1 /\ (((2 * i) - 1) - 1) % 2 = 0
         /\ ((2 * i) - 1) \div 2 = i - 1 /\ ((2 * i) - 1) % 2 = 1
OBVIOUS

\* The same in rows of two.
LEMMA Halves ==
  ASSUME NEW k \in Nat, k >= 1
  PROVE  \E i \in Nat \ {0} : k = (2 * i) - 1 \/ k = 2 * i
<1> DEFINE q == (k - 1) \div 2
<1>1. q \in Nat /\ 2 * q <= k - 1 /\ k - 1 < (2 * q) + 2
  OBVIOUS
<1> HIDE DEF q
<1>2. q + 1 \in Nat \ {0} /\ (k = (2 * (q + 1)) - 1 \/ k = 2 * (q + 1))
  BY <1>1
<1>3. QED BY <1>2, Zenon

\* The calls of a UART.
LEMMA CdcCallIs ==
  ASSUME NEW i \in Nat \ {0}
  PROVE  /\ CdcCall((3 * i) - 2) = [ep |-> <<"CDC in", i>>, size |-> 32]
         /\ CdcCall((3 * i) - 1) = [ep |-> <<"CDC out", i>>, size |-> 8]
         /\ CdcCall(3 * i) = [ep |-> <<"CDC cmd", i>>, size |-> 1]
<1>1. /\ CdcCall((3 * i) - 2) = Cdc(1 + (i - 1))[1 + 0]
      /\ CdcCall((3 * i) - 1) = Cdc(1 + (i - 1))[1 + 1]
      /\ CdcCall(3 * i) = Cdc(1 + (i - 1))[1 + 2]
  BY ThirdsOf, Zenon DEF CdcCall
<1>2. 1 + (i - 1) = i /\ 1 + 0 = 1 /\ 1 + 1 = 2 /\ 1 + 2 = 3
  OBVIOUS
<1>3. /\ Cdc(i)[1] = [ep |-> <<"CDC in", i>>, size |-> 32]
      /\ Cdc(i)[2] = [ep |-> <<"CDC out", i>>, size |-> 8]
      /\ Cdc(i)[3] = [ep |-> <<"CDC cmd", i>>, size |-> 1]
  BY Sizes DEF Cdc
<1>4. QED
  BY <1>1, <1>2, <1>3, Zenon

\* The calls of a vendor HID.
LEMMA HidCallIs ==
  ASSUME NEW i \in Nat \ {0}
  PROVE  /\ HidCall((2 * i) - 1) = [ep |-> <<"HID in", i>>, size |-> 8]
         /\ HidCall(2 * i) = [ep |-> <<"HID out", i>>, size |-> 8]
<1>1. /\ HidCall((2 * i) - 1) = Hid(1 + (i - 1))[1 + 0]
      /\ HidCall(2 * i) = Hid(1 + (i - 1))[1 + 1]
  BY HalvesOf, Zenon DEF HidCall
<1>2. 1 + (i - 1) = i /\ 1 + 0 = 1 /\ 1 + 1 = 2
  OBVIOUS
<1>3. /\ Hid(i)[1] = [ep |-> <<"HID in", i>>, size |-> 8]
      /\ Hid(i)[2] = [ep |-> <<"HID out", i>>, size |-> 8]
  BY Sizes DEF Hid
<1>4. QED
  BY <1>1, <1>2, <1>3, Zenon

\* A call of the build for a class endpoint, and where it places it.
ClassCall(call, start, size) ==
  call.ep[1] # "EP0" /\ Base(call.ep) = start /\ call.size = size

\* What the calls of a UART hand out.
LEMMA CdcCallPlaces ==
  ASSUME config \in Configs, NEW i \in Nat \ {0}
  PROVE  /\ ClassCall(CdcCall((3 * i) - 2), (41 * i) - 33, 32)
         /\ ClassCall(CdcCall((3 * i) - 1), (41 * i) - 1, 8)
         /\ ClassCall(CdcCall(3 * i), (41 * i) + 7, 1)
<1>1. ClassCall([ep |-> <<"CDC in", i>>, size |-> 32], (41 * i) - 33, 32)
  BY BaseOf DEF ClassCall
<1>2. ClassCall([ep |-> <<"CDC out", i>>, size |-> 8], (41 * i) - 1, 8)
  BY BaseOf DEF ClassCall
<1>3. ClassCall([ep |-> <<"CDC cmd", i>>, size |-> 1], (41 * i) + 7, 1)
  BY BaseOf DEF ClassCall
<1>4. QED
  BY <1>1, <1>2, <1>3, CdcCallIs, Zenon

\* What the calls of a vendor HID hand out.
LEMMA HidCallPlaces ==
  ASSUME config \in Configs, NEW i \in Nat \ {0}
  PROVE  /\ ClassCall(HidCall((2 * i) - 1), (41 * config[1]) + (16 * i) - 8, 8)
         /\ ClassCall(HidCall(2 * i), (41 * config[1]) + (16 * i), 8)
<1>1. ClassCall([ep |-> <<"HID in", i>>, size |-> 8], (41 * config[1]) + (16 * i) - 8, 8)
  BY BaseOf DEF ClassCall
<1>2. ClassCall([ep |-> <<"HID out", i>>, size |-> 8], (41 * config[1]) + (16 * i), 8)
  BY BaseOf DEF ClassCall
<1>3. QED
  BY <1>1, <1>2, HidCallIs, Zenon

\* A class call is made where the one before it has left pma_address.
Follows(call, before) ==
  call.ep[1] # "EP0" /\ before.ep[1] # "EP0" /\ Base(call.ep) = Base(before.ep) + before.size

\* So it is within the calls of the UARTs.
LEMMA CdcFollows ==
  ASSUME config \in Configs, NEW k \in Nat, k >= 1
  PROVE  Follows(CdcCall(k + 1), CdcCall(k))
<1>1. PICK i \in Nat \ {0} : k = (3 * i) - 2 \/ k = (3 * i) - 1 \/ k = 3 * i
  BY Thirds
<1>2. CASE k = (3 * i) - 2
  <2>1. k + 1 = (3 * i) - 1
    BY <1>2
  <2>2. ClassCall(CdcCall(k), (41 * i) - 33, 32) /\ ClassCall(CdcCall(k + 1), (41 * i) - 1, 8)
    BY <1>2, <2>1, CdcCallPlaces, Zenon
  <2>3. QED
    BY <2>2 DEF ClassCall, Follows
<1>3. CASE k = (3 * i) - 1
  <2>1. k + 1 = 3 * i
    BY <1>3
  <2>2. ClassCall(CdcCall(k), (41 * i) - 1, 8) /\ ClassCall(CdcCall(k + 1), (41 * i) + 7, 1)
    BY <1>3, <2>1, CdcCallPlaces, Zenon
  <2>3. QED
    BY <2>2 DEF ClassCall, Follows
<1>4. CASE k = 3 * i
  <2>1. k + 1 = (3 * (i + 1)) - 2 /\ i + 1 \in Nat \ {0}
    BY <1>4
  <2>2. ClassCall(CdcCall(k), (41 * i) + 7, 1) /\ ClassCall(CdcCall(k + 1), (41 * (i + 1)) - 33, 32)
    BY <1>4, <2>1, CdcCallPlaces, Zenon
  <2>3. QED
    BY <2>2 DEF ClassCall, Follows
<1>5. QED
  BY <1>1, <1>2, <1>3, <1>4

\* And within those of the vendor HIDs.
LEMMA HidFollows ==
  ASSUME config \in Configs, NEW k \in Nat, k >= 1
  PROVE  Follows(HidCall(k + 1), HidCall(k))
<1>b. config[1] \in Nat
  BY Build
<1>1. PICK i \in Nat \ {0} : k = (2 * i) - 1 \/ k = 2 * i
  BY Halves
<1>2. CASE k = (2 * i) - 1
  <2>1. k + 1 = 2 * i
    BY <1>2
  <2>2. /\ ClassCall(HidCall(k), (41 * config[1]) + (16 * i) - 8, 8)
        /\ ClassCall(HidCall(k + 1), (41 * config[1]) + (16 * i), 8)
    BY <1>2, <2>1, HidCallPlaces, Zenon
  <2>3. QED
    BY <1>b, <2>2 DEF ClassCall, Follows
<1>3. CASE k = 2 * i
  <2>1. k + 1 = (2 * (i + 1)) - 1 /\ i + 1 \in Nat \ {0}
    BY <1>3
  <2>2. /\ ClassCall(HidCall(k), (41 * config[1]) + (16 * i), 8)
        /\ ClassCall(HidCall(k + 1), (41 * config[1]) + (16 * (i + 1)) - 8, 8)
    BY <1>3, <2>1, HidCallPlaces, Zenon
  <2>3. QED
    BY <1>b, <2>2 DEF ClassCall, Follows
<1>4. QED
  BY <1>1, <1>2, <1>3

\* The first call of the vendor HIDs follows the last of the UARTs.
LEMMA HidAfterCdc ==
  ASSUME config \in Configs, config[1] # 0
  PROVE  Follows(HidCall(1), CdcCall(3 * config[1]))
<1>1. config[1] \in Nat \ {0}
  BY Build
<1>2. ClassCall(CdcCall(3 * config[1]), (41 * config[1]) + 7, 1)
  BY <1>1, CdcCallPlaces, Zenon
<1>3. ClassCall(HidCall((2 * 1) - 1), (41 * config[1]) + (16 * 1) - 8, 8)
  BY HidCallPlaces
<1>4. (2 * 1) - 1 = 1
  OBVIOUS
<1>5. ClassCall(HidCall(1), (41 * config[1]) + (16 * 1) - 8, 8)
  BY <1>3, <1>4
<1>6. QED
  BY <1>1, <1>2, <1>5 DEF ClassCall, Follows

\* The calls made for the class endpoints of a build.
Call      == [ep : Endpoints, size : Nat]
CallCount == (3 * config[1]) + (2 * config[2])

\* What makes one.
LEMMA CallType ==
  ASSUME NEW e, NEW size, e \in Endpoints, size \in Nat
  PROVE  [ep |-> e, size |-> size] \in Call
BY DEF Call

\* Where each comes from.
LEMMA ClassCallsAre ==
  ASSUME config \in Configs
  PROVE  /\ CallCount \in Nat /\ DOMAIN ClassCalls(config) = 1..CallCount
         /\ \A k \in 1..CallCount :
              /\ k <= 3 * config[1] => ClassCalls(config)[k] = CdcCall(k)
              /\ k > 3 * config[1] => ClassCalls(config)[k] = HidCall(k - (3 * config[1]))
<1>b. config[1] \in Nat /\ config[2] \in Nat
  BY Build
<1>1. CallCount \in Nat
  BY <1>b DEF CallCount
<1>2. ClassCalls(config) = [k \in 1..CallCount |->
        IF k <= 3 * config[1] THEN CdcCall(k) ELSE HidCall(k - (3 * config[1]))]
  BY Zenon DEF ClassCalls, CallCount
<1>3. ASSUME NEW k \in 1..CallCount
      PROVE  /\ k <= 3 * config[1] => ClassCalls(config)[k] = CdcCall(k)
             /\ k > 3 * config[1] => ClassCalls(config)[k] = HidCall(k - (3 * config[1]))
  <2>1. ClassCalls(config)[k] = IF k <= 3 * config[1] THEN CdcCall(k) ELSE HidCall(k - (3 * config[1]))
    BY <1>2, Zenon
  <2>2. k > 3 * config[1] => ~(k <= 3 * config[1])
    BY <1>b, <1>1
  <2>3. QED
    BY <2>1, <2>2, Zenon
<1>4. QED
  BY <1>1, <1>2, <1>3, Zenon

\* They are for endpoints of the build.
LEMMA ClassCallsType ==
  ASSUME config \in Configs
  PROVE  ClassCalls(config) \in Seq(Call)
<1>b. config[1] \in Nat /\ config[2] \in Nat /\ CallCount \in Nat
  BY Build, ClassCallsAre
<1>1. ASSUME NEW k \in 1..CallCount
      PROVE  ClassCalls(config)[k] \in Call
  <2>1. CASE k <= 3 * config[1]
    <3>1. k \in Nat /\ k >= 1
      BY <1>b
    <3>2. PICK i \in Nat \ {0} : k = (3 * i) - 2 \/ k = (3 * i) - 1 \/ k = 3 * i
      BY <3>1, Thirds
    <3>3. i \in 1..config[1]
      BY <1>b, <2>1, <3>2
    <3>4. \/ CdcCall(k) = [ep |-> <<"CDC in", i>>, size |-> 32]
          \/ CdcCall(k) = [ep |-> <<"CDC out", i>>, size |-> 8]
          \/ CdcCall(k) = [ep |-> <<"CDC cmd", i>>, size |-> 1]
      BY <3>2, CdcCallIs, Zenon
    <3>5. /\ <<"CDC in", i>> \in Endpoints /\ <<"CDC out", i>> \in Endpoints
          /\ <<"CDC cmd", i>> \in Endpoints
      BY <3>3 DEF Endpoints, Named
    <3>n. 32 \in Nat /\ 8 \in Nat /\ 1 \in Nat
      OBVIOUS
    <3>6. CdcCall(k) \in Call
      BY <3>4, <3>5, <3>n, CallType, Zenon
    <3>7. QED
      BY <2>1, <3>6, ClassCallsAre, Zenon
  <2>2. CASE k > 3 * config[1]
    <3>a. k \in Nat
      BY <1>b
    <3>h. PICK h \in Nat : h = k - (3 * config[1]) /\ h >= 1 /\ h <= 2 * config[2]
      BY <1>b, <2>2, <3>a DEF CallCount
    <3>2. PICK i \in Nat \ {0} : h = (2 * i) - 1 \/ h = 2 * i
      BY <3>h, Halves
    <3>3. i \in 1..config[2]
      BY <1>b, <3>h, <3>2
    <3>4. \/ HidCall(h) = [ep |-> <<"HID in", i>>, size |-> 8]
          \/ HidCall(h) = [ep |-> <<"HID out", i>>, size |-> 8]
      BY <3>2, HidCallIs, Zenon
    <3>5. <<"HID in", i>> \in Endpoints /\ <<"HID out", i>> \in Endpoints
      BY <3>3 DEF Endpoints, Named
    <3>n. 8 \in Nat
      OBVIOUS
    <3>6. HidCall(h) \in Call
      BY <3>4, <3>5, <3>n, CallType, Zenon
    <3>7. QED
      BY <2>2, <3>h, <3>6, ClassCallsAre, Zenon
  <2>3. QED
    BY <1>b, <2>1, <2>2
<1>2. ClassCalls(config) = [k \in 1..CallCount |-> ClassCalls(config)[k]]
  BY ClassCallsAre DEF ClassCalls
<1>3. QED
  BY <1>b, <1>1, <1>2

\* Each follows the one before, and the first starts after the buffer table.
LEMMA ClassCallsFollow ==
  ASSUME config \in Configs
  PROVE  /\ \A k \in 2..CallCount : Follows(ClassCalls(config)[k], ClassCalls(config)[k - 1])
         /\ CallCount > 0 => Base(ClassCalls(config)[1].ep) = 8
<1>b. config[1] \in Nat /\ config[2] \in Nat /\ CallCount \in Nat
  BY Build, ClassCallsAre
<1>1. ASSUME NEW k \in 2..CallCount
      PROVE  Follows(ClassCalls(config)[k], ClassCalls(config)[k - 1])
  <2>1. PICK j \in Nat : j = k - 1 /\ j >= 1 /\ k = j + 1 /\ j \in 1..CallCount /\ k \in 1..CallCount
    BY <1>b
  <2>2. CASE k <= 3 * config[1]
    <3>1. j <= 3 * config[1]
      BY <1>b, <2>1, <2>2
    <3>2. ClassCalls(config)[k] = CdcCall(j + 1) /\ ClassCalls(config)[j] = CdcCall(j)
      BY <2>1, <2>2, <3>1, ClassCallsAre, Zenon
    <3>3. QED
      BY <2>1, <3>2, CdcFollows, Zenon
  <2>3. CASE j = 3 * config[1]
    <3>1. k > 3 * config[1] /\ k - (3 * config[1]) = 1 /\ j <= 3 * config[1] /\ config[1] # 0
      BY <1>b, <2>1, <2>3
    <3>2. ClassCalls(config)[k] = HidCall(1) /\ ClassCalls(config)[j] = CdcCall(3 * config[1])
      BY <2>1, <2>3, <3>1, ClassCallsAre, Zenon
    <3>3. QED
      BY <2>1, <3>1, <3>2, HidAfterCdc, Zenon
  <2>4. CASE j > 3 * config[1]
    <3>1. PICK h \in Nat : h >= 1 /\ h = j - (3 * config[1]) /\ k - (3 * config[1]) = h + 1
      BY <1>b, <2>1, <2>4
    <3>2. k > 3 * config[1]
      BY <1>b, <2>1, <2>4
    <3>3. ClassCalls(config)[k] = HidCall(h + 1) /\ ClassCalls(config)[j] = HidCall(h)
      BY <2>1, <2>4, <3>1, <3>2, ClassCallsAre, Zenon
    <3>4. QED
      BY <2>1, <3>1, <3>3, HidFollows, Zenon
  <2>5. QED
    BY <1>b, <2>1, <2>2, <2>3, <2>4
<1>2. ASSUME CallCount > 0
      PROVE  Base(ClassCalls(config)[1].ep) = 8
  <2>1. 1 \in 1..CallCount
    BY <1>b, <1>2
  <2>2. CASE config[1] # 0
    <3>1. 1 <= 3 * config[1]
      BY <1>b, <2>2
    <3>2. ClassCalls(config)[1] = CdcCall(1)
      BY <2>1, <3>1, ClassCallsAre, Zenon
    <3>3. ClassCall(CdcCall((3 * 1) - 2), (41 * 1) - 33, 32)
      BY CdcCallPlaces
    <3>4. (3 * 1) - 2 = 1 /\ (41 * 1) - 33 = 8
      OBVIOUS
    <3>5. QED
      BY <3>2, <3>3, <3>4, Zenon DEF ClassCall
  <2>3. CASE config[1] = 0
    <3>1. 1 > 3 * config[1] /\ 1 - (3 * config[1]) = 1
      BY <2>3
    <3>2. ClassCalls(config)[1] = HidCall(1)
      BY <2>1, <3>1, ClassCallsAre, Zenon
    <3>3. ClassCall(HidCall((2 * 1) - 1), (41 * config[1]) + (16 * 1) - 8, 8)
      BY HidCallPlaces
    <3>4. (2 * 1) - 1 = 1 /\ (41 * config[1]) + (16 * 1) - 8 = 8
      BY <2>3
    <3>5. QED
      BY <3>2, <3>3, <3>4, Zenon DEF ClassCall
  <2>4. QED
    BY <2>2, <2>3
<1>3. QED
  BY <1>1, <1>2

\* The parts of CallsChained.
Chain(s) ==
  /\ s \in Seq(Call)
  /\ \A k \in 1..Len(s) : k > 1 /\ ~IsEp0(s[k]) => Base(s[k].ep) = After(s[k - 1])

\* The same invariant, by them.
LEMMA ChainDef ==
  CallsChained <=> /\ Chain(calls)
                   /\ calls # <<>> /\ ~IsEp0(Head(calls)) => pma_address = Base(Head(calls).ep)
BY Zenon DEF CallsChained, Chain, Call

\* A class call that follows another starts where that one ends.
LEMMA FollowsAfter ==
  ASSUME NEW c, NEW b, Follows(c, b)
  PROVE  Base(c.ep) = After(b)
BY Zenon DEF Follows, After, IsEp0

\* All the calls of a build.
LEMMA InitChain ==
  ASSUME config \in Configs
  PROVE  /\ Chain(Ep0Calls \o ClassCalls(config)) 
         /\ IsEp0(Head(Ep0Calls \o ClassCalls(config)))
<1> DEFINE C == ClassCalls(config)
           S == Ep0Calls \o C
<1>b. CallCount \in Nat /\ DOMAIN C = 1..CallCount
  BY ClassCallsAre
<1>1. C \in Seq(Call)
  BY ClassCallsType
<1>2. Len(C) = CallCount
  BY <1>b, <1>1
<1>3. Ep0Out \in Endpoints /\ Ep0In \in Endpoints
  BY DEF Endpoints
<1>4. /\ [ep |-> Ep0Out, size |-> USB_MAX_EP0_SIZE] \in Call
      /\ [ep |-> Ep0In, size |-> USB_MAX_EP0_SIZE] \in Call
  <2>1. USB_MAX_EP0_SIZE \in Nat
    BY Sizes
  <2>2. QED
    BY <1>3, <2>1, CallType, Zenon
<1>5. Ep0Calls \in Seq(Call) /\ Len(Ep0Calls) = 2
  BY <1>4 DEF Ep0Calls
<1>6. IsEp0(Ep0Calls[1]) /\ IsEp0(Ep0Calls[2])
  BY DEF Ep0Calls, IsEp0, Ep0Out, Ep0In
<1> HIDE DEF C
<1>7. /\ S \in Seq(Call) /\ Len(S) = 2 + CallCount
      /\ \A k \in 1..(2 + CallCount) : S[k] = IF k <= 2 THEN Ep0Calls[k] ELSE C[k - 2]
  <2>1. /\ Ep0Calls \o C \in Seq(Call) /\ Len(Ep0Calls \o C) = Len(Ep0Calls) + Len(C)
        /\ \A k \in 1..(Len(Ep0Calls) + Len(C)) :
             (Ep0Calls \o C)[k] = IF k <= Len(Ep0Calls) THEN Ep0Calls[k] ELSE C[k - Len(Ep0Calls)]
    BY <1>1, <1>5, ConcatProperties
  <2>2. QED
    BY <1>2, <1>5, <2>1, Zenon
<1> HIDE DEF S
<1>8. ASSUME NEW k \in 1..Len(S), k > 1, ~IsEp0(S[k])
      PROVE  Base(S[k].ep) = After(S[k - 1])
  <2>1. k \in 1..(2 + CallCount) /\ k \in Nat
    BY <1>b, <1>7
  <2>2. CASE k = 2
    <3>1. S[2] = Ep0Calls[2]
      BY <1>b, <1>7
    <3>2. QED
      BY <1>6, <1>8, <2>2, <3>1
  <2>3. CASE k = 3
    <3>1. 3 \in 1..(2 + CallCount) /\ 2 \in 1..(2 + CallCount) /\ CallCount > 0
      BY <1>b, <2>1, <2>3
    <3>2. S[3] = C[1] /\ S[2] = Ep0Calls[2]
      BY <1>7, <3>1
    <3>3. Base(C[1].ep) = 8
      BY <3>1, ClassCallsFollow DEF C
    <3>4. After(Ep0Calls[2]) = 8
      BY <1>6, Sizes DEF After
    <3>5. k - 1 = 2
      BY <2>3
    <3>6. QED
      BY <2>3, <3>2, <3>3, <3>4, <3>5
  <2>4. CASE k > 3
    <3>1. PICK j \in 2..CallCount : k = j + 2
      BY <1>b, <2>1, <2>4
    <3>2. /\ ~(k <= 2) /\ ~(k - 1 <= 2) /\ k - 2 = j /\ (k - 1) - 2 = j - 1
          /\ k - 1 \in 1..(2 + CallCount)
      BY <1>b, <2>1, <2>4, <3>1
    <3>3. S[k] = C[j] /\ S[k - 1] = C[j - 1]
      BY <1>7, <2>1, <3>2
    <3>4. Follows(C[j], C[j - 1])
      BY <3>1, ClassCallsFollow DEF C
    <3>5. QED
      BY <3>3, <3>4, FollowsAfter
  <2>5. QED
    BY <1>8, <2>1, <2>2, <2>3, <2>4
<1>9. Chain(S)
  BY <1>7, <1>8 DEF Chain
<1>10. IsEp0(Head(S))
  <2>1. 1 \in 1..(2 + CallCount) /\ Len(S) > 0
    BY <1>b, <1>7
  <2>2. S[1] = Ep0Calls[1]
    BY <1>7, <2>1
  <2>3. S # <<>>
    BY <2>1, <1>7
  <2>4. Head(S) = S[1]
    BY <1>7, <2>3, HeadTailProperties
  <2>5. QED
    BY <1>6, <2>2, <2>4
<1>11. QED
  BY <1>9, <1>10 DEF S, C

\* What is left of a chain.
LEMMA TailChain ==
  ASSUME NEW s, Chain(s), s # <<>>
  PROVE  /\ Head(s) \in Call /\ Chain(Tail(s))
         /\ Tail(s) # <<>> /\ ~IsEp0(Head(Tail(s))) => Base(Head(Tail(s)).ep) = After(Head(s))
<1>1. s \in Seq(Call) /\ Len(s) \in Nat
  BY DEF Chain
<1>2. /\ Head(s) \in Call /\ Head(s) = s[1] /\ Tail(s) \in Seq(Call) /\ Len(Tail(s)) = Len(s) - 1
      /\ \A k \in 1..Len(Tail(s)) : Tail(s)[k] = s[k + 1]
  <2>1. Head(s) \in Call /\ Tail(s) \in Seq(Call)
    BY <1>1, HeadTailProperties, Zenon
  <2>2. Head(s) = s[1]
    BY <1>1
  <2>3. Len(Tail(s)) = Len(s) - 1
    BY <1>1, HeadTailProperties, Zenon
  <2>4. \A k \in 1..Len(Tail(s)) : Tail(s)[k] = s[k + 1]
    BY <1>1, HeadTailProperties, Zenon
  <2>5. QED
    BY <2>1, <2>2, <2>3, <2>4
<1>3. ASSUME NEW k \in 1..Len(s), k > 1, ~IsEp0(s[k])
      PROVE  Base(s[k].ep) = After(s[k - 1])
  BY <1>3 DEF Chain
<1>4. ASSUME NEW k \in 1..Len(Tail(s)), k > 1, ~IsEp0(Tail(s)[k])
      PROVE  Base(Tail(s)[k].ep) = After(Tail(s)[k - 1])
  <2>1. PICK j \in 1..Len(s) : j = k + 1
    BY <1>1, <1>2
  <2>2. j > 1 /\ k - 1 \in 1..Len(Tail(s)) /\ j - 1 = (k - 1) + 1
    BY <1>1, <1>2, <1>4, <2>1
  <2>3. Tail(s)[k] = s[j] /\ Tail(s)[k - 1] = s[j - 1]
    BY <1>2, <2>1, <2>2
  <2>4. QED
    BY <1>3, <1>4, <2>2, <2>3
<1>5. Chain(Tail(s))
  BY <1>2, <1>4, Zenon DEF Chain
<1>6. ASSUME Tail(s) # <<>>, ~IsEp0(Head(Tail(s)))
      PROVE  Base(Head(Tail(s)).ep) = After(Head(s))
  <2>1. Head(Tail(s)) = Tail(s)[1] /\ Len(Tail(s)) >= 1
    BY <1>2, <1>6
  <2>2. 1 \in 1..Len(Tail(s)) /\ 2 \in 1..Len(s) /\ 1 + 1 = 2 /\ 2 - 1 = 1 /\ 2 > 1
    BY <1>1, <1>2, <2>1
  <2>3. Tail(s)[1] = s[2]
    BY <1>2, <2>2
  <2>4. Base(s[2].ep) = After(s[1])
    BY <1>3, <1>6, <2>1, <2>2, <2>3
  <2>5. QED
    BY <1>2, <2>1, <2>3, <2>4
<1>7. QED
  BY <1>2, <1>5, <1>6

\* What is placed where.
Places == \A e \in DOMAIN address : e \in Endpoints /\ address[e] = Base(e)

\* The build does not change, nor what follows from it.
LEMMA BuildKept ==
  ASSUME config' = config
  PROVE  /\ Endpoints' = Endpoints /\ First' = First
         /\ \A e : (Base(e))' = Base(e)
<1>1. Endpoints' = Endpoints /\ First' = First
  BY Zenon DEF Endpoints, First, Named
<1>2. ASSUME NEW e PROVE (Base(e))' = Base(e)
  <2>1. \A i : (HidBase(i))' = HidBase(i)
    BY Zenon DEF HidBase
  <2>2. QED
    BY <2>1 DEF Base, CdcBase
<1>3. QED
  BY <1>1, <1>2

\* The next state of CallsChained, in terms of this state's build.
LEMMA ChainedNext ==
  ASSUME config' = config, Chain(calls'),
         calls' # <<>> /\ ~IsEp0(Head(calls')) => pma_address' = Base(Head(calls').ep)
  PROVE  CallsChained'
<1>1. Endpoints' = Endpoints /\ \A e : (Base(e))' = Base(e)
  BY BuildKept
<1>2. calls' \in Seq([ep : Endpoints', size : Nat])
  BY <1>1, Zenon DEF Chain, Call
<1>3. \A c : (After(c))' = After(c)
  BY <1>1, Zenon DEF After, IsEp0
<1>4. \A k \in 1..Len(calls') : k > 1 /\ ~IsEp0(calls'[k]) => (Base(calls[k].ep))' = (After(calls[k - 1]))'
  BY <1>1, <1>3, Zenon DEF Chain
<1>5. QED
  BY <1>1, <1>2, <1>4, Zenon DEF CallsChained, IsEp0

\* The places are within packet memory.
LEMMA PlacesFit ==
  ASSUME config \in Configs, Places, NEW e \in DOMAIN address
  PROVE  /\ address[e] \in 0..(PmaSize - 1) /\ Units(e) \subseteq 8..(PmaSize - 1)
<1>1. e \in Endpoints /\ address[e] = Base(e)
  BY DEF Places
<1>2. /\ 8 <= Base(e) /\ Base(e) + Longest(e) <= PmaSize /\ 1 <= Longest(e)
      /\ Base(e) \in Nat /\ Longest(e) \in Nat /\ PmaSize \in Nat
  BY <1>1, Inside, EndpointCases, Build
<1>3. QED
  BY <1>1, <1>2 DEF Units

\* The packets of an endpoint after First share no unit with those of another.
LEMMA PlacesApart ==
  ASSUME config \in Configs, Places, NEW e \in DOMAIN address, NEW f \in DOMAIN address,
         e # f, e[1] # "EP0", e # First, NEW u \in Units(e)
  PROVE  u \notin Units(f)
<1>1. e \in Endpoints /\ address[e] = Base(e) /\ f \in Endpoints /\ address[f] = Base(f)
  BY DEF Places
<1>2. Clear(e, f)
  BY <1>1, Apart
<1>3. /\ Base(e) \in Nat /\ Longest(e) \in Nat /\ Base(f) \in Nat /\ Longest(f) \in Nat
  BY <1>1, EndpointCases
<1>4. u \in Base(e)..(Base(e) + Longest(e) - 1)
  BY <1>1 DEF Units
<1>5. u \notin Base(f)..(Base(f) + Longest(f) - 1)
  BY <1>2, <1>3, <1>4 DEF Clear
<1>6. QED
  BY <1>1, <1>5 DEF Units

\* PmaInv by its parts.
LEMMA PmaInvDef ==
  PmaInv <=> /\ TypeOK /\ DOMAIN mem = 0..(PmaSize - 1)
             /\ CallsChained /\ Places
             /\ calls # <<>> => pending = {}
             /\ LaterIntact
BY Zenon DEF PmaInv, Places

\* The first state.
LEMMA PmaInit ==
  ASSUME Init
  PROVE  PmaInv
<1>1. config \in Configs /\ pma_address = 8 /\ address = <<>> /\ pending = {}
  BY Sizes DEF Init
<1>2. DOMAIN address = {}
  BY <1>1
<1>3. TypeOK /\ Places
  BY <1>1, <1>2 DEF TypeOK, Places
<1>4. DOMAIN mem = 0..(PmaSize - 1)
  BY DEF Init
<1>5. CallsChained
  BY <1>1, InitChain, ChainDef, Zenon DEF Init
<1>6. LaterIntact
  BY <1>1 DEF LaterIntact
<1>7. QED
  BY <1>1, <1>3, <1>4, <1>5, <1>6, PmaInvDef

\* A call of either kind.
LEMMA ConfigKeeps ==
  ASSUME PmaInv, calls # <<>>, calls' = Tail(calls),
         UNCHANGED <<config, mem, pending>>,
         NEW v, v = Base(Head(calls).ep), address' = PMAConfig(Head(calls).ep, v),
         pma_address' = After(Head(calls)), pma_address' \in Nat
  PROVE  PmaInv'
<1> DEFINE x == Head(calls).ep
<1>1. /\ TypeOK /\ DOMAIN mem = 0..(PmaSize - 1) /\ Chain(calls) /\ Places /\ pending = {}
      /\ config \in Configs
  BY PmaInvDef, ChainDef DEF TypeOK
<1>k. config' = config /\ Endpoints' = Endpoints /\ \A e : (Base(e))' = Base(e)
  BY BuildKept
<1>2. /\ Head(calls) \in Call /\ Chain(Tail(calls))
      /\ Tail(calls) # <<>> /\ ~IsEp0(Head(Tail(calls)))
           => Base(Head(Tail(calls)).ep) = After(Head(calls))
  BY <1>1, TailChain
<1>3. CallsChained'
  BY <1>2, ChainedNext, <1>k
<1>4. x \in Endpoints
  BY <1>2 DEF Call
<1> HIDE DEF x
<1>5. /\ DOMAIN address' = (DOMAIN address) \cup {x}
      /\ \A e \in (DOMAIN address) \cup {x} : address'[e] = IF e = x THEN v ELSE address[e]
  BY DEF x, PMAConfig
<1>6. \A e \in DOMAIN address' : e \in Endpoints /\ address'[e] = Base(e)
  BY <1>1, <1>4, <1>5, Zenon DEF Places, x
<1>7. Places'
  BY <1>k, <1>6 DEF Places
<1>8. ASSUME NEW e \in DOMAIN address'
      PROVE  address'[e] \in 0..(PmaSize - 1)
  <2>1. e \in Endpoints /\ address'[e] = Base(e)
    BY <1>6
  <2>2. /\ Base(e) + Longest(e) <= PmaSize /\ 1 <= Longest(e)
        /\ Base(e) \in Nat /\ Longest(e) \in Nat /\ PmaSize \in Nat
    BY <1>1, <2>1, Inside, EndpointCases, Build
  <2>3. QED
    BY <2>1, <2>2
<1>9. TypeOK'
  BY <1>1, <1>5, <1>8 DEF TypeOK
<1>10. pending' = {} /\ (DOMAIN mem = 0..(PmaSize - 1))'
  BY <1>1
<1>11. LaterIntact'
  BY <1>10 DEF LaterIntact
<1>12. QED
  BY <1>3, <1>7, <1>9, <1>10, <1>11 DEF PmaInv, Places

\* USBD_LL_Init's own calls.
LEMMA ConfigEp0Keeps ==
  ASSUME PmaInv, ConfigEp0
  PROVE  PmaInv'
<1>1. IsEp0(Head(calls))
  BY DEF ConfigEp0, IsEp0
<1>2. Base(Head(calls).ep) = USB_MAX_EP0_SIZE /\ After(Head(calls)) = USB_MAX_EP0_SIZE
  BY <1>1 DEF IsEp0, Base, After
<1>3. USB_MAX_EP0_SIZE \in Nat
  BY Sizes
<1>4. /\ calls # <<>> /\ calls' = Tail(calls) /\ UNCHANGED <<config, mem, pending>>
      /\ pma_address' = USB_MAX_EP0_SIZE
      /\ address' = PMAConfig(Head(calls).ep, USB_MAX_EP0_SIZE)
  BY DEF ConfigEp0
<1>5. QED
  BY <1>2, <1>3, <1>4, ConfigKeeps

\* Those of the classes.
LEMMA ConfigClassKeeps ==
  ASSUME PmaInv, ConfigClass
  PROVE  PmaInv'
<1>1. ~IsEp0(Head(calls)) /\ calls # <<>>
  BY DEF ConfigClass, IsEp0
<1>2. pma_address = Base(Head(calls).ep) /\ pma_address \in Nat /\ Chain(calls)
  BY <1>1, PmaInvDef, ChainDef DEF TypeOK
<1>3. Head(calls).size \in Nat
  BY <1>1, <1>2, TailChain DEF Call
<1>4. pma_address' = After(Head(calls))
  BY <1>1, <1>2 DEF After, ConfigClass
<1>5. pma_address' \in Nat
  BY <1>2, <1>3 DEF ConfigClass
<1>6. /\ calls' = Tail(calls) /\ UNCHANGED <<config, mem, pending>>
      /\ address' = PMAConfig(Head(calls).ep, pma_address)
  BY DEF ConfigClass
<1>7. QED
  BY <1>1, <1>2, <1>4, <1>5, <1>6, ConfigKeeps

\* What packets may change, when no call is left, and what is never changed.
LEMMA PacketKeeps ==
  ASSUME PmaInv, UNCHANGED <<config, calls, pma_address, address>>,
         calls # <<>> => pending' = {}, pending' \subseteq DOMAIN address,
         DOMAIN mem' = DOMAIN mem, LaterIntact'
  PROVE  PmaInv'
<1>1. /\ TypeOK /\ DOMAIN mem = 0..(PmaSize - 1) /\ CallsChained /\ Places
  BY PmaInvDef
<1>2. Endpoints' = Endpoints /\ \A e : (Base(e))' = Base(e)
  BY BuildKept
<1>3. Places'
  BY <1>1, <1>2 DEF Places
<1>4. Chain(calls) /\ (calls # <<>> /\ ~IsEp0(Head(calls)) => pma_address = Base(Head(calls).ep))
  BY <1>1, ChainDef
<1>5. CallsChained'
  BY <1>4, ChainedNext, Zenon
<1>6. TypeOK'
  BY <1>1 DEF TypeOK
<1>7. QED
  BY <1>1, <1>3, <1>5, <1>6, Zenon DEF PmaInv, Places

\* A packet is written.
LEMMA WriteKeeps ==
  ASSUME PmaInv, NEW e \in DOMAIN address, Write(e)
  PROVE  PmaInv'
<1>1. /\ TypeOK /\ DOMAIN mem = 0..(PmaSize - 1) /\ Places /\ LaterIntact /\ config \in Configs
      /\ pending \subseteq DOMAIN address
  BY PmaInvDef DEF TypeOK
<1>2. /\ calls = <<>> /\ UNCHANGED <<config, calls, pma_address, address>>
      /\ mem' = [u \in DOMAIN mem |-> IF u \in Units(e) THEN e ELSE mem[u]]
      /\ pending' = pending \cup {e}
  BY DEF Write
<1>3. First' = First /\ Classes' = Classes /\ DOMAIN mem' = DOMAIN mem
  BY <1>2, BuildKept DEF Classes
<1>4. ASSUME NEW f \in pending' \cap (Classes \ {First})
      PROVE  (Intact(f))'
  <2>1. f \in DOMAIN address /\ f[1] # "EP0" /\ f # First
    BY <1>4 DEF Classes
  <2>2. \A u \in Units(f) : u \in DOMAIN mem
    <3>1. Units(f) \subseteq 8..(PmaSize - 1)
      BY <1>1, <2>1, PlacesFit
    <3>2. PmaSize \in Nat
      BY PmaAssumption
    <3>3. QED
      BY <1>1, <3>1, <3>2
  <2>3. (Units(f))' = Units(f)
    BY <1>2, Zenon DEF Units
  <2>4. CASE f = e
    <3>1. \A u \in Units(f) : mem'[u] = f
      BY <1>2, <2>2, <2>4
    <3>2. QED
      BY <2>3, <3>1, Zenon DEF Intact
  <2>5. CASE f # e
    <3>1. f \in pending
      BY <1>2, <1>4, <2>5
    <3>2. \A u \in Units(f) : mem[u] = f
      BY <1>1, <1>4, <3>1 DEF LaterIntact, Intact
    <3>3. \A u \in Units(f) : u \notin Units(e)
      BY <1>1, <2>1, <2>5, PlacesApart
    <3>4. \A u \in Units(f) : mem'[u] = f
      BY <1>2, <2>2, <3>2, <3>3
    <3>5. QED
      BY <2>3, <3>4, Zenon DEF Intact
  <2>6. QED
    BY <2>4, <2>5
<1>5. LaterIntact'
  BY <1>3, <1>4, Zenon DEF LaterIntact
<1>6. pending' \subseteq DOMAIN address
  BY <1>1, <1>2
<1>7. QED
  BY <1>2, <1>3, <1>5, <1>6, PacketKeeps

\* A packet is read.
LEMMA ReadKeeps ==
  ASSUME PmaInv, NEW e \in DOMAIN address, Read(e)
  PROVE  PmaInv'
<1>1. LaterIntact /\ pending \subseteq DOMAIN address
  BY PmaInvDef DEF TypeOK
<1>2. /\ calls = <<>> /\ UNCHANGED <<config, calls, pma_address, address>> /\ mem' = mem
      /\ pending' = pending \ {e}
  BY DEF Read
<1>3. First' = First /\ Classes' = Classes
  BY <1>2, BuildKept DEF Classes
<1>4. ASSUME NEW f \in pending' \cap (Classes \ {First})
      PROVE  (Intact(f))'
  <2>1. f \in pending \cap (Classes \ {First})
    BY <1>2, <1>4
  <2>2. Intact(f)
    BY <1>1, <2>1 DEF LaterIntact
  <2>3. QED
    BY <1>2, <2>2, Zenon DEF Intact, Units
<1>5. LaterIntact'
  BY <1>3, <1>4, Zenon DEF LaterIntact
<1>6. pending' \subseteq DOMAIN address
  BY <1>1, <1>2
<1>7. QED
  BY <1>2, <1>5, <1>6, PacketKeeps

\* No step breaks the invariant.
LEMMA PmaStep ==
  ASSUME PmaInv, [Next]_vars
  PROVE  PmaInv'
<1>1. CASE ConfigEp0
  BY <1>1, ConfigEp0Keeps
<1>2. CASE ConfigClass
  BY <1>2, ConfigClassKeeps
<1>3. CASE \E e \in DOMAIN address : Write(e) \/ Read(e)
  BY <1>3, WriteKeeps, ReadKeeps
<1>4. CASE UNCHANGED vars
  <2>1. /\ UNCHANGED <<config, calls, pma_address, address, mem, pending>>
    BY <1>4 DEF vars
  <2>2. /\ calls # <<>> => pending' = {}
        /\ pending' \subseteq DOMAIN address
    BY <2>1, PmaInvDef DEF TypeOK
  <2>3. LaterIntact'
    <3>1. First' = First /\ Classes' = Classes
      BY <2>1, BuildKept DEF Classes
    <3>2. ASSUME NEW f \in pending' \cap (Classes \ {First}) PROVE (Intact(f))'
      <4>1. Intact(f)
        BY <2>1, <3>2, PmaInvDef DEF LaterIntact
      <4>2. QED
        BY <2>1, <4>1, Zenon DEF Intact, Units
    <3>3. QED
      BY <3>1, <3>2, Zenon DEF LaterIntact
  <2>4. QED
    BY <2>1, <2>2, <2>3, PacketKeeps
<1>5. QED
  BY <1>1, <1>2, <1>3, <1>4 DEF Next

\* In every build that fits, every endpoint that has been set up is where the
\* order of the calls places it, the calls to come continue from there, and
\* no packet of a class endpoint after the first has been overwritten.
THEOREM PmaCorrect == Spec => []PmaInv
<1>1. Init => PmaInv
  BY PmaInit
<1>2. PmaInv /\ [Next]_vars => PmaInv'
  BY PmaStep
<1>3. QED
  BY <1>1, <1>2, PTL DEF Spec

\* Every endpoint's place is in packet memory, and packets are only of
\* endpoints that have one.
THEOREM PmaTypeCorrect == Spec => []TypeOK
<1>1. PmaInv => TypeOK
  BY PmaInvDef
<1>2. QED
  BY <1>1, PmaCorrect, PTL

\* In every build that fits, no packet reaches the buffer table or leaves
\* packet memory, whichever endpoint it is for.
THEOREM PmaInside == Spec => []InsidePma
<1>1. PmaInv => InsidePma
  <2>1. SUFFICES ASSUME PmaInv, NEW e \in DOMAIN address
                 PROVE  Units(e) \subseteq BufferTable..(PmaSize - 1)
    BY Zenon DEF InsidePma
  <2>2. Places /\ config \in Configs
    BY <2>1, PmaInvDef DEF TypeOK
  <2>3. Units(e) \subseteq 8..(PmaSize - 1)
    BY <2>2, PlacesFit
  <2>4. QED
    BY <2>3, Sizes
<1>2. QED
  BY <1>1, PmaCorrect, PTL

\* In every build that fits, a packet of a class endpoint after the first is
\* read as it was written, whatever is written and read elsewhere meanwhile.
THEOREM PmaLaterIntact == Spec => []LaterIntact
<1>1. PmaInv => LaterIntact
  BY PmaInvDef
<1>2. QED
  BY <1>1, PmaCorrect, PTL

\* The first class endpoint is given the units of endpoint 0.
FirstShared ==
  \A e \in DOMAIN address :
    First \in DOMAIN address /\ e[1] = "EP0" => address[First] = address[e] /\ Units(First) = Units(e)

\* What AllIntact fails by is in every build: the first class endpoint and
\* both directions of endpoint 0 have the same buffer.
THEOREM PmaFirstShared == Spec => []FirstShared
<1>1. PmaInv => FirstShared
  <2>1. SUFFICES ASSUME PmaInv, NEW e \in DOMAIN address, First \in DOMAIN address, e[1] = "EP0"
                 PROVE  address[First] = address[e] /\ Units(First) = Units(e)
    BY Zenon DEF FirstShared
  <2>2. Places /\ config \in Configs
    BY <2>1, PmaInvDef DEF TypeOK
  <2>3. address[First] = Base(First) /\ address[e] = Base(e)
    BY <2>1, <2>2 DEF Places
  <2>4. Base(e) = 8 /\ Longest(e) = 8
    BY <2>1, Sizes DEF Base, Longest
  <2>5. config[1] \in Nat /\ 1 \in Nat \ {0} /\ First \in Endpoints
    BY <2>1, <2>2, Build DEF Places
  <2>6. CASE config[1] > 0
    <3>1. First = <<"CDC in", 1>>
      BY <2>6 DEF First
    <3>2. Base(First) = (41 * 1) - 33
      BY <2>2, <2>5, <3>1, BaseOf
    <3>3. Longest(First) = 8
      BY <3>1, Sizes DEF Longest
    <3>4. QED
      BY <2>3, <2>4, <3>2, <3>3 DEF Units
  <2>7. CASE ~(config[1] > 0)
    <3>1. First = <<"HID in", 1>>
      BY <2>7, Zenon DEF First
    <3>0. config[1] = 0
      BY <2>5, <2>7
    <3>2. Base(First) = (41 * config[1]) + (16 * 1) - 8
      BY <2>2, <2>5, <3>1, BaseOf
    <3>3. Longest(First) = 8
      BY <3>1, Sizes DEF Longest
    <3>4. Base(First) = 8
      BY <3>0, <3>2
    <3>5. QED
      BY <2>3, <2>4, <3>3, <3>4 DEF Units
  <2>8. QED
    BY <2>6, <2>7
<1>2. QED
  BY <1>1, PmaCorrect, PTL
=============================================================================
