----------------------------- MODULE Reader_proofs -----------------------------
(***************************************************************************)
(* Proofs about the input side.  The argument: the only step that changes  *)
(* the stored snapshot of a reader or computes updates is UpdateStates,    *)
(* and it does both at once, under the mutex of the reader.  So the two    *)
(* agree whatever the order in which tasks get there, provided             *)
(* process_input always returns a snapshot of every control.  The updates  *)
(* are returned later, in any order; but where one task reads, what its    *)
(* listener believes is what was computed, but for what that task has not  *)
(* returned yet.                                                           *)
(***************************************************************************)
EXTENDS ReaderProperties, FiniteSetTheorems, TLAPS

Shape(f) ==
  /\ DOMAIN f = Reader
  /\ \A r \in Reader :
       /\ DOMAIN f[r] = Kind
       /\ \A kind \in Kind : f[r][kind] \in [Index(kind) -> BOOLEAN]

Shapes ==
  /\ Shape(states) /\ Shape(told) /\ Shape(heard)
  /\ DOMAIN updates = Task /\ \A t \in Task : pc[t] # "returning" => updates[t] = Nothing
  /\ DOMAIN pc = Task
  /\ queue \in Seq(Report)
  /\ DOMAIN input = Task /\ \A t \in Task : Full(input[t])

\* A kind of control not reported in both states is told down and up at once.
SingleStateUp ==
  \A r \in Reader : \A kind \in Kind : ~Both(kind) => told[r][kind] = AllUp(kind)

\* Where only t reads, its listener will know what was computed once it has
\* heard what t has not returned yet, and will hear nothing twice in a row.
OneBehind(t) ==
  \A kind \in Kind :
    /\ told[Uses[t]][kind] = Hear(heard[Uses[t]][kind], updates[t][kind])
    /\ ~Echoes(heard[Uses[t]][kind], updates[t][kind])

HeardInTurn == \A t \in Task : Exclusive(Uses[t]) => OneBehind(t)

Inv == Shapes /\ ToldIsStored /\ SingleStateUp /\ Alternates /\ HeardInTurn

-----------------------------------------------------------------------------
\* How many controls there are, and who reads with what.
LEMMA Counts == KeyCount \in 0..64 /\ EncoderCount \in 0..32
BY ReaderAssumption, Zenon

\* Every task reads with a reader that get_reader has made.
LEMMA UsesAReader == \A t \in Task : Uses[t] \in Reader
<1>1. Uses \in [Task -> Reader]
  BY ReaderAssumption, Zenon
<1> QED
  BY <1>1

\* No data carries no snapshot.
LEMMA NoDataIsFull == Full(NoData)
BY DEF Full, NoData, Kind

\* No update changes nothing that is believed.
LEMMA HearNothing ==
  ASSUME NEW kind \in Kind, NEW believed \in [Index(kind) -> BOOLEAN]
  PROVE  Hear(believed, Nothing[kind]) = believed /\ ~Echoes(believed, Nothing[kind])
<1>1. \A i : i \notin DOMAIN Nothing[kind]
  BY DEF Nothing
<1> QED
  BY <1>1 DEF Hear, Echoes

\* A new reader stores, and has told, that everything is up.
LEMMA InitInv == Init => Inv
<1> SUFFICES ASSUME Init PROVE Inv
  OBVIOUS
<1>1. Shape(states) /\ Shape(told) /\ Shape(heard)
  BY DEF Init, Shape, InitialStates, AllUp
<1>4. /\ DOMAIN updates = Task /\ DOMAIN pc = Task
      /\ \A t \in Task : updates[t] = Nothing
  BY DEF Init
<1>5. HeardInTurn
  <2> SUFFICES ASSUME NEW t \in Task, NEW kind \in Kind
               PROVE  /\ told[Uses[t]][kind] = Hear(heard[Uses[t]][kind], updates[t][kind])
                      /\ ~Echoes(heard[Uses[t]][kind], updates[t][kind])
    BY DEF HeardInTurn, OneBehind
  <2>1. Uses[t] \in Reader
    BY UsesAReader
  <2>2. told[Uses[t]][kind] = heard[Uses[t]][kind] /\ heard[Uses[t]][kind] \in [Index(kind) -> BOOLEAN]
    BY <2>1 DEF Init, InitialStates, AllUp
  <2> QED
    BY <1>4, <2>2, HearNothing
<1>2. queue \in Seq(Report) /\ DOMAIN input = Task /\ \A t \in Task : Full(input[t])
  BY NoDataIsFull DEF Init
<1>3. ToldIsStored /\ SingleStateUp /\ Alternates
  BY DEF Init, ToldIsStored, SingleStateUp, Alternates, InitialStates
<1> QED
  BY <1>1, <1>2, <1>3, <1>4, <1>5 DEF Inv, Shapes

\* What Decode yields is as full as what the decoder returns.
LEMMA DecodeFull ==
  ASSUME FullSnapshots, NEW r \in Report
  PROVE  Full(Decode(r))
<1>1. r.key \in 0..255 /\ r.state \in 0..255 /\ 1 \in 0..255
  BY DEF Report
<1>2. Full(ProcessInput(r.key, IF BothKeypressStates THEN r.state ELSE 1))
  BY <1>1 DEF FullSnapshots
<1> QED
  BY <1>2, NoDataIsFull DEF Decode

\* One update of one kind, from a full snapshot.
LEMMA UpdateStep ==
  ASSUME Inv, NEW t \in Task, UpdateStates(t)
  PROVE  Inv'
<1> DEFINE r == Uses[t]
           in == input[t]
           K == input[t].kind
           ups == Changes(K, in.states, states[r][K])
<1>1. r \in Reader /\ K \in Kind
  BY UsesAReader DEF UpdateStates
<1>2. /\ in.states \in [Index(K) -> BOOLEAN]
      /\ states[r][K] \in [Index(K) -> BOOLEAN]
      /\ told[r][K] \in [Index(K) -> BOOLEAN]
  BY <1>1 DEF Inv, Shapes, Shape, Full
<1>3. /\ DOMAIN ups = Index(K)
      /\ \A i \in Index(K) :
           ups[i] = CASE ~Both(K) /\ in.states[i] -> <<"down", "up">>
                      [] Both(K) /\ in.states[i] /\ ~states[r][K][i] -> <<"down">>
                      [] Both(K) /\ ~in.states[i] /\ states[r][K][i] -> <<"up">>
                      [] OTHER -> <<>>
  BY <1>2 DEF Changes
<1>a. ASSUME NEW i \in Index(K)
      PROVE  /\ ~Both(K) /\ in.states[i]  => ups[i] = <<"down", "up">>
             /\ ~Both(K) /\ ~in.states[i] => ups[i] = <<>>
             /\ Both(K) /\ in.states[i] /\ ~states[r][K][i]  => ups[i] = <<"down">>
             /\ Both(K) /\ ~in.states[i] /\ states[r][K][i]  => ups[i] = <<"up">>
             /\ Both(K) /\ (in.states[i] <=> states[r][K][i]) => ups[i] = <<>>
  BY <1>3, Zenon
<1>b. /\ <<"down", "up">> # <<>> /\ <<"down">> # <<>> /\ <<"up">> # <<>>
      /\ <<"down", "up">>[1] = "down" /\ <<"down", "up">>[Len(<<"down", "up">>)] = "up"
      /\ <<"down">>[1] = "down" /\ <<"down">>[Len(<<"down">>)] = "down"
      /\ <<"up">>[1] = "up" /\ <<"up">>[Len(<<"up">>)] = "up"
      /\ "up" # "down"
  OBVIOUS
<1> DEFINE changed == {i \in DOMAIN ups : ups[i] # <<>>}
           now == [i \in Index(K) |->
                     IF i \in changed THEN ups[i][Len(ups[i])] = "down"
                                      ELSE told[r][K][i]]
<1>4. /\ Tell(t, K, ups) /\ states' = [states EXCEPT ![r][K] = in.states]
      /\ pc[t] = "decoded" /\ pc' = [pc EXCEPT ![t] = "returning"]
      /\ UNCHANGED listener
  BY DEF UpdateStates
<1> HIDE DEF ups
<1>n. now = Hear(told[r][K], ups)
  <2>1. DOMAIN told[r][K] = Index(K)
    BY <1>2
  <2>2. DOMAIN ups = Index(K)
    BY <1>3
  <2> QED
    BY <2>1, <2>2 DEF Hear
<1>5. told' = [told EXCEPT ![r][K] = now]
  BY <1>1, <1>4, <1>n DEF Tell, Inv, Shapes, Shape
<1>6. ASSUME Both(K) PROVE now = in.states
  <2>1. told[r][K] = states[r][K]
    BY <1>1, <1>6 DEF Inv, ToldIsStored
  <2>2. ASSUME NEW i \in Index(K) PROVE now[i] = in.states[i]
    <3>1. in.states[i] \in BOOLEAN /\ states[r][K][i] \in BOOLEAN
      BY <1>2
    <3>2. CASE in.states[i] /\ ~states[r][K][i]
      BY <1>a, <1>b, <1>3, <1>6, <3>1, <3>2
    <3>3. CASE ~in.states[i] /\ states[r][K][i]
      BY <1>a, <1>b, <1>3, <1>6, <3>1, <3>3
    <3>4. CASE in.states[i] = states[r][K][i]
      BY <1>a, <1>b, <1>3, <1>6, <3>1, <3>4, <2>1
    <3> QED
      BY <3>1, <3>2, <3>3, <3>4
  <2> QED
    BY <2>2, <1>2
<1>7. ASSUME ~Both(K) PROVE now = AllUp(K)
  <2>1. told[r][K] = AllUp(K)
    BY <1>1, <1>7 DEF Inv, SingleStateUp
  <2>2. ASSUME NEW i \in Index(K) PROVE now[i] = FALSE
    <3>1. CASE in.states[i]
      BY <1>a, <1>b, <1>3, <1>7, <3>1
    <3>2. CASE ~in.states[i]
      BY <1>a, <1>b, <1>3, <1>7, <3>2, <2>1 DEF AllUp
    <3> QED
      BY <3>1, <3>2
  <2> QED
    BY <2>2 DEF AllUp
<1>8. now \in [Index(K) -> BOOLEAN]
  BY <1>6, <1>7, <1>2 DEF AllUp
<1>9. \A i \in changed : told[r][K][i] # (ups[i][1] = "down")
  <2> SUFFICES ASSUME NEW i \in Index(K), ups[i] # <<>>
               PROVE  told[r][K][i] # (ups[i][1] = "down")
    BY <1>3
  <2>0. in.states[i] \in BOOLEAN /\ states[r][K][i] \in BOOLEAN
    BY <1>2
  <2>1. CASE Both(K)
    <3>1. told[r][K][i] = states[r][K][i]
      BY <1>1, <2>1 DEF Inv, ToldIsStored
    <3> QED
      BY <3>1, <2>0, <2>1, <1>a, <1>b
  <2>2. CASE ~Both(K)
    <3>1. told[r][K] = AllUp(K)
      BY <1>1, <2>2 DEF Inv, SingleStateUp
    <3>2. told[r][K][i] = FALSE
      BY <3>1 DEF AllUp
    <3>3. ups[i][1] = "down"
      BY <2>2, <1>a, <1>b
    <3> QED
      BY <3>2, <3>3
  <2> QED
    BY <2>1, <2>2
<1> HIDE DEF now
<1>10. Shape(states)' /\ Shape(told)' /\ Shape(heard)'
  BY <1>1, <1>2, <1>4, <1>5, <1>8 DEF Inv, Shapes, Shape, listener
<1>11. (queue \in Seq(Report) /\ DOMAIN input = Task /\ \A u \in Task : Full(input[u]))'
  BY NoDataIsFull DEF UpdateStates, Inv, Shapes, device
<1>15. updates' = [updates EXCEPT ![t][K] = ups] /\ UNCHANGED <<heard, echoed>>
  BY <1>4 DEF Tell, listener
<1>16. (/\ DOMAIN updates = Task /\ DOMAIN pc = Task
        /\ \A u \in Task : pc[u] # "returning" => updates[u] = Nothing)'
  BY <1>4, <1>15 DEF Inv, Shapes
<1>12. ToldIsStored'
  BY <1>1, <1>4, <1>5, <1>6 DEF Inv, Shapes, Shape, ToldIsStored, Both
<1>13. SingleStateUp'
  BY <1>1, <1>5, <1>7 DEF Inv, Shapes, Shape, SingleStateUp, Both, AllUp, Index, Count
<1>17. ~Echoes(told[r][K], ups)
  BY <1>9 DEF Echoes
<1>14. Alternates'
  <2>1. repeated' = (repeated \/ Echoes(told[r][K], ups))
    BY <1>4 DEF Tell
  <2>2. ~repeated'
    BY <1>17, <2>1 DEF Inv, Alternates
  <2> QED
    BY <1>15, <2>2 DEF Inv, Alternates, Exclusive
<1>18. HeardInTurn'
  <2> SUFFICES ASSUME NEW u \in Task, Exclusive(Uses[u]), NEW kind \in Kind
               PROVE  /\ told'[Uses[u]][kind] = Hear(heard[Uses[u]][kind], updates'[u][kind])
                      /\ ~Echoes(heard[Uses[u]][kind], updates'[u][kind])
    BY <1>15 DEF HeardInTurn, OneBehind, Exclusive
  <2>0. Uses[u] \in Reader
    BY UsesAReader
  <2>1. /\ told[Uses[u]][kind] = Hear(heard[Uses[u]][kind], updates[u][kind])
        /\ ~Echoes(heard[Uses[u]][kind], updates[u][kind])
    BY DEF Inv, HeardInTurn, OneBehind
  <2>2. CASE u # t
    <3>1. Uses[u] # r
      BY <2>2 DEF Exclusive
    <3>2. told'[Uses[u]] = told[Uses[u]] /\ updates'[u] = updates[u]
      BY <1>5, <1>15, <2>0, <2>2, <3>1 DEF Inv, Shapes, Shape
    <3> QED
      BY <2>1, <3>2
  <2>3. CASE u = t /\ kind # K
    <3>1. told'[r][kind] = told[r][kind] /\ updates'[t][kind] = updates[t][kind]
      BY <1>1, <1>4, <1>5, <1>15, <2>3 DEF Inv, Shapes, Shape, Nothing
    <3> QED
      BY <2>1, <2>3, <3>1
  <2>4. CASE u = t /\ kind = K
    <3>1. updates[t] = Nothing
      BY <1>4 DEF Inv, Shapes
    <3>2. heard[r][K] \in [Index(K) -> BOOLEAN]
      BY <1>1 DEF Inv, Shapes, Shape
    <3>3. told[r][K] = heard[r][K]
      BY <1>1, <2>1, <2>4, <3>1, <3>2, HearNothing
    <3>4. updates'[t][K] = ups /\ told'[r][K] = now
      BY <1>1, <1>5, <1>15, <3>1 DEF Inv, Shapes, Shape, Nothing
    <3> QED
      BY <1>n, <1>17, <2>4, <3>3, <3>4
  <2> QED
    BY <2>2, <2>3, <2>4
<1> QED
  BY <1>10, <1>11, <1>12, <1>13, <1>14, <1>16, <1>18 DEF Inv, Shapes

\* The updates are returned: what the listener of a reader with one task has
\* heard is now all that was computed.
LEMMA ReturnStep ==
  ASSUME Inv, NEW t \in Task, Return(t)
  PROVE  Inv'
<1> DEFINE r == Uses[t]
<1>1. r \in Reader
  BY UsesAReader
<1>2. /\ UNCHANGED <<queue, input, states, told, repeated>>
      /\ pc' = [pc EXCEPT ![t] = "idle"] /\ updates' = [updates EXCEPT ![t] = Nothing]
      /\ heard' = [heard EXCEPT ![r] = [kind \in Kind |-> Hear(@[kind], updates[t][kind])]]
      /\ echoed' = IF \E kind \in Kind : Echoes(heard[r][kind], updates[t][kind])
                   THEN echoed \cup {r} ELSE echoed
  BY DEF Return, device, computed
<1>3. ASSUME NEW x \in Reader, NEW kind \in Kind
      PROVE  /\ heard[x][kind] \in [Index(kind) -> BOOLEAN]
             /\ told[x][kind] \in [Index(kind) -> BOOLEAN]
  BY DEF Inv, Shapes, Shape
<1>4. DOMAIN heard = Reader /\ DOMAIN heard[r] = Kind
  BY <1>1 DEF Inv, Shapes, Shape
<1>5. /\ \A kind \in Kind : heard'[r][kind] = Hear(heard[r][kind], updates[t][kind])
      /\ \A x \in Reader \ {r} : heard'[x] = heard[x]
      /\ DOMAIN heard' = Reader /\ DOMAIN heard'[r] = Kind
  BY <1>1, <1>2, <1>4
<1>6. ASSUME NEW believed, NEW ups, NEW S, believed \in [S -> BOOLEAN]
      PROVE  Hear(believed, ups) \in [S -> BOOLEAN]
  <2>1. DOMAIN believed = S /\ \A i \in S : believed[i] \in BOOLEAN
    BY <1>6
  <2>2. \A i \in S : (IF i \in DOMAIN ups /\ ups[i] # <<>>
                      THEN ups[i][Len(ups[i])] = "down" ELSE believed[i]) \in BOOLEAN
    BY <2>1
  <2> QED
    BY <2>1, <2>2 DEF Hear
<1>7. Shape(heard)'
  <2>1. \A kind \in Kind : heard'[r][kind] \in [Index(kind) -> BOOLEAN]
    BY <1>1, <1>3, <1>5, <1>6
  <2> QED
    BY <1>1, <1>5, <2>1 DEF Inv, Shapes, Shape
<1>8. (Shape(states) /\ Shape(told) /\ ToldIsStored /\ SingleStateUp)'
  BY <1>2 DEF Inv, Shapes, Shape, ToldIsStored, SingleStateUp
<1>9. (/\ queue \in Seq(Report)
       /\ DOMAIN input = Task /\ \A u \in Task : Full(input[u])
       /\ DOMAIN updates = Task /\ DOMAIN pc = Task
       /\ \A u \in Task : pc[u] # "returning" => updates[u] = Nothing)'
  BY <1>2 DEF Inv, Shapes
<1>10. Alternates'
  <2>1. ASSUME NEW x \in Reader, Exclusive(x) PROVE x \notin echoed'
    <3>1. x \notin echoed
      BY <2>1 DEF Inv, Alternates
    <3>2. CASE x = r
      <4>1. \A kind \in Kind : ~Echoes(heard[r][kind], updates[t][kind])
        BY <2>1, <3>2 DEF Inv, HeardInTurn, OneBehind
      <4> QED
        BY <1>2, <3>1, <4>1
    <3>3. CASE x # r
      BY <1>2, <3>1, <3>3
    <3> QED
      BY <3>2, <3>3
  <2> QED
    BY <1>2, <2>1 DEF Inv, Alternates, Exclusive
<1>11. HeardInTurn'
  <2> SUFFICES ASSUME NEW u \in Task, Exclusive(Uses[u]), NEW kind \in Kind
               PROVE  /\ told[Uses[u]][kind] = Hear(heard'[Uses[u]][kind], updates'[u][kind])
                      /\ ~Echoes(heard'[Uses[u]][kind], updates'[u][kind])
    BY <1>2 DEF HeardInTurn, OneBehind, Exclusive
  <2>0. Uses[u] \in Reader
    BY UsesAReader
  <2>1. /\ told[Uses[u]][kind] = Hear(heard[Uses[u]][kind], updates[u][kind])
        /\ ~Echoes(heard[Uses[u]][kind], updates[u][kind])
    BY DEF Inv, HeardInTurn, OneBehind
  <2>2. CASE u # t
    <3>1. Uses[u] # r
      BY <2>2 DEF Exclusive
    <3>2. heard'[Uses[u]] = heard[Uses[u]] /\ updates'[u] = updates[u]
      BY <1>2, <1>5, <2>0, <2>2, <3>1 DEF Inv, Shapes
    <3> QED
      BY <2>1, <3>2
  <2>3. CASE u = t
    <3>1. heard'[r][kind] = told[r][kind] /\ updates'[t] = Nothing
      BY <1>2, <1>5, <2>1, <2>3 DEF Inv, Shapes
    <3> QED
      BY <1>1, <1>3, <2>3, <3>1, HearNothing
  <2> QED
    BY <2>2, <2>3
<1> QED
  BY <1>7, <1>8, <1>9, <1>10, <1>11 DEF Inv, Shapes

\* What the device sends is a report.
LEMMA SendReport ==
  ASSUME NEW key \in 0..255, NEW state \in 0..255, NEW ack \in BOOLEAN, queue \in Seq(Report),
         queue' = Append(queue, [ack |-> ack, key |-> key, state |-> state])
  PROVE  queue' \in Seq(Report)
<1>1. [ack |-> ack, key |-> key, state |-> state] \in Report
  BY DEF Report
<1> QED
  BY <1>1

\* Every other step leaves the snapshots and the listeners alone.
LEMMA OtherStep ==
  ASSUME FullSnapshots, Inv, [Next]_vars,
         \A t \in Task : ~UpdateStates(t) /\ ~Return(t)
  PROVE  Inv'
<1>1. /\ UNCHANGED <<updates, states, told, repeated, heard, echoed>>
      /\ DOMAIN pc' = DOMAIN pc
      /\ \A u \in Task : pc[u] = "returning" => pc'[u] = "returning"
  <2>0. DOMAIN pc = Task
    BY DEF Inv, Shapes
  <2>1. CASE Device
    BY <2>1 DEF Device, Press, Release, Turn, Noise, history, computed, listener
  <2>2. CASE \E t \in Task : Begin(t) \/ TakeReader(t) \/ ReadReport(t)
    BY <2>0, <2>2 DEF Begin, TakeReader, ReadReport, history, computed, listener
  <2>3. CASE \E t \in Task : TimeOut(t) \/ FailRead(t) \/ Drop(t) \/ UpdateTwist(t)
    BY <2>0, <2>3 DEF TimeOut, FailRead, Drop, UpdateTwist, history, computed, listener
  <2>4. CASE UNCHANGED vars
    BY <2>4 DEF vars, history, computed, listener
  <2> QED
    BY <2>1, <2>2, <2>3, <2>4 DEF Next, Update
<1>2. (queue \in Seq(Report))'
  <2> USE DEF Inv, Shapes
  <2>1. CASE Device
    <3>d. queue \in Seq(Report)
      OBVIOUS
    <3> HIDE DEF Inv, Shapes
    <3>1. ASSUME NEW key \in 0..255, NEW state \in 0..255, NEW ack \in BOOLEAN
          PROVE  Append(queue, [ack |-> ack, key |-> key, state |-> state]) \in Seq(Report)
      BY <3>d DEF Report
    <3>2. \A kind \in Kind : \A i \in Index(kind) : Byte(kind, i) \in 0..255
      <4>1. KeyCount \in 0..64 /\ EncoderCount \in 0..32
        BY Counts
      <4>2. \A i \in Index("buttons") : Byte("buttons", i) \in 0..255
        BY <4>1 DEF Index, Count, Byte
      <4>3. \A i \in Index("encoders") : Byte("encoders", i) \in 0..255
        BY <4>1 DEF Index, Count, Byte
      <4> QED
        BY <4>2, <4>3 DEF Kind
    <3>3. \A i \in Index("encoders"), d \in {-1, 1} : TurnByte(i, d) \in 0..255
      <4>1. EncoderCount \in 0..32
        BY Counts
      <4> QED
        BY <4>1 DEF Index, Count, TurnByte
    <3> DEFINE marked == ProtocolVersion > 0
    <3>a. marked \in BOOLEAN /\ FALSE \in BOOLEAN /\ "buttons" \in Kind
      BY DEF Kind
    <3>b. 0 \in 0..255 /\ 1 \in 0..255 /\ 255 \in 0..255
      OBVIOUS
    <3>c. ASSUME NEW key \in 0..255, NEW state \in 0..255, Send(key, state)
          PROVE  queue' \in Seq(Report)
      BY <3>1, <3>a, <3>c, <3>d DEF Send
    <3>4. CASE \E kind \in Kind : \E i \in Index(kind) : Press(kind, i)
      BY <3>2, <3>b, <3>c, <3>4 DEF Press
    <3>5. CASE \E kind \in Kind : \E i \in Index(kind) : Release(kind, i)
      <4>1. PICK kind \in Kind : \E i \in Index(kind) : Release(kind, i)
        BY <3>5
      <4>2. PICK i \in Index(kind) : Release(kind, i)
        BY <4>1
      <4>3. Send(Byte(kind, i), 0) \/ queue' = queue
        BY <4>2 DEF Release
      <4>4. Byte(kind, i) \in 0..255
        BY <3>2
      <4>5. CASE queue' = queue
        BY <3>d, <4>5
      <4>6. CASE Send(Byte(kind, i), 0)
        BY <3>b, <3>c, <4>4, <4>6, Zenon
      <4> QED
        BY <4>3, <4>5, <4>6
    <3>6. CASE \E i \in Index("encoders"), d \in {-1, 1} : Turn(i, d)
      <4>1. PICK i \in Index("encoders"), d \in {-1, 1} : Send(TurnByte(i, d), 0)
        BY <3>6 DEF Turn
      <4>2. TurnByte(i, d) \in 0..255
        BY <3>3
      <4> QED
        BY <3>b, <3>c, <4>1, <4>2
    <3>7. CASE Noise
      <4>1. CASE queue' = Append(queue, [ack |-> marked, key |-> 255, state |-> 1])
        <5> HIDE DEF marked
        <5>1. [ack |-> marked, key |-> 255, state |-> 1] \in Report
          BY <3>a, <3>b DEF Report
        <5> QED
          BY <3>d, <4>1, <5>1
      <4>2. CASE \E i \in Index("buttons") :
                   queue' = Append(queue, [ack |-> FALSE, key |-> Byte("buttons", i), state |-> 1])
        <5>1. PICK i \in Index("buttons") :
                queue' = Append(queue, [ack |-> FALSE, key |-> Byte("buttons", i), state |-> 1])
          BY <4>2
        <5>2. Byte("buttons", i) \in 0..255
          BY <5>1, <3>2, <3>a
        <5> HIDE DEF marked
        <5> QED
          BY <5>1, <5>2, <3>a, <3>b, <3>d, SendReport
      <4> QED
        BY <3>7, <4>1, <4>2 DEF Noise
    <3> QED
      BY <2>1, <3>4, <3>5, <3>6, <3>7 DEF Device
  <2>2. CASE \E t \in Task : ReadReport(t)
    BY <2>2 DEF ReadReport
  <2>3. CASE \E t \in Task : Begin(t) \/ TakeReader(t) \/ TimeOut(t) \/ FailRead(t)
    BY <2>3 DEF Begin, TakeReader, TimeOut, FailRead, device
  <2>4. CASE \E t \in Task : Drop(t) \/ UpdateTwist(t)
    BY <2>4 DEF Drop, UpdateTwist, device
  <2>5. CASE UNCHANGED vars
    BY <2>5 DEF vars, device
  <2> QED
    BY <2>1, <2>2, <2>3, <2>4, <2>5 DEF Next, Update
<1>3. (DOMAIN input = Task /\ \A t \in Task : Full(input[t]))'
  <2> USE DEF Inv, Shapes
  <2>1. CASE Device
    BY <2>1 DEF Device, Press, Release, Turn, Noise
  <2>2. ASSUME NEW t \in Task, ReadReport(t)
        PROVE  (DOMAIN input = Task /\ \A u \in Task : Full(input[u]))'
    <3>1. Full(Decode(Head(queue)))
      BY <2>2, DecodeFull DEF ReadReport
    <3> QED
      BY <2>2, <3>1 DEF ReadReport
  <2>3. CASE \E t \in Task : Begin(t) \/ TakeReader(t) \/ TimeOut(t) \/ FailRead(t)
    BY <2>3 DEF Begin, TakeReader, TimeOut, FailRead
  <2>4. CASE \E t \in Task : Drop(t) \/ UpdateTwist(t)
    BY <2>4, NoDataIsFull DEF Drop, UpdateTwist
  <2>5. CASE UNCHANGED vars
    BY <2>5 DEF vars
  <2> QED
    BY <2>1, <2>2, <2>3, <2>4, <2>5 DEF Next, Update
<1>4. (Shape(states) /\ Shape(told) /\ Shape(heard) /\ ToldIsStored /\ SingleStateUp)'
  BY <1>1 DEF Inv, Shapes, Shape, ToldIsStored, SingleStateUp
<1>5. (Alternates /\ HeardInTurn)'
  BY <1>1 DEF Inv, Alternates, HeardInTurn, OneBehind, Exclusive
<1>6. (/\ DOMAIN updates = Task /\ DOMAIN pc = Task
       /\ \A t \in Task : pc[t] # "returning" => updates[t] = Nothing)'
  BY <1>1 DEF Inv, Shapes
<1> QED
  BY <1>2, <1>3, <1>4, <1>5, <1>6 DEF Inv, Shapes

\* The invariant holds in every reachable state, for any number of tasks and
\* readers, any mix of the two flags and any protocol version.
THEOREM Invariance == ASSUME FullSnapshots PROVE Spec => []Inv
<1>1. Inv /\ [Next]_vars => Inv'
  BY UpdateStep, ReturnStep, OtherStep
<1> QED
  BY InitInv, <1>1, PTL DEF Spec

\* Whatever tasks share a reader, the updates it computes never say the same of
\* a control twice in a row; and where one task reads, its listener never hears
\* the same twice in a row (input_to_updates and read, src/state.rs:116-187).
THEOREM UpdatesAlternate == ASSUME FullSnapshots PROVE Spec => []Alternates
<1>1. Inv => Alternates
  BY DEF Inv
<1> QED
  BY Invariance, <1>1, PTL

\* What the updates computed by a reader say is what it has stored.
THEOREM ListenersKnowTheState == ASSUME FullSnapshots PROVE Spec => []ToldIsStored
<1>1. Inv => ToldIsStored
  BY DEF Inv
<1> QED
  BY Invariance, <1>1, PTL


-----------------------------------------------------------------------------
(* Types, whatever the decoder returns.                                    *)

Formed ==
  /\ TypeOK
  /\ DOMAIN states = Reader /\ DOMAIN told = Reader /\ DOMAIN heard = Reader
  /\ \A r \in Reader : DOMAIN states[r] = Kind /\ DOMAIN told[r] = Kind /\ DOMAIN heard[r] = Kind
  /\ DOMAIN updates = Task /\ \A t \in Task : DOMAIN updates[t] = Kind
  /\ DOMAIN presses = Kind /\ DOMAIN downs = Kind /\ DOMAIN held = Kind

\* The bounds are numbers.
LEMMA Bounds ==
  MaxHeld \in Nat /\ MaxEvents \in Nat /\ MaxFaults \in Nat /\ MaxDrops \in Nat
BY ReaderAssumption, Zenon

\* Every control has a byte, and so has every turn; 255 is none of them.
LEMMA Bytes ==
  /\ \A kind \in Kind : \A i \in Index(kind) : Byte(kind, i) \in 0..255 \ {255} /\ i \in Nat
  /\ \A i \in Index("encoders"), d \in {-1, 1} : TurnByte(i, d) \in 0..255 \ {255} /\ i \in Nat
<1>1. KeyCount \in 0..64 /\ EncoderCount \in 0..32
  BY Counts
<1>2. \A i \in Index("buttons") : Byte("buttons", i) \in 0..255 \ {255} /\ i \in Nat
  BY <1>1 DEF Index, Count, Byte
<1>3. \A i \in Index("encoders") : Byte("encoders", i) \in 0..255 \ {255} /\ i \in Nat
  BY <1>1 DEF Index, Count, Byte
<1>4. \A i \in Index("encoders"), d \in {-1, 1} : TurnByte(i, d) \in 0..255 \ {255}
  BY <1>1 DEF Index, Count, TurnByte
<1> QED
  BY <1>2, <1>3, <1>4 DEF Kind

\* A report that is sent is a report.
LEMMA SendType ==
  ASSUME NEW key \in 0..255, NEW state \in 0..255, queue \in Seq(Report), events \in 0..MaxEvents,
         Send(key, state)
  PROVE  queue' \in Seq(Report) /\ events' \in 0..MaxEvents
<1>1. events' \in 0..MaxEvents
  BY Bounds DEF Send
<1> DEFINE marked == ProtocolVersion > 0
<1>2. marked \in BOOLEAN
  OBVIOUS
<1>3. queue' = Append(queue, [ack |-> marked, key |-> key, state |-> state])
  BY DEF Send
<1> HIDE DEF marked
<1>4. queue' \in Seq(Report)
  BY <1>2, <1>3, SendReport
<1> QED
  BY <1>1, <1>4

\* Neither a snapshot nor an input is changed by what the device does.
LEMMA DeviceFormed ==
  ASSUME Formed, queue' \in Seq(Report), events' \in 0..MaxEvents,
         held' \in [Kind -> SUBSET Nat], \A k \in Kind : held'[k] \subseteq Index(k),
         DOMAIN presses' = Kind, \A k \in Kind : presses'[k] \in [Index(k) -> Nat],
         turns' \in [Index("encoders") -> Int],
         UNCHANGED <<readLock, pc, timed, input, updates, states, bounds, history>>
  PROVE  Formed'
<1>1. DOMAIN held' = Kind
  OBVIOUS
<1>2. UNCHANGED <<readLock, pc, timed, input, updates, states, faults, drops, downs, turned, told,
                  repeated, heard, echoed>>
  BY DEF bounds, history, computed, listener
<1> QED
  BY <1>1, <1>2 DEF Formed, TypeOK

\* What happens outside keeps the types.
LEMMA DeviceType ==
  ASSUME Formed, Device
  PROVE  Formed'
<1>0. /\ queue \in Seq(Report) /\ events \in 0..MaxEvents
      /\ held \in [Kind -> SUBSET Nat] /\ \A k \in Kind : held[k] \subseteq Index(k)
      /\ DOMAIN presses = Kind /\ \A k \in Kind : presses[k] \in [Index(k) -> Nat]
      /\ turns \in [Index("encoders") -> Int]
  BY DEF Formed, TypeOK
<1>1. ASSUME NEW kind \in Kind, NEW i \in Index(kind), Press(kind, i)
      PROVE  Formed'
  <2>1. Byte(kind, i) \in 0..255 /\ 1 \in 0..255 /\ i \in Nat
    BY Bytes
  <2>2. queue' \in Seq(Report) /\ events' \in 0..MaxEvents
    <3>1. Send(Byte(kind, i), 1)
      BY <1>1 DEF Press
    <3> QED
      BY <1>0, <2>1, <3>1, SendType, Zenon
  <2>3. held' \in [Kind -> SUBSET Nat] /\ \A k \in Kind : held'[k] \subseteq Index(k)
    BY <1>0, <1>1, <2>1 DEF Press
  <2>4. DOMAIN presses' = Kind /\ \A k \in Kind : presses'[k] \in [Index(k) -> Nat]
    BY <1>0, <1>1 DEF Press
  <2>5. UNCHANGED <<turns, readLock, pc, timed, input, updates, states, bounds, history>>
    BY <1>1 DEF Press
  <2> QED
    BY <1>0, <2>2, <2>3, <2>4, <2>5, DeviceFormed
<1>2. ASSUME NEW kind \in Kind, NEW i \in Index(kind), Release(kind, i)
      PROVE  Formed'
  <2>0. 0 \in 0..255
    OBVIOUS
  <2>1. Byte(kind, i) \in 0..255
    BY Bytes
  <2>2. queue' \in Seq(Report) /\ events' \in 0..MaxEvents
    <3>1. CASE ReportsReleases
      <4>1. Send(Byte(kind, i), 0)
        BY <1>2, <3>1 DEF Release
      <4> QED
        BY <1>0, <2>0, <2>1, <4>1, SendType, Zenon
    <3>2. CASE ~ReportsReleases
      BY <1>0, <1>2, <3>2 DEF Release
    <3> QED
      BY <3>1, <3>2
  <2>3. held' \in [Kind -> SUBSET Nat] /\ \A k \in Kind : held'[k] \subseteq Index(k)
    BY <1>0, <1>2 DEF Release
  <2>5. UNCHANGED <<presses, turns, readLock, pc, timed, input, updates, states, bounds, history>>
    BY <1>2 DEF Release
  <2> QED
    BY <1>0, <2>2, <2>3, <2>5, DeviceFormed
<1>3. ASSUME NEW i \in Index("encoders"), NEW d \in {-1, 1}, Turn(i, d)
      PROVE  Formed'
  <2>0. 0 \in 0..255
    OBVIOUS
  <2>1. TurnByte(i, d) \in 0..255
    <3>1. \A j \in Index("encoders"), e \in {-1, 1} : TurnByte(j, e) \in 0..255
      BY Bytes
    <3> QED
      BY <1>3, <3>1
  <2>2. queue' \in Seq(Report) /\ events' \in 0..MaxEvents
    <3>1. Send(TurnByte(i, d), 0)
      BY <1>3 DEF Turn
    <3> QED
      BY <1>0, <2>0, <2>1, <3>1, SendType, Zenon
  <2>3. turns' \in [Index("encoders") -> Int]
    <3>1. d \in Int
      OBVIOUS
    <3> QED
      BY <1>0, <1>3, <3>1 DEF Turn
  <2>5. UNCHANGED <<held, presses, readLock, pc, timed, input, updates, states, bounds, history>>
    BY <1>3 DEF Turn
  <2> QED
    BY <1>0, <2>2, <2>3, <2>5, DeviceFormed
<1>4. ASSUME Noise
      PROVE  Formed'
  <2>1. UNCHANGED <<held, presses, turns, readLock, pc, timed, input, updates, states, bounds, history>>
    BY <1>4 DEF Noise
  <2>2. events' \in 0..MaxEvents
    BY <1>0, <1>4, Bounds DEF Noise
  <2>3. queue' \in Seq(Report)
    <3> DEFINE marked == ProtocolVersion > 0
    <3>1. marked \in BOOLEAN /\ FALSE \in BOOLEAN /\ 1 \in 0..255 /\ 255 \in 0..255
      OBVIOUS
    <3>2. CASE queue' = Append(queue, [ack |-> marked, key |-> 255, state |-> 1])
      <4> HIDE DEF marked
      <4>2. [ack |-> marked, key |-> 255, state |-> 1] \in Report
        BY <3>1 DEF Report
      <4> QED
        BY <1>0, <3>2, <4>2
    <3>3. ASSUME NEW i \in Index("buttons"),
                 queue' = Append(queue, [ack |-> FALSE, key |-> Byte("buttons", i), state |-> 1])
          PROVE  queue' \in Seq(Report)
      <4>1. Byte("buttons", i) \in 0..255
        BY Bytes DEF Kind
      <4> QED
        BY <1>0, <3>1, <3>3, <4>1, SendReport, Zenon
    <3>4. \/ queue' = Append(queue, [ack |-> marked, key |-> 255, state |-> 1])
          \/ \E i \in Index("buttons") :
               queue' = Append(queue, [ack |-> FALSE, key |-> Byte("buttons", i), state |-> 1])
      BY <1>4 DEF Noise
    <3> HIDE DEF marked
    <3> QED
      BY <3>2, <3>3, <3>4, Zenon
  <2> QED
    BY <1>0, <2>1, <2>2, <2>3, DeviceFormed
<1> QED
  BY <1>1, <1>2, <1>3, <1>4 DEF Device

\* No data is an input; so is what is decoded, unless it is an error.
LEMMA DecodeType ==
  /\ IsInput(NoData)
  /\ \A r \in Report : Decode(r) = BadData \/ IsInput(Decode(r))
<1>1. IsInput(NoData)
  BY DEF IsInput
<1>2. ASSUME NEW r \in Report
      PROVE  Decode(r) = BadData \/ IsInput(Decode(r))
  <2>1. r.key \in 0..255 /\ (IF BothKeypressStates THEN r.state ELSE 1) \in 0..255
    BY DEF Report
  <2>2. \/ ProcessInput(r.key, IF BothKeypressStates THEN r.state ELSE 1) = BadData
        \/ IsInput(ProcessInput(r.key, IF BothKeypressStates THEN r.state ELSE 1))
    BY <2>1, ReaderAssumption
  <2> QED
    BY <1>1, <2>2 DEF Decode
<1> QED
  BY <1>1, <1>2

\* Types: the steps of a read.
Phase == {"idle", "waiting", "reading", "decoded", "returning"}

\* A step that changes only where a read is, and what it took, keeps the types.
LEMMA ReadFormed ==
  ASSUME Formed, queue' \in Seq(Report), readLock' \in Task \cup {Free}, pc' \in [Task -> Phase],
         timed' \in [Task -> BOOLEAN], DOMAIN input' = Task, \A u \in Task : IsInput(input'[u]),
         faults' \in 0..MaxFaults, drops' \in 0..MaxDrops,
         UNCHANGED <<held, events, presses, turns, updates, states, history>>
  PROVE  Formed'
<1>1. UNCHANGED <<downs, turned, told, repeated, heard, echoed>>
  BY DEF history, computed, listener
<1> QED
  BY <1>1 DEF Formed, TypeOK, Phase

\* So does every step of a read up to the comparison.
LEMMA ReadType ==
  ASSUME Formed, NEW t \in Task,
         \/ Begin(t) \/ TakeReader(t) \/ ReadReport(t) \/ TimeOut(t) \/ FailRead(t) \/ Drop(t)
  PROVE  Formed'
<1>0. /\ queue \in Seq(Report) /\ readLock \in Task \cup {Free} /\ pc \in [Task -> Phase]
      /\ timed \in [Task -> BOOLEAN] /\ DOMAIN input = Task /\ \A u \in Task : IsInput(input[u])
      /\ faults \in 0..MaxFaults /\ drops \in 0..MaxDrops
  BY DEF Formed, TypeOK, Phase
<1>1. CASE Begin(t) \/ TakeReader(t) \/ TimeOut(t)
  <2>1. pc' \in [Task -> Phase]
    BY <1>0, <1>1 DEF Begin, TakeReader, TimeOut, Phase
  <2>2. timed' \in [Task -> BOOLEAN] /\ readLock' \in Task \cup {Free}
    BY <1>0, <1>1 DEF Begin, TakeReader, TimeOut
  <2>3. UNCHANGED <<device, input, updates, states, bounds, history>>
    BY <1>1 DEF Begin, TakeReader, TimeOut
  <2>4. UNCHANGED <<queue, held, events, presses, turns, input, updates, states, faults, drops, history>>
    BY <2>3 DEF device, bounds
  <2> QED
    BY <1>0, <2>1, <2>2, <2>4, ReadFormed
<1>2. CASE ReadReport(t)
  <2>1. /\ queue' \in Seq(Report) /\ Head(queue) \in Report
    BY <1>0, <1>2 DEF ReadReport
  <2>2. DOMAIN input' = Task /\ \A u \in Task : IsInput(input'[u])
    BY <1>0, <1>2, <2>1, DecodeType DEF ReadReport
  <2>3. pc' \in [Task -> Phase]
    BY <1>0, <1>2 DEF ReadReport, Phase
  <2>4. /\ readLock' = Free
        /\ UNCHANGED <<held, events, presses, turns, timed, updates, states, faults, drops, history>>
    BY <1>2 DEF ReadReport, bounds
  <2> QED
    BY <1>0, <2>1, <2>2, <2>3, <2>4, ReadFormed
<1>3. CASE FailRead(t)
  <2>1. faults' \in 0..MaxFaults
    BY <1>0, <1>3, Bounds DEF FailRead
  <2>2. pc' \in [Task -> Phase] /\ readLock' = Free
    BY <1>0, <1>3 DEF FailRead, Phase
  <2>3. UNCHANGED <<queue, held, events, presses, turns, timed, input, updates, states, drops, history>>
    BY <1>3 DEF FailRead, device
  <2> QED
    BY <1>0, <2>1, <2>2, <2>3, ReadFormed
<1>4. CASE Drop(t)
  <2>1. drops' \in 0..MaxDrops
    BY <1>0, <1>4, Bounds DEF Drop
  <2>2. readLock' \in Task \cup {Free} /\ pc' \in [Task -> Phase]
    BY <1>0, <1>4 DEF Drop, Phase
  <2>3. DOMAIN input' = Task /\ \A u \in Task : IsInput(input'[u])
    BY <1>0, <1>4, DecodeType DEF Drop
  <2>4. UNCHANGED <<queue, held, events, presses, turns, timed, updates, states, faults, history>>
    BY <1>4 DEF Drop, device
  <2> QED
    BY <1>0, <2>1, <2>2, <2>3, <2>4, ReadFormed
<1> QED
  BY <1>1, <1>2, <1>3, <1>4

\* What is heard of a kind is a matter of yes or no for each of its controls.
LEMMA HearType ==
  ASSUME NEW S, NEW believed \in [S -> BOOLEAN], NEW ups
  PROVE  Hear(believed, ups) \in [S -> BOOLEAN]
<1>1. DOMAIN believed = S /\ \A i \in S : believed[i] \in BOOLEAN
  OBVIOUS
<1>2. \A i \in S : (IF i \in DOMAIN ups /\ ups[i] # <<>>
                    THEN ups[i][Len(ups[i])] = "down" ELSE believed[i]) \in BOOLEAN
  BY <1>1
<1> QED
  BY <1>1, <1>2 DEF Hear

\* The updates of one kind, whatever the lengths of the snapshots.
LEMMA ChangesType ==
  ASSUME NEW kind \in Kind, NEW theirs, NEW mine, IsSnapshot(theirs), IsSnapshot(mine)
  PROVE  IsUpdates(Changes(kind, theirs, mine))
<1> DEFINE ups == Changes(kind, theirs, mine)
           Said == {<<>>, <<"down">>, <<"up">>, <<"down", "up">>}
<1>1. PICK m \in 0..64 : theirs \in [0..m - 1 -> BOOLEAN]
  BY DEF IsSnapshot
<1>2. PICK n \in 0..64 : mine \in [0..n - 1 -> BOOLEAN]
  BY DEF IsSnapshot
<1>3. PICK l \in 0..64 : (0..m - 1) \cap (0..n - 1) = 0..l - 1
  <2>0. m \in Int /\ n \in Int /\ (m <= n \/ n < m)
    OBVIOUS
  <2>1. CASE m <= n
    <3>1. (0..m - 1) \cap (0..n - 1) = 0..m - 1
      BY <2>1
    <3> QED
      BY <3>1
  <2>2. CASE n < m
    <3>1. (0..m - 1) \cap (0..n - 1) = 0..n - 1
      BY <2>2
    <3> QED
      BY <3>1
  <2> QED
    BY <2>0, <2>1, <2>2, Zenon
<1>4. DOMAIN theirs \cap DOMAIN mine = 0..l - 1
  BY <1>1, <1>2, <1>3
<1>5. ups = [i \in 0..l - 1 |->
               CASE ~Both(kind) /\ theirs[i]             -> <<"down", "up">>
                 [] Both(kind) /\ theirs[i] /\ ~mine[i]  -> <<"down">>
                 [] Both(kind) /\ ~theirs[i] /\ mine[i]  -> <<"up">>
                 [] OTHER                                -> <<>>]
  BY <1>4 DEF Changes
<1>6. ASSUME NEW i \in 0..l - 1 PROVE ups[i] \in Said
  <2>1. ups[i] = CASE ~Both(kind) /\ theirs[i]             -> <<"down", "up">>
                   [] Both(kind) /\ theirs[i] /\ ~mine[i]  -> <<"down">>
                   [] Both(kind) /\ ~theirs[i] /\ mine[i]  -> <<"up">>
                   [] OTHER                                -> <<>>
    BY <1>5
  <2>2. ups[i] = <<"down", "up">> \/ ups[i] = <<"down">> \/ ups[i] = <<"up">> \/ ups[i] = <<>>
    BY <2>1, Zenon
  <2> QED
    BY <2>2
<1> HIDE DEF Said
<1>7. ups \in [0..l - 1 -> Said]
  BY <1>5, <1>6
<1> HIDE DEF ups
<1>8. \E k \in 0..64 : ups \in [0..k - 1 -> Said]
  BY <1>7, Zenon
<1>9. IsUpdates(ups)
  BY <1>8, Zenon DEF IsUpdates, Said
<1> QED
  BY <1>9 DEF ups

\* A read that has computed nothing has updates of neither kind.
LEMMA NothingType == DOMAIN Nothing = Kind /\ \A kind \in Kind : IsUpdates(Nothing[kind])
<1>1. 0..0 - 1 = {} /\ 0 \in 0..64
  OBVIOUS
<1>2. \A S : [i \in {} |-> <<>>] \in [{} -> S]
  OBVIOUS
<1>3. IsUpdates([i \in {} |-> <<>>])
  BY <1>1, <1>2, Zenon DEF IsUpdates
<1> QED
  BY <1>3 DEF Nothing

\* Types: the comparison with the stored snapshot.
LEMMA UpdateType ==
  ASSUME Formed, NEW t \in Task, Update(t)
  PROVE  Formed'
<1>0. /\ pc \in [Task -> Phase] /\ DOMAIN input = Task /\ \A u \in Task : IsInput(input[u])
      /\ turned \in [Index("encoders") -> Int]
      /\ DOMAIN states = Reader /\ DOMAIN told = Reader /\ DOMAIN downs = Kind
      /\ \A x \in Reader : DOMAIN states[x] = Kind /\ DOMAIN told[x] = Kind
      /\ \A x \in Reader, k \in Kind : /\ IsSnapshot(states[x][k])
                                     /\ told[x][k] \in [Index(k) -> BOOLEAN]
      /\ \A k \in Kind : downs[k] \in [Index(k) -> Nat]
      /\ repeated \in BOOLEAN /\ DOMAIN updates = Task
      /\ \A u \in Task : DOMAIN updates[u] = Kind
      /\ \A u \in Task, k \in Kind : IsUpdates(updates[u][k])
  BY DEF Formed, TypeOK, Phase
<1>a. Uses[t] \in Reader /\ IsInput(input[t]) /\ IsInput(NoData)
  BY <1>0, UsesAReader, DecodeType
<1>b. /\ UNCHANGED <<device, readLock, timed, bounds, listener>>
      /\ pc' = [pc EXCEPT ![t] = "returning"] /\ input' = [input EXCEPT ![t] = NoData]
  BY DEF Update, UpdateStates, UpdateTwist
<1>c. /\ UNCHANGED <<queue, held, events, presses, turns, readLock, timed, faults, drops, heard, echoed>>
      /\ pc' \in [Task -> Phase]
      /\ DOMAIN input' = Task /\ \A u \in Task : IsInput(input'[u])
  BY <1>0, <1>a, <1>b DEF device, bounds, listener, Phase
<1>1. CASE UpdateTwist(t)
  <2>1. turned' \in [Index("encoders") -> Int]
    <3>1. CASE input[t].kind = "twist"
      <4>1. input[t].index \in Index("encoders") /\ input[t].change \in Int
        BY <1>a, <3>1 DEF IsInput, NoData, Kind
      <4> QED
        BY <1>0, <1>1, <3>1, <4>1 DEF UpdateTwist
    <3>2. CASE input[t].kind # "twist"
      BY <1>0, <1>1, <3>2 DEF UpdateTwist
    <3> QED
      BY <3>1, <3>2
  <2>2. UNCHANGED <<updates, states, downs, told, repeated>>
    BY <1>1 DEF UpdateTwist
  <2> QED
    BY <1>c, <2>1, <2>2 DEF Formed, TypeOK, Phase
<1>2. CASE UpdateStates(t)
  <2> DEFINE r == Uses[t]  K == input[t].kind
             ups == Changes(K, input[t].states, states[r][K])
             count == [i \in Index(K) |->
                         IF i \in DOMAIN ups /\ ups[i] # <<>> /\ ups[i][1] = "down"
                         THEN downs[K][i] + 1 ELSE downs[K][i]]
  <2>1. K \in Kind /\ IsSnapshot(input[t].states)
    BY <1>a, <1>2 DEF UpdateStates, IsInput, NoData, Kind
  <2>2. /\ states' = [states EXCEPT ![r][K] = input[t].states]
        /\ Tell(t, K, ups) /\ turned' = turned
    BY <1>2 DEF UpdateStates
  <2>3. told[r][K] \in [Index(K) -> BOOLEAN] /\ downs[K] \in [Index(K) -> Nat]
    BY <1>0, <1>a, <2>1
  <2>b. IsUpdates(ups)
    BY <1>0, <1>a, <2>1, ChangesType
  <2> HIDE DEF ups, K, r
  <2>4. /\ told' = [told EXCEPT ![r][K] = Hear(told[r][K], ups)]
        /\ updates' = [updates EXCEPT ![t][K] = ups]
        /\ repeated' = (repeated \/ Echoes(told[r][K], ups))
        /\ downs' = [downs EXCEPT ![K] =
                       [i \in DOMAIN @ |->
                          IF i \in DOMAIN ups /\ ups[i] # <<>> /\ ups[i][1] = "down"
                          THEN @[i] + 1 ELSE @[i]]]
    BY <2>2 DEF Tell, r
  <2>5. downs' = [downs EXCEPT ![K] = count]
    BY <1>0, <2>1, <2>3, <2>4
  <2>6. Hear(told[r][K], ups) \in [Index(K) -> BOOLEAN]
    BY <2>3, HearType
  <2>7. count \in [Index(K) -> Nat]
    BY <2>3
  <2>8. repeated' \in BOOLEAN
    BY <2>4
  <2> HIDE DEF count
  <2>9. /\ DOMAIN states' = Reader /\ DOMAIN told' = Reader /\ DOMAIN downs' = Kind
        /\ \A x \in Reader : DOMAIN states'[x] = Kind /\ DOMAIN told'[x] = Kind
        /\ DOMAIN updates' = Task /\ \A u \in Task : DOMAIN updates'[u] = Kind
    BY <1>0, <1>a, <2>1, <2>2, <2>4, <2>5 DEF r
  <2>10. \A x \in Reader, k \in Kind : IsSnapshot(states'[x][k])
    BY <1>0, <1>a, <2>1, <2>2 DEF r
  <2>11. \A x \in Reader, k \in Kind : told'[x][k] \in [Index(k) -> BOOLEAN]
    BY <1>0, <1>a, <2>1, <2>4, <2>6 DEF r
  <2>12. \A k \in Kind : downs'[k] \in [Index(k) -> Nat]
    BY <1>0, <2>1, <2>5, <2>7
  <2>13. \A u \in Task, k \in Kind : IsUpdates(updates'[u][k])
    BY <1>0, <2>1, <2>4, <2>b
  <2>14. turned' = turned
    BY <2>2
  <2> QED
    BY <1>c, <2>8, <2>9, <2>10, <2>11, <2>12, <2>13, <2>14 DEF Formed, TypeOK, Phase
<1> QED
  BY <1>1, <1>2 DEF Update

\* Types: the return of the updates.
LEMMA ReturnType ==
  ASSUME Formed, NEW t \in Task, Return(t)
  PROVE  Formed'
<1> DEFINE r == Uses[t]
<1>0. /\ pc \in [Task -> Phase] /\ DOMAIN heard = Reader
      /\ \A x \in Reader : DOMAIN heard[x] = Kind
      /\ \A x \in Reader, k \in Kind : heard[x][k] \in [Index(k) -> BOOLEAN]
      /\ echoed \subseteq Reader /\ DOMAIN updates = Task
      /\ \A u \in Task : DOMAIN updates[u] = Kind
      /\ \A u \in Task, k \in Kind : IsUpdates(updates[u][k])
  BY DEF Formed, TypeOK, Phase
<1>1. r \in Reader
  BY UsesAReader
<1> HIDE DEF r
<1>2. /\ heard' = [heard EXCEPT ![r] = [kind \in Kind |-> Hear(heard[r][kind], updates[t][kind])]]
      /\ updates' = [updates EXCEPT ![t] = Nothing]
      /\ pc' = [pc EXCEPT ![t] = "idle"]
      /\ echoed' \in {echoed, echoed \cup {r}}
      /\ UNCHANGED <<queue, held, events, presses, turns, readLock, timed, input, states, faults, drops>>
      /\ UNCHANGED <<downs, turned, told, repeated>>
  BY <1>0, <1>1 DEF Return, device, bounds, computed, r
<1>3. pc' \in [Task -> Phase] /\ echoed' \subseteq Reader
  BY <1>0, <1>1, <1>2 DEF Phase
<1>4. /\ DOMAIN updates' = Task /\ \A u \in Task : DOMAIN updates'[u] = Kind
      /\ \A u \in Task, k \in Kind : IsUpdates(updates'[u][k])
  BY <1>0, <1>2, NothingType
<1>5. \A k \in Kind : Hear(heard[r][k], updates[t][k]) \in [Index(k) -> BOOLEAN]
  BY <1>0, <1>1, HearType
<1>6. /\ DOMAIN heard' = Reader /\ \A x \in Reader : DOMAIN heard'[x] = Kind
      /\ \A x \in Reader, k \in Kind : heard'[x][k] \in [Index(k) -> BOOLEAN]
  BY <1>0, <1>1, <1>2, <1>5
<1> QED
  BY <1>2, <1>3, <1>4, <1>6 DEF Formed, TypeOK, Phase

\* Types: the beginning.
LEMMA InitType == Init => Formed
<1> SUFFICES ASSUME Init PROVE Formed
  OBVIOUS
<1>1. \A kind \in Kind : IsSnapshot(AllUp(kind))
  <2>1. KeyCount \in 0..64 /\ EncoderCount \in 0..32
    BY Counts
  <2>2. \A kind \in Kind : Count(kind) \in 0..64
    BY <2>1 DEF Count
  <2> QED
    BY <2>2 DEF IsSnapshot, AllUp, Index
<1>2. \A kind \in Kind : Zero(kind) \in [Index(kind) -> Nat] /\ AllUp(kind) \in [Index(kind) -> BOOLEAN]
  BY DEF Zero, AllUp
<1>3. Zero("encoders") \in [Index("encoders") -> Int]
  BY DEF Zero
<1>4. 0 \in 0..MaxEvents /\ 0 \in 0..MaxFaults /\ 0 \in 0..MaxDrops
  BY Bounds
<1>5. /\ DOMAIN states = Reader /\ DOMAIN told = Reader
      /\ \A r \in Reader : DOMAIN states[r] = Kind /\ DOMAIN told[r] = Kind
      /\ \A r \in Reader, kind \in Kind : states[r][kind] = AllUp(kind) /\ told[r][kind] = AllUp(kind)
  BY DEF Init, InitialStates
<1>6. /\ DOMAIN presses = Kind /\ DOMAIN downs = Kind
      /\ \A kind \in Kind : presses[kind] = Zero(kind) /\ downs[kind] = Zero(kind)
  BY DEF Init
<1>7. /\ held \in [Kind -> SUBSET Nat] /\ \A kind \in Kind : held[kind] \subseteq Index(kind)
      /\ DOMAIN held = Kind
  BY DEF Init
<1>8. /\ queue \in Seq(Report) /\ readLock \in Task \cup {Free}
      /\ pc \in [Task -> {"idle", "waiting", "reading", "decoded", "returning"}] /\ timed \in [Task -> BOOLEAN]
      /\ DOMAIN input = Task /\ \A t \in Task : IsInput(input[t])
      /\ repeated \in BOOLEAN
  <2>1. IsInput(NoData)
    BY DecodeType
  <2>2. DOMAIN input = Task /\ \A t \in Task : input[t] = NoData
    BY DEF Init
  <2>3. \A t \in Task : IsInput(input[t])
    BY <2>1, <2>2
  <2>4. /\ queue \in Seq(Report) /\ readLock \in Task \cup {Free}
        /\ pc \in [Task -> {"idle", "waiting", "reading", "decoded", "returning"}] /\ timed \in [Task -> BOOLEAN]
        /\ repeated \in BOOLEAN
    <3>1. /\ queue = <<>> /\ readLock = Free /\ repeated = FALSE
          /\ pc = [t \in Task |-> "idle"] /\ timed = [t \in Task |-> FALSE]
      BY DEF Init
    <3>2. queue \in Seq(Report)
      BY <3>1
    <3>3. pc \in [Task -> {"idle", "waiting", "reading", "decoded", "returning"}]
      BY <3>1
    <3>4. timed \in [Task -> BOOLEAN] /\ repeated \in BOOLEAN /\ readLock \in Task \cup {Free}
      BY <3>1
    <3> QED
      BY <3>2, <3>3, <3>4
  <2> QED
    BY <2>2, <2>3, <2>4
<1>9. events = 0 /\ faults = 0 /\ drops = 0 /\ turns = Zero("encoders") /\ turned = Zero("encoders")
  BY DEF Init
<1>a. /\ DOMAIN updates = Task
      /\ \A t \in Task : DOMAIN updates[t] = Kind /\ \A kind \in Kind : IsUpdates(updates[t][kind])
  BY NothingType DEF Init
<1>b. /\ DOMAIN heard = Reader /\ \A r \in Reader : DOMAIN heard[r] = Kind
      /\ \A r \in Reader, kind \in Kind : heard[r][kind] = AllUp(kind)
      /\ echoed \subseteq Reader
  BY DEF Init, InitialStates
<1>c. /\ \A r \in Reader, kind \in Kind : /\ IsSnapshot(states[r][kind])
                                        /\ told[r][kind] \in [Index(kind) -> BOOLEAN]
                                        /\ heard[r][kind] \in [Index(kind) -> BOOLEAN]
      /\ \A kind \in Kind : /\ presses[kind] \in [Index(kind) -> Nat]
                          /\ downs[kind] \in [Index(kind) -> Nat]
  BY <1>1, <1>2, <1>5, <1>6, <1>b
<1>d. /\ events \in 0..MaxEvents /\ faults \in 0..MaxFaults /\ drops \in 0..MaxDrops
      /\ turns \in [Index("encoders") -> Int] /\ turned \in [Index("encoders") -> Int]
  BY <1>3, <1>4, <1>9
<1>10. TypeOK
  BY <1>7, <1>8, <1>a, <1>b, <1>c, <1>d DEF TypeOK
<1> QED
  BY <1>5, <1>6, <1>7, <1>a, <1>b, <1>10 DEF Formed

\* States of this form lead to states of this form only.
LEMMA AlwaysFormed == Spec => []Formed
<1>1. Formed /\ [Next]_vars => Formed'
  <2> SUFFICES ASSUME Formed, [Next]_vars PROVE Formed'
    OBVIOUS
  <2>1. CASE UNCHANGED vars
    BY <2>1 DEF vars, device, bounds, history, computed, listener, Formed, TypeOK
  <2>2. CASE Next
    BY <2>2, DeviceType, ReadType, UpdateType, ReturnType DEF Next
  <2> QED
    BY <2>1, <2>2
<1> QED
  BY InitType, <1>1, PTL DEF Spec

\* The invariant of types holds whatever bytes the device sends and whatever
\* the decoder makes of them (src/state.rs:80-125).
THEOREM TypeCorrect == Spec => []TypeOK
<1>1. Formed => TypeOK
  BY DEF Formed
<1> QED
  BY AlwaysFormed, <1>1, PTL


-----------------------------------------------------------------------------
(* Presses and turns, counted: what is told, and what is still to be told. *)

\* The reports not read yet, and the tasks that hold one not compared yet, that
\* decode to x.
Coming(x)  == {n \in DOMAIN queue : Decode(queue[n]) = x}
Taken(x)   == {t \in Task : pc[t] = "decoded" /\ input[t] = x}
Pending(x) == Cardinality(Coming(x)) + Cardinality(Taken(x))

Holders == {t \in Task : pc[t] = "decoded"}

\* What can be decoded at all.
Meant(in) ==
  \/ in = NoData
  \/ \E kind \in Kind : in = Released(kind) \/ \E i \in Index(kind) : in = Pressed(kind, i)
  \/ \E i \in Index("encoders"), d \in {-1, 1} : in = Twisted(i, d)

Honest ==
  /\ \A n \in DOMAIN queue : Meant(Decode(queue[n])) \/ Decode(queue[n]) = BadData
  /\ \A t \in Holders : Meant(input[t])
  /\ IsFiniteSet(Holders)

Booked ==
  /\ \A kind \in Kind : \A i \in Index(kind) :
       /\ downs[kind][i] + Pending(Pressed(kind, i)) <= presses[kind][i]
       /\ ~Both(kind) /\ drops = 0 =>
            downs[kind][i] + Pending(Pressed(kind, i)) = presses[kind][i]
  /\ \A i \in Index("encoders") :
       drops = 0 => turned[i] + Pending(Twisted(i, 1)) - Pending(Twisted(i, -1)) = turns[i]

\* What the inputs are, and which of them differ.
LEMMA InputFields ==
  /\ NoData.kind = "none" /\ BadData.kind = "error"
  /\ \A kind, s : Changed(kind, s).kind = kind /\ Changed(kind, s).states = s
  /\ \A i, d : Twisted(i, d).kind = "twist" /\ Twisted(i, d).index = i /\ Twisted(i, d).change = d
  /\ Kind = {"buttons", "encoders"}
BY DEF NoData, BadData, Changed, Twisted, Kind

\* A faithful decoder's snapshots tell the controls apart.
LEMMA SnapshotsDiffer ==
  ASSUME NEW kind \in Kind, NEW i \in Index(kind)
  PROVE  /\ Pressed(kind, i).kind = kind /\ Released(kind).kind = kind
         /\ \A j \in Index(kind) : /\ Pressed(kind, i).states[j] <=> j = i
                                   /\ ~Released(kind).states[j]
         /\ \A j \in Index(kind) : Pressed(kind, j) = Pressed(kind, i) => j = i
         /\ Released(kind) # Pressed(kind, i)
<1>1. /\ Pressed(kind, i).kind = kind /\ Released(kind).kind = kind
      /\ \A j \in Index(kind) : Pressed(kind, j).states = [l \in Index(kind) |-> l = j]
      /\ Released(kind).states = [l \in Index(kind) |-> FALSE]
  BY InputFields DEF Pressed, Released, AllUp
<1>2. \A j \in Index(kind) : \A l \in Index(kind) : Pressed(kind, j).states[l] <=> l = j
  BY <1>1
<1>3. \A j \in Index(kind) : ~Released(kind).states[j]
  BY <1>1
<1> QED
  BY <1>1, <1>2, <1>3

\* The numbers are numbers.
LEMMA PendingType ==
  ASSUME queue \in Seq(Report), IsFiniteSet(Holders), NEW x
  PROVE  /\ IsFiniteSet(Coming(x)) /\ IsFiniteSet(Taken(x))
         /\ Cardinality(Coming(x)) \in Nat /\ Cardinality(Taken(x)) \in Nat
<1>1. Coming(x) \in SUBSET (1..Len(queue)) /\ Len(queue) \in Int
  BY DEF Coming
<1>2. IsFiniteSet(1..Len(queue))
  BY <1>1, FS_Interval
<1>3. IsFiniteSet(Coming(x))
  BY <1>1, <1>2, FS_Subset
<1>4. Taken(x) \in SUBSET Holders
  BY DEF Taken, Holders
<1>5. IsFiniteSet(Taken(x))
  BY <1>4, FS_Subset
<1> QED
  BY <1>3, <1>5, FS_CardinalityType

\* One more report.
LEMMA SentPending ==
  ASSUME queue \in Seq(Report), IsFiniteSet(Holders), NEW r, queue' = Append(queue, r),
         UNCHANGED <<pc, input>>, NEW x
  PROVE  /\ Decode(r) = x => Pending(x)' = Pending(x) + 1
         /\ Decode(r) # x => Pending(x)' = Pending(x)
<1> DEFINE new == Len(queue) + 1
<1>1. /\ DOMAIN queue = 1..Len(queue) /\ Len(queue) \in Nat /\ DOMAIN queue' = 1..new
      /\ queue'[new] = r /\ \A n \in 1..Len(queue) : queue'[n] = queue[n]
      /\ new \notin DOMAIN queue
  OBVIOUS
<1>2. Taken(x)' = Taken(x)
  BY DEF Taken
<1>3. Decode(r) = x => Coming(x)' = Coming(x) \cup {new}
  BY <1>1 DEF Coming
<1>4. Decode(r) # x => Coming(x)' = Coming(x)
  BY <1>1 DEF Coming
<1>5. new \notin Coming(x)
  BY <1>1 DEF Coming
<1> HIDE DEF new
<1>6. Cardinality(Coming(x) \cup {new}) = Cardinality(Coming(x)) + 1
  BY <1>5, PendingType, FS_AddElement
<1>7. Cardinality(Coming(x)) \in Nat /\ Cardinality(Taken(x)) \in Nat
  BY PendingType
<1>8. CASE Decode(r) = x
  <2>1. Cardinality(Coming(x)') = Cardinality(Coming(x)) + 1
    BY <1>3, <1>6, <1>8
  <2> QED
    BY <1>2, <1>7, <1>8, <2>1 DEF Pending
<1>9. CASE Decode(r) # x
  BY <1>2, <1>4, <1>9 DEF Pending
<1> QED
  BY <1>8, <1>9

\* Positions all moved by one are as many as before.
LEMMA ShiftedPositions ==
  ASSUME NEW S \in SUBSET Nat, IsFiniteSet(S)
  PROVE  Cardinality({n - 1 : n \in S}) = Cardinality(S)
<1> DEFINE T == {n - 1 : n \in S}
           f == [n \in S |-> n - 1]
<1>1. f \in Bijection(S, T)
  <2>1. f \in Surjection(S, T)
    BY DEF Surjection
  <2>2. f \in Injection(S, T)
    BY DEF Injection, IsInjective
  <2> QED
    BY <2>1, <2>2 DEF Bijection
<1>2. IsFiniteSet(T) /\ Cardinality(S) = Cardinality(T)
  BY <1>1, FS_Bijection DEF ExistsBijection
<1> QED
  BY <1>2

\* A report that is read moves from the queue to the task.
LEMMA ReadPending ==
  ASSUME queue \in Seq(Report), IsFiniteSet(Holders), DOMAIN input = Task, DOMAIN pc = Task,
         NEW t \in Task, ReadReport(t), NEW x, x # BadData
  PROVE  Pending(x)' = Pending(x)
<1> DEFINE rest == Coming(x) \ {1}
<1>1. /\ queue # <<>> /\ queue' = Tail(queue) /\ Head(queue) = queue[1] /\ 1 \in DOMAIN queue
      /\ DOMAIN queue = 1..Len(queue) /\ Len(queue) \in Nat
      /\ DOMAIN queue' = 1..(Len(queue) - 1)
      /\ \A n \in 1..(Len(queue) - 1) : queue'[n] = queue[n + 1]
  BY DEF ReadReport
<1>2. Coming(x)' = {n - 1 : n \in rest}
  <2>1. ASSUME NEW j \in Coming(x)' PROVE j \in {n - 1 : n \in rest}
    <3>1. j \in 1..(Len(queue) - 1) /\ Decode(queue[j + 1]) = x
      BY <1>1, <2>1 DEF Coming
    <3>2. j + 1 \in rest /\ (j + 1) - 1 = j
      BY <1>1, <3>1 DEF Coming
    <3> QED
      BY <3>2
  <2>2. ASSUME NEW n \in rest PROVE n - 1 \in Coming(x)'
    <3>1. n \in 2..Len(queue) /\ Decode(queue[n]) = x
      BY <1>1 DEF Coming
    <3>2. n - 1 \in 1..(Len(queue) - 1) /\ queue'[n - 1] = queue[n]
      BY <1>1, <3>1
    <3> QED
      BY <1>1, <3>1, <3>2 DEF Coming
  <2> QED
    BY <2>1, <2>2
<1>3. rest \in SUBSET Nat /\ IsFiniteSet(rest)
  <2>1. Coming(x) \in SUBSET Nat
    BY <1>1 DEF Coming
  <2> QED
    BY <2>1, PendingType, FS_RemoveElement
<1>4. Cardinality(Coming(x)') = Cardinality(rest)
  BY <1>2, <1>3, ShiftedPositions
<1>5. 1 \in Coming(x) <=> Decode(Head(queue)) = x
  BY <1>1 DEF Coming
<1>6. t \notin Taken(x)
  BY DEF ReadReport, Taken
<1>7. CASE Decode(Head(queue)) = x
  <2>1. Taken(x)' = Taken(x) \cup {t}
    BY <1>7 DEF ReadReport, Taken
  <2>2. Cardinality(Taken(x) \cup {t}) = Cardinality(Taken(x)) + 1
    BY <1>6, PendingType, FS_AddElement
  <2>3. Cardinality(rest) = Cardinality(Coming(x)) - 1
    BY <1>5, <1>7, PendingType, FS_RemoveElement
  <2> QED
    BY <1>4, <2>1, <2>2, <2>3, PendingType DEF Pending
<1>8. CASE Decode(Head(queue)) # x
  <2>1. Taken(x)' = Taken(x)
    BY <1>8 DEF ReadReport, Taken
  <2>3. rest = Coming(x)
    BY <1>5, <1>8
  <2> QED
    BY <1>4, <2>1, <2>3 DEF Pending
<1> QED
  BY <1>7, <1>8

\* A task that ends its read is done with what it held.
LEMMA LeavePending ==
  ASSUME queue \in Seq(Report), IsFiniteSet(Holders), NEW t \in Task, queue' = queue,
         pc'[t] # "decoded",
         \A u \in Task \ {t} : pc'[u] = pc[u] /\ (pc[u] = "decoded" => input'[u] = input[u]), NEW x
  PROVE  /\ pc[t] = "decoded" /\ input[t] = x => Pending(x)' = Pending(x) - 1
         /\ ~(pc[t] = "decoded" /\ input[t] = x) => Pending(x)' = Pending(x)
<1>1. Coming(x)' = Coming(x)
  BY DEF Coming
<1>2. Taken(x)' = Taken(x) \ {t}
  BY DEF Taken
<1>3. t \in Taken(x) <=> pc[t] = "decoded" /\ input[t] = x
  BY DEF Taken
<1>4. /\ t \in Taken(x) => Cardinality(Taken(x) \ {t}) = Cardinality(Taken(x)) - 1
      /\ t \notin Taken(x) => Cardinality(Taken(x) \ {t}) = Cardinality(Taken(x))
  BY PendingType, FS_RemoveElement
<1> QED
  BY <1>1, <1>2, <1>3, <1>4, PendingType DEF Pending

\* Nothing happens to what is pending.
LEMMA SamePending ==
  ASSUME queue' = queue, input' = input, DOMAIN pc = Task,
         \A t \in Task : (pc'[t] = "decoded") <=> (pc[t] = "decoded"), NEW x
  PROVE  Pending(x)' = Pending(x)
<1>1. Coming(x)' = Coming(x) /\ Taken(x)' = Taken(x)
  BY DEF Coming, Taken
<1> QED
  BY <1>1 DEF Pending


\* What the reports of the device decode to.
Sent(key, state) == [ack |-> ProtocolVersion > 0, key |-> key, state |-> state]

\* A report that the device sent reaches process_input (src/state.rs:100-114).
LEMMA DecodeMarked ==
  ASSUME NEW key, NEW state
  PROVE  Decode(Sent(key, state)) = ProcessInput(key, IF BothKeypressStates THEN state ELSE 1)
<1> DEFINE r == Sent(key, state)
           marked == ProtocolVersion > 0
<1>1. marked \in BOOLEAN
  OBVIOUS
<1>2. r.key = key /\ r.state = state /\ (r.ack <=> marked)
  BY DEF Sent
<1>3. ~(~r.ack /\ marked)
  BY <1>1, <1>2
<1> HIDE DEF r
<1>4. Decode(r) = ProcessInput(key, IF BothKeypressStates THEN state ELSE 1)
  BY <1>2, <1>3, Zenon DEF Decode
<1> QED
  BY <1>4 DEF r

\* A faithful decoder reads a press as a snapshot with that control down.
LEMMA DecodePress ==
  ASSUME FaithfulDecoder, NEW kind \in Kind, NEW i \in Index(kind)
  PROVE  Decode(Sent(Byte(kind, i), 1)) = Pressed(kind, i)
<1>1. Decode(Sent(Byte(kind, i), 1)) = ProcessInput(Byte(kind, i), 1)
  BY DecodeMarked
<1> QED
  BY <1>1 DEF FaithfulDecoder

\* It reads a release as a snapshot with nothing down.
LEMMA DecodeRelease ==
  ASSUME FaithfulDecoder, ReportsReleases, NEW kind \in Kind, NEW i \in Index(kind)
  PROVE  Decode(Sent(Byte(kind, i), 0)) = Released(kind)
<1>1. BothKeypressStates /\ ProcessInput(Byte(kind, i), 0) = Released(kind)
  BY DEF FaithfulDecoder
<1> QED
  BY <1>1, DecodeMarked

\* It reads a turn as that turn, whatever the state byte became.
LEMMA DecodeTurn ==
  ASSUME FaithfulDecoder, NEW i \in Index("encoders"), NEW d \in {-1, 1}
  PROVE  Decode(Sent(TurnByte(i, d), 0)) = Twisted(i, d)
<1>1. Decode(Sent(TurnByte(i, d), 0)) = ProcessInput(TurnByte(i, d), IF BothKeypressStates THEN 0 ELSE 1)
  BY DecodeMarked
<1>2. (IF BothKeypressStates THEN 0 ELSE 1) \in {0, 1}
  OBVIOUS
<1> QED
  BY <1>1, <1>2 DEF FaithfulDecoder

\* A report of no control is no input, or says that nothing is down.
LEMMA DecodeNoise ==
  ASSUME FaithfulDecoder
  PROVE  /\ Decode(Sent(255, 1)) \in NotAnInput \cup {Released(kind) : kind \in Kind}
         /\ IgnoresUnknown => Decode(Sent(255, 1)) \in NotAnInput
<1>1. Decode(Sent(255, 1)) = ProcessInput(255, 1)
  BY DecodeMarked
<1> QED
  BY <1>1 DEF FaithfulDecoder, IgnoresUnknown

\* A new report that decodes to what can be decoded.
LEMMA HonestSent ==
  ASSUME Honest, queue \in Seq(Report), NEW r, queue' = Append(queue, r), UNCHANGED <<pc, input>>,
         Meant(Decode(r)) \/ Decode(r) = BadData
  PROVE  Honest'
<1>1. /\ DOMAIN queue' = DOMAIN queue \cup {Len(queue) + 1}
      /\ queue'[Len(queue) + 1] = r /\ \A n \in DOMAIN queue : queue'[n] = queue[n]
  OBVIOUS
<1>2. Holders' = Holders
  BY DEF Holders
<1> QED
  BY <1>1, <1>2 DEF Honest

\* A press or a turn adds one to what was done and one to what is pending.
LEMMA DeviceBooked ==
  ASSUME FaithfulDecoder, Formed, Honest, Booked, Device
  PROVE  Honest' /\ Booked'
<1>0. /\ queue \in Seq(Report) /\ IsFiniteSet(Holders)
      /\ \A kind \in Kind : presses[kind] \in [Index(kind) -> Nat] /\ downs[kind] \in [Index(kind) -> Nat]
      /\ turns \in [Index("encoders") -> Int] /\ turned \in [Index("encoders") -> Int]
      /\ DOMAIN presses = Kind
      /\ \A x : Pending(x) \in Nat
  BY PendingType DEF Formed, TypeOK, Honest, Pending
\* A report that counts for nothing.
<1>1. ASSUME NEW r, queue' = Append(queue, r), UNCHANGED <<pc, input, drops, presses, turns, downs, turned>>,
             Decode(r) \in {NoData, BadData} \cup {Released(kind) : kind \in Kind}
      PROVE  Honest' /\ Booked'
  <2>1. Meant(Decode(r)) \/ Decode(r) = BadData
    BY <1>1 DEF Meant
  <2>2. Honest'
    BY <1>0, <1>1, <2>1, HonestSent
  <2>3. /\ \A kind \in Kind : \A i \in Index(kind) : Decode(r) # Pressed(kind, i)
        /\ \A i, d : Decode(r) # Twisted(i, d)
    <3>1. Decode(r).kind \in {"none", "error", "buttons", "encoders"}
      BY <1>1, InputFields DEF Released
    <3>2. \A i, d : Decode(r) # Twisted(i, d)
      BY <3>1, InputFields
    <3>3. ASSUME NEW kind \in Kind, NEW i \in Index(kind) PROVE Decode(r) # Pressed(kind, i)
      <4>1. CASE Decode(r) \in {NoData, BadData}
        BY <4>1, InputFields, SnapshotsDiffer
      <4>2. ASSUME NEW k \in Kind, Decode(r) = Released(k)
            PROVE  Decode(r) # Pressed(kind, i)
        <5>1. Released(k).kind = k
          BY InputFields DEF Released
        <5> QED
          BY <4>2, <5>1, SnapshotsDiffer
      <4> QED
        BY <1>1, <4>1, <4>2
    <3> QED
      BY <3>2, <3>3
  <2>4. /\ \A kind \in Kind : \A i \in Index(kind) : Pending(Pressed(kind, i))' = Pending(Pressed(kind, i))
        /\ \A i \in Index("encoders"), d \in {-1, 1} : Pending(Twisted(i, d))' = Pending(Twisted(i, d))
    BY <1>0, <1>1, <2>3, SentPending
  <2>5. Booked'
    BY <1>1, <2>4 DEF Booked, Both
  <2> QED
    BY <2>2, <2>5
<1>2. ASSUME NEW kind \in Kind, NEW i \in Index(kind), Press(kind, i)
      PROVE  Honest' /\ Booked'
  <2> DEFINE r == Sent(Byte(kind, i), 1)
  <2>1. /\ queue' = Append(queue, r) /\ presses' = [presses EXCEPT ![kind][i] = @ + 1]
        /\ UNCHANGED <<pc, input, drops, turns, downs, turned>>
    BY <1>2 DEF Press, Send, Sent, bounds, history, computed, listener
  <2>2. Decode(r) = Pressed(kind, i)
    BY DecodePress
  <2> HIDE DEF r
  <2>3. Honest'
    <3>1. Meant(Decode(r))
      BY <2>2 DEF Meant
    <3> QED
      BY <1>0, <2>1, <3>1, HonestSent
  <2>4. ASSUME NEW k \in Kind, NEW j \in Index(k)
        PROVE  /\ k = kind /\ j = i => Pending(Pressed(k, j))' = Pending(Pressed(k, j)) + 1
               /\ ~(k = kind /\ j = i) => Pending(Pressed(k, j))' = Pending(Pressed(k, j))
    <3>1. ~(k = kind /\ j = i) => Pressed(k, j) # Pressed(kind, i)
      BY SnapshotsDiffer
    <3> QED
      BY <1>0, <2>1, <2>2, <3>1, SentPending
  <2>5. ASSUME NEW k \in Kind, NEW j \in Index(k)
        PROVE  /\ k = kind /\ j = i => presses'[k][j] = presses[k][j] + 1
               /\ ~(k = kind /\ j = i) => presses'[k][j] = presses[k][j]
    BY <1>0, <2>1
  <2>6. \A j \in Index("encoders"), d \in {-1, 1} : Pending(Twisted(j, d))' = Pending(Twisted(j, d))
    <3>1. \A j, d : Twisted(j, d) # Pressed(kind, i)
      BY InputFields, SnapshotsDiffer
    <3> QED
      BY <1>0, <2>1, <2>2, <3>1, SentPending
  <2>7. ASSUME NEW k \in Kind, NEW j \in Index(k)
        PROVE  /\ downs'[k][j] + Pending(Pressed(k, j))' <= presses'[k][j]
               /\ ~Both(k) /\ drops' = 0 =>
                    downs'[k][j] + Pending(Pressed(k, j))' = presses'[k][j]
    <3>1. /\ downs[k][j] + Pending(Pressed(k, j)) <= presses[k][j]
          /\ ~Both(k) /\ drops = 0 => downs[k][j] + Pending(Pressed(k, j)) = presses[k][j]
          /\ downs[k][j] \in Nat /\ presses[k][j] \in Nat /\ Pending(Pressed(k, j)) \in Nat
      BY <1>0 DEF Booked
    <3>2. CASE k = kind /\ j = i
      BY <2>1, <2>4, <2>5, <3>1, <3>2
    <3>3. CASE ~(k = kind /\ j = i)
      BY <2>1, <2>4, <2>5, <3>1, <3>3
    <3> QED
      BY <3>2, <3>3
  <2>8. Booked'
    BY <2>1, <2>6, <2>7 DEF Booked, Both
  <2> QED
    BY <2>3, <2>8
<1>3. ASSUME NEW kind \in Kind, NEW i \in Index(kind), Release(kind, i)
      PROVE  Honest' /\ Booked'
  <2>1. UNCHANGED <<pc, input, drops, presses, turns, downs, turned>>
    BY <1>3 DEF Release, bounds, history, computed, listener
  <2>2. CASE ReportsReleases
    <3> DEFINE r == Sent(Byte(kind, i), 0)
    <3>1. queue' = Append(queue, r)
      BY <1>3, <2>2 DEF Release, Send, Sent
    <3>2. Decode(r) = Released(kind)
      BY <2>2, DecodeRelease
    <3> HIDE DEF r
    <3> QED
      BY <1>1, <2>1, <3>1, <3>2
  <2>3. CASE ~ReportsReleases
    <3>1. queue' = queue
      BY <1>3, <2>3 DEF Release
    <3>2. \A x : Coming(x)' = Coming(x) /\ Taken(x)' = Taken(x)
      BY <2>1, <3>1 DEF Coming, Taken
    <3>3. /\ \A kk \in Kind : \A j \in Index(kk) : Pending(Pressed(kk, j))' = Pending(Pressed(kk, j))
          /\ \A j \in Index("encoders"), d \in {-1, 1} : Pending(Twisted(j, d))' = Pending(Twisted(j, d))
      BY <3>2 DEF Pending
    <3>4. Holders' = Holders
      BY <2>1 DEF Holders
    <3> QED
      BY <2>1, <3>1, <3>3, <3>4 DEF Honest, Booked, Both
  <2> QED
    BY <2>2, <2>3
<1>4. ASSUME NEW i \in Index("encoders"), NEW d \in {-1, 1}, Turn(i, d)
      PROVE  Honest' /\ Booked'
  <2> DEFINE r == Sent(TurnByte(i, d), 0)
  <2>1. /\ queue' = Append(queue, r) /\ turns' = [turns EXCEPT ![i] = @ + d]
        /\ UNCHANGED <<pc, input, drops, presses, downs, turned>>
    BY <1>4 DEF Turn, Send, Sent, bounds, history, computed, listener
  <2>2. Decode(r) = Twisted(i, d)
    BY DecodeTurn
  <2> HIDE DEF r
  <2>3. Honest'
    <3>1. Meant(Decode(r))
      BY <2>2 DEF Meant
    <3> QED
      BY <1>0, <2>1, <3>1, HonestSent
  <2>4. \A k \in Kind : \A j \in Index(k) : Pending(Pressed(k, j))' = Pending(Pressed(k, j))
    <3>1. \A k \in Kind : \A j \in Index(k) : Pressed(k, j) # Twisted(i, d)
      BY InputFields, SnapshotsDiffer
    <3> QED
      BY <1>0, <2>1, <2>2, <3>1, SentPending
  <2>5. ASSUME NEW j \in Index("encoders"), NEW e \in {-1, 1}
        PROVE  /\ j = i /\ e = d => Pending(Twisted(j, e))' = Pending(Twisted(j, e)) + 1
               /\ ~(j = i /\ e = d) => Pending(Twisted(j, e))' = Pending(Twisted(j, e))
    <3>1. ~(j = i /\ e = d) => Twisted(j, e) # Twisted(i, d)
      BY InputFields
    <3> QED
      BY <1>0, <2>1, <2>2, <3>1, SentPending
  <2>6. ASSUME NEW j \in Index("encoders"), drops' = 0
        PROVE  turned'[j] + Pending(Twisted(j, 1))' - Pending(Twisted(j, -1))' = turns'[j]
    <3>1. /\ turned[j] + Pending(Twisted(j, 1)) - Pending(Twisted(j, -1)) = turns[j]
          /\ turned[j] \in Int /\ turns[j] \in Int
          /\ Pending(Twisted(j, 1)) \in Nat /\ Pending(Twisted(j, -1)) \in Nat
      BY <1>0, <2>1, <2>6 DEF Booked
    <3>2. /\ j = i => turns'[j] = turns[j] + d
          /\ j # i => turns'[j] = turns[j]
      BY <1>0, <2>1
    <3>3. 1 \in {-1, 1} /\ -1 \in {-1, 1} /\ 1 # -1
      OBVIOUS
    <3>4. CASE j # i
      BY <2>1, <2>5, <3>1, <3>2, <3>3, <3>4
    <3>5. CASE j = i /\ d = 1
      BY <2>1, <2>5, <3>1, <3>2, <3>3, <3>5
    <3>6. CASE j = i /\ d = -1
      BY <2>1, <2>5, <3>1, <3>2, <3>3, <3>6
    <3> QED
      BY <3>4, <3>5, <3>6
  <2>7. Booked'
    BY <2>1, <2>4, <2>6 DEF Booked, Both
  <2> QED
    BY <2>3, <2>7
<1>5. ASSUME Noise
      PROVE  Honest' /\ Booked'
  <2>1. UNCHANGED <<pc, input, drops, presses, turns, downs, turned>>
    BY <1>5 DEF Noise, bounds, history, computed, listener
  <2>2. ASSUME NEW i \in Index("buttons"), ProtocolVersion > 0,
               queue' = Append(queue, [ack |-> FALSE, key |-> Byte("buttons", i), state |-> 1])
        PROVE  Honest' /\ Booked'
    <3> DEFINE r == [ack |-> FALSE, key |-> Byte("buttons", i), state |-> 1]
    <3>1. ~r.ack
      OBVIOUS
    <3> HIDE DEF r
    <3>2. Decode(r) = NoData
      BY <2>2, <3>1 DEF Decode
    <3> QED
      BY <1>1, <2>1, <2>2, <3>2 DEF r
  <2>3. ASSUME queue' = Append(queue, Sent(255, 1))
        PROVE  Honest' /\ Booked'
    <3> DEFINE r == Sent(255, 1)
    <3>1. Decode(r) \in {NoData, BadData} \cup {Released(kind) : kind \in Kind}
      BY DecodeNoise DEF NotAnInput
    <3> HIDE DEF r
    <3> QED
      BY <1>1, <2>1, <2>3, <3>1 DEF r
  <2> QED
    BY <1>5, <2>2, <2>3 DEF Noise, Sent
<1> QED
  BY <1>2, <1>3, <1>4, <1>5 DEF Device


\* The steps of a read that tell nobody anything.
LEMMA ReadBooked ==
  ASSUME Formed, Honest, Booked, NEW t \in Task,
         \/ Begin(t) \/ TakeReader(t) \/ ReadReport(t) \/ TimeOut(t) \/ FailRead(t) \/ Drop(t)
         \/ Return(t)
  PROVE  Honest' /\ Booked'
<1>0. /\ queue \in Seq(Report) /\ IsFiniteSet(Holders) /\ DOMAIN input = Task /\ DOMAIN pc = Task
      /\ pc \in [Task -> {"idle", "waiting", "reading", "decoded", "returning"}]
      /\ \A kind \in Kind : presses[kind] \in [Index(kind) -> Nat] /\ downs[kind] \in [Index(kind) -> Nat]
      /\ drops \in Nat
      /\ \A x : Pending(x) \in Nat
  BY PendingType DEF Formed, TypeOK, Honest, Pending
<1>1. UNCHANGED <<presses, turns, downs, turned>>
  BY DEF Begin, TakeReader, ReadReport, TimeOut, FailRead, Drop, Return, device, history, computed
<1>2. CASE ReadReport(t)
  <2>1. /\ queue # <<>> /\ queue' = Tail(queue) /\ Head(queue) = queue[1] /\ 1 \in DOMAIN queue
        /\ \A n \in DOMAIN queue' : n + 1 \in DOMAIN queue /\ queue'[n] = queue[n + 1]
    BY <1>0, <1>2 DEF ReadReport
  <2>2. \A n \in DOMAIN queue' : Meant(Decode(queue'[n])) \/ Decode(queue'[n]) = BadData
    BY <2>1 DEF Honest
  <2>3. ASSUME Decode(Head(queue)) = BadData PROVE Honest'
    <3>1. Holders' = Holders /\ input' = input
      BY <1>0, <1>2, <2>3 DEF ReadReport, Holders
    <3> QED
      BY <2>2, <3>1 DEF Honest, Holders
  <2>4. ASSUME Decode(Head(queue)) # BadData PROVE Honest'
    <3>1. /\ Holders' = Holders \cup {t} /\ input'[t] = Decode(Head(queue))
          /\ \A u \in Task \ {t} : input'[u] = input[u]
      BY <1>0, <1>2, <2>4 DEF ReadReport, Holders
    <3>2. IsFiniteSet(Holders')
      BY <1>0, <3>1, FS_AddElement
    <3>3. Meant(Decode(Head(queue)))
      BY <2>1, <2>4 DEF Honest
    <3>4. \A u \in Holders' : Meant(input'[u])
      <4> SUFFICES ASSUME NEW u \in Holders' PROVE Meant(input'[u])
        OBVIOUS
      <4>1. CASE u = t
        BY <3>1, <3>3, <4>1
      <4>2. CASE u # t
        <5>1. u \in Holders /\ u \in Task \ {t}
          BY <3>1, <4>2 DEF Holders
        <5> QED
          BY <3>1, <5>1 DEF Honest
      <4> QED
        BY <4>1, <4>2
    <3> QED
      BY <2>2, <3>2, <3>4 DEF Honest
  <2>5. Honest'
    BY <2>3, <2>4
  <2>6. /\ \A kind \in Kind : \A i \in Index(kind) : Pending(Pressed(kind, i))' = Pending(Pressed(kind, i))
        /\ \A i \in Index("encoders"), d \in {-1, 1} : Pending(Twisted(i, d))' = Pending(Twisted(i, d))
    <3>1. /\ \A kind \in Kind : \A i \in Index(kind) : Pressed(kind, i) # BadData
          /\ \A i, d : Twisted(i, d) # BadData
      BY InputFields, SnapshotsDiffer
    <3> QED
      BY <1>0, <1>2, <3>1, ReadPending
  <2>7. drops' = drops
    BY <1>2 DEF ReadReport, bounds
  <2> QED
    BY <1>1, <2>5, <2>6, <2>7 DEF Booked, Both
<1>3. CASE Begin(t) \/ TakeReader(t) \/ TimeOut(t) \/ FailRead(t) \/ Return(t)
  <2>1. /\ queue' = queue /\ input' = input /\ drops' = drops
        /\ \A u \in Task : (pc'[u] = "decoded") <=> (pc[u] = "decoded")
    BY <1>0, <1>3 DEF Begin, TakeReader, TimeOut, FailRead, Return, device, bounds
  <2>2. /\ \A kind \in Kind : \A i \in Index(kind) : Pending(Pressed(kind, i))' = Pending(Pressed(kind, i))
        /\ \A i \in Index("encoders"), d \in {-1, 1} : Pending(Twisted(i, d))' = Pending(Twisted(i, d))
    BY <1>0, <2>1, SamePending
  <2>3. Holders' = Holders
    BY <2>1 DEF Holders
  <2>4. Honest'
    BY <2>1, <2>3 DEF Honest
  <2> QED
    BY <1>1, <2>1, <2>2, <2>4 DEF Booked, Both
<1>4. CASE Drop(t)
  <2>1. /\ queue' = queue /\ drops' = drops + 1 /\ pc'[t] = "idle"
        /\ \A u \in Task \ {t} : pc'[u] = pc[u] /\ input'[u] = input[u]
    BY <1>0, <1>4 DEF Drop, device
  <2>2. Holders' = Holders \ {t}
    BY <2>1 DEF Holders
  <2>3. IsFiniteSet(Holders')
    BY <1>0, <2>2, FS_RemoveElement
  <2>4. \A u \in Holders' : Meant(input'[u])
    BY <2>1, <2>2 DEF Honest, Holders
  <2>5. Honest'
    BY <2>1, <2>3, <2>4 DEF Honest
  <2>6. ASSUME NEW kind \in Kind, NEW i \in Index(kind)
        PROVE  downs'[kind][i] + Pending(Pressed(kind, i))' <= presses'[kind][i]
    <3>1. Pending(Pressed(kind, i))' \in {Pending(Pressed(kind, i)), Pending(Pressed(kind, i)) - 1}
      BY <1>0, <2>1, LeavePending
    <3>2. downs[kind][i] + Pending(Pressed(kind, i)) <= presses[kind][i]
      BY DEF Booked
    <3>3. downs[kind][i] \in Nat /\ presses[kind][i] \in Nat /\ Pending(Pressed(kind, i)) \in Nat
      BY <1>0
    <3> QED
      BY <1>1, <3>1, <3>2, <3>3
  <2>7. drops' # 0
    BY <1>0, <2>1
  <2> QED
    BY <2>5, <2>6, <2>7 DEF Booked
<1> QED
  BY <1>2, <1>3, <1>4

\* What one control's updates are, from snapshots of every control.
LEMMA UpdatesAre ==
  ASSUME Inv, NEW t \in Task, UpdateStates(t), NEW i \in Index(input[t].kind),
         NEW ups, ups = Changes(input[t].kind, input[t].states, states[Uses[t]][input[t].kind])
  PROVE  /\ input[t].kind \in Kind /\ DOMAIN ups = Index(input[t].kind)
         /\ ups[i] # <<>> /\ ups[i][1] = "down" => input[t].states[i]
         /\ ~Both(input[t].kind) /\ input[t].states[i] => ups[i] # <<>> /\ ups[i][1] = "down"
<1> DEFINE K == input[t].kind  theirs == input[t].states  mine == states[Uses[t]][K]
<1>1. K \in Kind /\ Uses[t] \in Reader
  BY UsesAReader DEF UpdateStates
<1>2. theirs \in [Index(K) -> BOOLEAN] /\ mine \in [Index(K) -> BOOLEAN]
  BY <1>1 DEF Inv, Shapes, Shape, Full
<1>3. /\ DOMAIN ups = Index(K)
      /\ ups[i] = CASE ~Both(K) /\ theirs[i] -> <<"down", "up">>
                    [] Both(K) /\ theirs[i] /\ ~mine[i] -> <<"down">>
                    [] Both(K) /\ ~theirs[i] /\ mine[i] -> <<"up">>
                    [] OTHER -> <<>>
  BY <1>2 DEF Changes
<1>4. /\ ~Both(K) /\ theirs[i]  => ups[i] = <<"down", "up">>
      /\ ~Both(K) /\ ~theirs[i] => ups[i] = <<>>
      /\ Both(K) /\ ~theirs[i] /\ mine[i]  => ups[i] = <<"up">>
      /\ Both(K) /\ ~theirs[i] /\ ~mine[i] => ups[i] = <<>>
  BY <1>3, Zenon
<1>5. /\ <<"down", "up">> # <<>> /\ <<"down", "up">>[1] = "down"
      /\ <<"up">>[1] = "up" /\ "up" # "down"
  OBVIOUS
<1>6. theirs[i] \in BOOLEAN /\ mine[i] \in BOOLEAN
  BY <1>2
<1>7. ~theirs[i] => ~(ups[i] # <<>> /\ ups[i][1] = "down")
  BY <1>4, <1>5, <1>6
<1> QED
  BY <1>1, <1>3, <1>4, <1>5, <1>6, <1>7

\* What a task tells is one less that is pending.
LEMMA UpdateBooked ==
  ASSUME Formed, Inv, Honest, Booked, NEW t \in Task, Update(t)
  PROVE  Honest' /\ Booked'
<1>0. /\ queue \in Seq(Report) /\ IsFiniteSet(Holders) /\ DOMAIN input = Task /\ DOMAIN pc = Task
      /\ \A kind \in Kind : presses[kind] \in [Index(kind) -> Nat] /\ downs[kind] \in [Index(kind) -> Nat]
      /\ turns \in [Index("encoders") -> Int] /\ turned \in [Index("encoders") -> Int]
      /\ DOMAIN downs = Kind
      /\ \A x : Pending(x) \in Nat
  BY PendingType DEF Formed, TypeOK, Honest, Pending
<1>1. /\ pc[t] = "decoded" /\ queue' = queue /\ drops' = drops /\ pc'[t] = "returning"
      /\ \A u \in Task \ {t} : pc'[u] = pc[u] /\ input'[u] = input[u]
      /\ UNCHANGED <<presses, turns>>
  BY <1>0 DEF Update, UpdateStates, UpdateTwist, device, bounds
<1>2. Honest'
  <2>1. Holders' = Holders \ {t}
    BY <1>1 DEF Holders
  <2>2. IsFiniteSet(Holders')
    BY <1>0, <2>1, FS_RemoveElement
  <2>3. \A u \in Holders' : Meant(input'[u])
    BY <1>1, <2>1 DEF Honest, Holders
  <2> QED
    BY <1>1, <2>2, <2>3 DEF Honest
<1>3. Meant(input[t])
  BY <1>1 DEF Honest, Holders
<1>4. ASSUME NEW x
      PROVE  /\ input[t] = x => Pending(x)' = Pending(x) - 1
             /\ input[t] # x => Pending(x)' = Pending(x)
  BY <1>0, <1>1, LeavePending
<1>5. CASE UpdateStates(t)
  <2> DEFINE K == input[t].kind
             ups == Changes(K, input[t].states, states[Uses[t]][K])
             hit(i) == ups[i] # <<>> /\ ups[i][1] = "down"
  <2>1. K \in Kind /\ turned' = turned /\ Tell(t, K, ups)
    BY <1>5 DEF UpdateStates
  <2>2. \A i \in Index(K) : /\ hit(i) => input[t].states[i]
                            /\ ~Both(K) /\ input[t].states[i] => hit(i)
    BY <1>5, UpdatesAre
  <2>3. \A i \in Index(K) : i \in DOMAIN ups
    BY <1>5, UpdatesAre
  <2>4. \A i \in Index(K) : input[t].states[i] => input[t] = Pressed(K, i)
    <3>1. \/ input[t] = Released(K) \/ \E i \in Index(K) : input[t] = Pressed(K, i)
      <4>1. NoData.kind \notin Kind /\ \A i, d : Twisted(i, d).kind \notin Kind
        BY InputFields
      <4>2. \A k \in Kind : /\ Released(k).kind = k
                            /\ \A i \in Index(k) : Pressed(k, i).kind = k
        BY SnapshotsDiffer, InputFields DEF Released
      <4> QED
        BY <1>3, <2>1, <4>1, <4>2 DEF Meant
    <3> QED
      BY <2>1, <3>1, SnapshotsDiffer
  <2>5. \A i \in Index(K) : input[t] = Pressed(K, i) => input[t].states[i]
    BY <2>1, SnapshotsDiffer
  <2> HIDE DEF ups
  <2>6. ASSUME NEW k \in Kind, NEW i \in Index(k)
        PROVE  /\ k = K /\ hit(i) => downs'[k][i] = downs[k][i] + 1
               /\ ~(k = K /\ hit(i)) => downs'[k][i] = downs[k][i]
    <3> DEFINE count == [j \in Index(K) |-> IF hit(j) THEN downs[K][j] + 1 ELSE downs[K][j]]
    <3>1. downs' = [downs EXCEPT ![K] = count]
      <4>1. downs' = [downs EXCEPT ![K] =
                       [j \in DOMAIN @ |->
                          IF j \in DOMAIN ups /\ ups[j] # <<>> /\ ups[j][1] = "down"
                          THEN @[j] + 1 ELSE @[j]]]
        BY <2>1 DEF Tell
      <4>2. DOMAIN downs[K] = Index(K)
        BY <1>0, <2>1
      <4> QED
        BY <2>3, <4>1, <4>2
    <3> HIDE DEF hit
    <3> QED
      BY <1>0, <2>1, <3>1
  <2> HIDE DEF hit
  <2>7. ASSUME NEW k \in Kind, NEW i \in Index(k)
        PROVE  /\ downs'[k][i] + Pending(Pressed(k, i))' <= presses'[k][i]
               /\ ~Both(k) /\ drops' = 0 =>
                    downs'[k][i] + Pending(Pressed(k, i))' = presses'[k][i]
    <3>1. /\ downs[k][i] + Pending(Pressed(k, i)) <= presses[k][i]
          /\ ~Both(k) /\ drops = 0 => downs[k][i] + Pending(Pressed(k, i)) = presses[k][i]
          /\ downs[k][i] \in Nat /\ presses[k][i] \in Nat /\ Pending(Pressed(k, i)) \in Nat
      BY <1>0 DEF Booked
    <3>2. CASE input[t] = Pressed(k, i)
      <4>1. k = K
        BY <3>2, SnapshotsDiffer
      <4>2. Pending(Pressed(k, i))' = Pending(Pressed(k, i)) - 1
        BY <1>4, <3>2
      <4>3. ~Both(k) => hit(i)
        BY <2>2, <2>5, <3>2, <4>1
      <4>4. /\ hit(i) => downs'[k][i] = downs[k][i] + 1
            /\ ~hit(i) => downs'[k][i] = downs[k][i]
        BY <2>6, <4>1
      <4>5. CASE hit(i)
        BY <1>1, <3>1, <4>2, <4>4, <4>5
      <4>6. CASE ~hit(i)
        <5>1. downs'[k][i] + Pending(Pressed(k, i))' <= presses'[k][i]
          BY <1>1, <3>1, <4>2, <4>4, <4>6
        <5> QED
          BY <4>3, <4>6, <5>1
      <4> QED
        BY <4>5, <4>6
    <3>3. CASE input[t] # Pressed(k, i)
      <4>1. Pending(Pressed(k, i))' = Pending(Pressed(k, i))
        BY <1>4, <3>3
      <4>2. ~(k = K /\ hit(i))
        BY <2>2, <2>4, <3>3
      <4>3. downs'[k][i] = downs[k][i]
        BY <2>6, <4>2
      <4> QED
        BY <1>1, <3>1, <4>1, <4>3
    <3> QED
      BY <3>2, <3>3
  <2>8. \A i \in Index("encoders"), d \in {-1, 1} : Pending(Twisted(i, d))' = Pending(Twisted(i, d))
    <3>1. \A i, d : input[t] # Twisted(i, d)
      BY <2>1, InputFields
    <3> QED
      BY <1>4, <3>1
  <2>9. Booked'
    BY <1>1, <2>1, <2>7, <2>8 DEF Booked, Both
  <2> QED
    BY <1>2, <2>9
<1>6. CASE UpdateTwist(t)
  <2>1. /\ input[t].kind \notin Kind /\ downs' = downs
        /\ input[t].kind = "twist" =>
             turned' = [turned EXCEPT ![input[t].index] = @ + input[t].change]
        /\ input[t].kind # "twist" => turned' = turned
    BY <1>6 DEF UpdateTwist
  <2>2. \A k \in Kind : \A i \in Index(k) : Pending(Pressed(k, i))' = Pending(Pressed(k, i))
    <3>1. \A k \in Kind : \A i \in Index(k) : input[t] # Pressed(k, i)
      BY <2>1, SnapshotsDiffer
    <3> QED
      BY <1>4, <3>1
  <2>3. ASSUME NEW i \in Index("encoders"), drops' = 0
        PROVE  turned'[i] + Pending(Twisted(i, 1))' - Pending(Twisted(i, -1))' = turns'[i]
    <3>1. /\ turned[i] + Pending(Twisted(i, 1)) - Pending(Twisted(i, -1)) = turns[i]
          /\ turned[i] \in Int /\ turns[i] \in Int
          /\ Pending(Twisted(i, 1)) \in Nat /\ Pending(Twisted(i, -1)) \in Nat
      BY <1>0, <1>1, <2>3 DEF Booked
    <3>2. CASE \A d \in {-1, 1} : input[t] # Twisted(i, d)
      <4>1. turned'[i] = turned[i]
        <5>1. CASE input[t].kind = "twist"
          <6>1. PICK j \in Index("encoders"), e \in {-1, 1} : input[t] = Twisted(j, e)
            <7>1. NoData.kind # "twist" /\ \A k \in Kind : k # "twist"
              BY InputFields
            <7>2. \A k \in Kind : /\ Released(k).kind = k
                                 /\ \A l \in Index(k) : Pressed(k, l).kind = k
              BY InputFields, SnapshotsDiffer DEF Released
            <7> QED
              BY <1>3, <5>1, <7>1, <7>2 DEF Meant
          <6>2. j # i /\ input[t].index = j
            BY <3>2, <6>1, InputFields
          <6> QED
            BY <1>0, <2>1, <5>1, <6>2
        <5>2. CASE input[t].kind # "twist"
          BY <2>1, <5>2
        <5> QED
          BY <5>1, <5>2
      <4>2. Pending(Twisted(i, 1))' = Pending(Twisted(i, 1)) /\ Pending(Twisted(i, -1))' = Pending(Twisted(i, -1))
        BY <1>4, <3>2
      <4> QED
        BY <1>1, <3>1, <4>1, <4>2
    <3>3. ASSUME NEW d \in {-1, 1}, input[t] = Twisted(i, d)
          PROVE  turned'[i] + Pending(Twisted(i, 1))' - Pending(Twisted(i, -1))' = turns'[i]
      <4>1. input[t].kind = "twist" /\ input[t].index = i /\ input[t].change = d
        BY <3>3, InputFields
      <4>2. turned'[i] = turned[i] + d
        BY <1>0, <2>1, <4>1
      <4>3. /\ d = 1 => input[t] # Twisted(i, -1)
            /\ d = -1 => input[t] # Twisted(i, 1)
        <5>1. Twisted(i, 1) # Twisted(i, -1)
          <6>1. Twisted(i, 1).change = 1 /\ Twisted(i, -1).change = -1
            BY InputFields
          <6> QED
            BY <6>1
        <5> QED
          BY <3>3, <5>1
      <4>4. CASE d = 1
        <5>1. Pending(Twisted(i, 1))' = Pending(Twisted(i, 1)) - 1 /\ Pending(Twisted(i, -1))' = Pending(Twisted(i, -1))
          BY <1>4, <3>3, <4>3, <4>4
        <5> QED
          BY <1>1, <3>1, <4>2, <4>4, <5>1
      <4>5. CASE d = -1
        <5>1. Pending(Twisted(i, 1))' = Pending(Twisted(i, 1)) /\ Pending(Twisted(i, -1))' = Pending(Twisted(i, -1)) - 1
          BY <1>4, <3>3, <4>3, <4>5
        <5> QED
          BY <1>1, <3>1, <4>2, <4>5, <5>1
      <4> QED
        BY <4>4, <4>5
    <3> QED
      BY <3>2, <3>3
  <2>4. Booked'
    BY <1>1, <2>1, <2>2, <2>3 DEF Booked, Both
  <2> QED
    BY <1>2, <2>4
<1> QED
  BY <1>5, <1>6 DEF Update


\* Nothing done, nothing told, nothing pending.
LEMMA InitBooked == Init => Honest /\ Booked
<1> SUFFICES ASSUME Init PROVE Honest /\ Booked
  OBVIOUS
<1>1. /\ queue = <<>> /\ \A t \in Task : pc[t] = "idle"
      /\ \A kind \in Kind : presses[kind] = Zero(kind) /\ downs[kind] = Zero(kind)
      /\ turns = Zero("encoders") /\ turned = Zero("encoders")
  BY DEF Init
<1>2. Holders = {}
  BY <1>1 DEF Holders
<1>3. Honest
  BY <1>1, <1>2, FS_EmptySet DEF Honest
<1>4. ASSUME NEW x PROVE Pending(x) = 0
  <2>1. Coming(x) = {} /\ Taken(x) = {}
    BY <1>1 DEF Coming, Taken
  <2> QED
    BY <2>1, FS_EmptySet DEF Pending
<1>5. ASSUME NEW kind \in Kind, NEW i \in Index(kind)
      PROVE  downs[kind][i] = 0 /\ presses[kind][i] = 0 /\ Pending(Pressed(kind, i)) = 0
  BY <1>1, <1>4 DEF Zero
<1>6. ASSUME NEW i \in Index("encoders")
      PROVE  /\ turned[i] = 0 /\ turns[i] = 0
             /\ Pending(Twisted(i, 1)) = 0 /\ Pending(Twisted(i, -1)) = 0
  BY <1>1, <1>4 DEF Zero
<1>7. Booked
  BY <1>5, <1>6 DEF Booked
<1> QED
  BY <1>3, <1>7

\* With the decoder of the application as it is, what was told and what is still
\* to be told never exceeds what the device reported, and is all of it for the
\* controls reported in one state as long as no read is dropped.
THEOREM Bookkeeping ==
  ASSUME FullSnapshots, FaithfulDecoder
  PROVE  Spec => [](Honest /\ Booked)
<1>1. Formed /\ Inv /\ Honest /\ Booked /\ [Next]_vars => Honest' /\ Booked'
  <2> SUFFICES ASSUME Formed, Inv, Honest, Booked, [Next]_vars PROVE Honest' /\ Booked'
    OBVIOUS
  <2>1. CASE UNCHANGED vars
    <3>1. UNCHANGED <<queue, pc, input, drops, presses, turns, downs, turned>>
      BY <2>1 DEF vars, device, bounds, history, computed, listener
    <3>2. \A x : Pending(x)' = Pending(x)
      <4>1. \A x : Coming(x)' = Coming(x) /\ Taken(x)' = Taken(x)
        BY <3>1 DEF Coming, Taken
      <4> QED
        BY <4>1 DEF Pending
    <3>3. Holders' = Holders
      BY <3>1 DEF Holders
    <3> QED
      BY <3>1, <3>2, <3>3 DEF Honest, Booked, Both
  <2>2. CASE Next
    BY <2>2, DeviceBooked, ReadBooked, UpdateBooked DEF Next
  <2> QED
    BY <2>1, <2>2
<1> QED
  BY <1>1, AlwaysFormed, InitBooked, Invariance, PTL DEF Spec

\* No listener is told of a press that nobody made, whichever tasks read with
\* whichever readers (src/state.rs:104-111).
THEOREM NobodyHearsGhosts ==
  ASSUME FullSnapshots, FaithfulDecoder
  PROVE  Spec => []NoGhostPress
<1>1. Formed /\ Honest /\ Booked => NoGhostPress
  <2> SUFFICES ASSUME Formed, Honest, Booked, NEW kind \in Kind, NEW i \in Index(kind)
               PROVE  downs[kind][i] <= presses[kind][i]
    BY DEF NoGhostPress
  <2>1. /\ downs[kind][i] \in Nat /\ presses[kind][i] \in Nat
        /\ Pending(Pressed(kind, i)) \in Nat
    BY PendingType DEF Formed, TypeOK, Honest, Pending
  <2>2. downs[kind][i] + Pending(Pressed(kind, i)) <= presses[kind][i]
    BY DEF Booked
  <2> QED
    BY <2>1, <2>2
<1> QED
  BY <1>1, AlwaysFormed, Bookkeeping, PTL

\* Once everything is told, every turn has been, and every press of a control
\* reported in one state (src/state.rs:89-114,136-140).
THEOREM EverythingIsTold ==
  ASSUME FullSnapshots, FaithfulDecoder
  PROVE  Spec => []NothingMissed
<1>1. Formed /\ Booked => NothingMissed
  <2> SUFFICES ASSUME Formed, Booked, Quiescent, drops = 0
               PROVE  /\ turned = turns
                      /\ \A kind \in Kind : ~Both(kind) => downs[kind] = presses[kind]
    BY DEF NothingMissed
  <2>1. ASSUME NEW x PROVE Pending(x) = 0
    <3>1. Coming(x) = {} /\ Taken(x) = {}
      BY DEF Coming, Taken, Quiescent
    <3> QED
      BY <3>1, FS_EmptySet DEF Pending
  <2>2. /\ turned \in [Index("encoders") -> Int] /\ turns \in [Index("encoders") -> Int]
        /\ \A kind \in Kind : presses[kind] \in [Index(kind) -> Nat] /\ downs[kind] \in [Index(kind) -> Nat]
    BY DEF Formed, TypeOK
  <2>3. \A i \in Index("encoders") : turned[i] = turns[i]
    BY <2>1, <2>2 DEF Booked
  <2>4. ASSUME NEW kind \in Kind, ~Both(kind), NEW i \in Index(kind)
        PROVE  downs[kind][i] = presses[kind][i]
    BY <2>1, <2>2, <2>4 DEF Booked
  <2> QED
    BY <2>2, <2>3, <2>4
<1> QED
  BY <1>1, AlwaysFormed, Bookkeeping, PTL


-----------------------------------------------------------------------------
(* What is held, for one task that reads a device on which one control is  *)
(* held at a time: the last word about each kind of control is the truth.  *)

Current(kind) == [i \in Index(kind) |-> i \in held[kind]]

About(n, kind) == Decode(queue[n]).kind = kind
Comes(kind)    == \E n \in DOMAIN queue : About(n, kind)
Brings(t, kind) == pc[t] = "decoded" /\ input[t].kind = kind

OneHeld ==
  \A j, k \in Kind : \A i \in held[j] : \A l \in held[k] : j = k /\ i = l

\* The last report about a kind, on its way, in the task, or compared, says
\* what is held.
LastWord ==
  \A kind \in Kind :
    /\ \A n \in DOMAIN queue :
         About(n, kind) /\ (\A m \in DOMAIN queue : m > n => ~About(m, kind)) =>
           Decode(queue[n]).states = Current(kind)
    /\ ~Comes(kind) => \A t \in Task : Brings(t, kind) => input[t].states = Current(kind)
    /\ ~Comes(kind) /\ (\A t \in Task : ~Brings(t, kind)) =>
         \A r \in Reader : states[r][kind] = Current(kind)

\* A new report that says what is held of its kind.
LEMMA WordSent ==
  ASSUME LastWord, queue \in Seq(Report), NEW r, queue' = Append(queue, r),
         UNCHANGED <<pc, input, states>>,
         \A kind \in Kind : \/ Decode(r).kind = kind /\ Decode(r).states = Current(kind)'
                            \/ Decode(r).kind # kind /\ held'[kind] = held[kind]
  PROVE  LastWord'
<1>1. PICK new \in Nat :
        /\ DOMAIN queue' = DOMAIN queue \cup {new} /\ new \notin DOMAIN queue
        /\ queue'[new] = r
        /\ \A n \in DOMAIN queue : queue'[n] = queue[n] /\ n \in Nat /\ new > n
  <2>1. Len(queue) + 1 \in Nat
    OBVIOUS
  <2> QED
    BY <2>1
<1> SUFFICES ASSUME NEW kind \in Kind
    PROVE  /\ \A n \in DOMAIN queue' :
                About(n, kind)' /\ (\A m \in DOMAIN queue' : m > n => ~About(m, kind)') =>
                  Decode(queue'[n]).states = Current(kind)'
           /\ ~Comes(kind)' => \A t \in Task : Brings(t, kind)' => input'[t].states = Current(kind)'
           /\ ~Comes(kind)' /\ (\A t \in Task : ~Brings(t, kind)') =>
                \A x \in Reader : states'[x][kind] = Current(kind)'
  BY DEF LastWord
<1>2. ASSUME NEW n \in DOMAIN queue
      PROVE  (About(n, kind) => About(n, kind)') /\ (About(n, kind)' => About(n, kind))
  BY <1>1, <1>2 DEF About
<1>5. ASSUME NEW t \in Task
      PROVE  (Brings(t, kind) => Brings(t, kind)') /\ (Brings(t, kind)' => Brings(t, kind))
  BY DEF Brings
<1>3. CASE Decode(r).kind = kind
  <2>1. new \in DOMAIN queue' /\ About(new, kind)'
    BY <1>1, <1>3 DEF About
  <2>2. Comes(kind)'
    BY <2>1 DEF Comes
  <2>3. Decode(r).states = Current(kind)'
    BY <1>3
  <2>4. ASSUME NEW n \in DOMAIN queue', \A m \in DOMAIN queue' : m > n => ~About(m, kind)'
        PROVE  n = new
    BY <1>1, <2>1, <2>4
  <2> QED
    BY <1>1, <2>2, <2>3, <2>4
<1>4. CASE Decode(r).kind # kind
  <2>1. Current(kind)' = Current(kind)
    <3>1. held'[kind] = held[kind]
      BY <1>4
    <3> QED
      BY <3>1 DEF Current
  <2>0. ~About(new, kind)'
    BY <1>1, <1>4 DEF About
  <2>3. Comes(kind) => Comes(kind)'
    BY <1>1, <1>2 DEF Comes
  <2>4. ASSUME NEW n \in DOMAIN queue', About(n, kind)',
               \A m \in DOMAIN queue' : m > n => ~About(m, kind)'
        PROVE  Decode(queue'[n]).states = Current(kind)'
    <3>1. n \in DOMAIN queue /\ queue'[n] = queue[n]
      BY <1>1, <2>0, <2>4
    <3>2. About(n, kind)
      BY <1>2, <2>4, <3>1
    <3>3. \A m \in DOMAIN queue : m > n => ~About(m, kind)
      BY <1>1, <1>2, <2>4
    <3> QED
      BY <2>1, <3>1, <3>2, <3>3 DEF LastWord
  <2>5. ASSUME ~Comes(kind)', NEW t \in Task, Brings(t, kind)'
        PROVE  input'[t].states = Current(kind)'
    <3>1. ~Comes(kind) /\ Brings(t, kind)
      BY <1>5, <2>3, <2>5
    <3> QED
      BY <2>1, <3>1 DEF LastWord
  <2>6. ASSUME ~Comes(kind)', \A t \in Task : ~Brings(t, kind)', NEW x \in Reader
        PROVE  states'[x][kind] = Current(kind)'
    <3>1. ~Comes(kind) /\ \A t \in Task : ~Brings(t, kind)
      BY <1>5, <2>3, <2>6
    <3> QED
      BY <2>1, <3>1 DEF LastWord
  <2> QED
    BY <2>4, <2>5, <2>6
<1> QED
  BY <1>3, <1>4

\* The device always says last what is held of the kind it speaks about: with
\* one control at a time, its report is about all of the kind.
LEMMA DeviceWord ==
  ASSUME FaithfulDecoder, IgnoresUnknown, OneByOne, Formed, OneHeld, LastWord, Device
  PROVE  OneHeld' /\ LastWord'
<1>0. /\ queue \in Seq(Report) /\ DOMAIN held = Kind
      /\ held \in [Kind -> SUBSET Nat] /\ \A kind \in Kind : held[kind] \subseteq Index(kind)
  BY DEF Formed, TypeOK
<1>1. ASSUME NEW kind \in Kind, NEW i \in Index(kind), Press(kind, i)
      PROVE  OneHeld' /\ LastWord'
  <2> DEFINE r == Sent(Byte(kind, i), 1)
  <2>1. /\ queue' = Append(queue, r) /\ held' = [held EXCEPT ![kind] = @ \cup {i}]
        /\ UNCHANGED <<pc, input, states>> /\ HowManyHeld < MaxHeld
    BY <1>1 DEF Press, Send, Sent
  <2>2. Decode(r) = Pressed(kind, i)
    BY DecodePress
  <2> HIDE DEF r
  <2>3. held["buttons"] = {} /\ held["encoders"] = {}
    <3>1. KeyCount \in 0..64 /\ EncoderCount \in 0..32
      BY Counts
    <3>2. IsFiniteSet(Index("buttons")) /\ IsFiniteSet(Index("encoders"))
      <4>1. Count("buttons") - 1 \in Int /\ Count("encoders") - 1 \in Int
        BY <3>1 DEF Count
      <4> QED
        BY <4>1, FS_Interval DEF Index
    <3>3. IsFiniteSet(held["buttons"]) /\ IsFiniteSet(held["encoders"])
      BY <1>0, <3>2, FS_Subset DEF Kind
    <3>4. Cardinality(held["buttons"]) \in Nat /\ Cardinality(held["encoders"]) \in Nat
      BY <3>3, FS_CardinalityType
    <3>5. Cardinality(held["buttons"]) = 0 /\ Cardinality(held["encoders"]) = 0
      BY <2>1, <3>4, Bounds DEF HowManyHeld, OneByOne
    <3> QED
      BY <3>3, <3>5, FS_EmptySet
  <2>4. /\ held'[kind] = {i} /\ \A k \in Kind : k # kind => held'[k] = held[k] /\ held'[k] = {}
    BY <1>0, <2>1, <2>3 DEF Kind
  <2>5. OneHeld'
    BY <2>4 DEF OneHeld
  <2>6. Pressed(kind, i).states = Current(kind)'
    BY <2>4, InputFields DEF Pressed, Current
  <2>7. Decode(r).kind = kind
    BY <2>2, SnapshotsDiffer
  <2>8. LastWord'
    BY <1>0, <2>1, <2>2, <2>4, <2>6, <2>7, WordSent
  <2> QED
    BY <2>5, <2>8
<1>2. ASSUME NEW kind \in Kind, NEW i \in Index(kind), Release(kind, i)
      PROVE  OneHeld' /\ LastWord'
  <2> DEFINE r == Sent(Byte(kind, i), 0)
  <2>1. /\ queue' = Append(queue, r) /\ held' = [held EXCEPT ![kind] = @ \ {i}]
        /\ UNCHANGED <<pc, input, states>> /\ i \in held[kind]
    BY <1>2 DEF Release, Send, Sent, OneByOne
  <2>2. Decode(r) = Released(kind)
    BY DecodeRelease DEF OneByOne
  <2> HIDE DEF r
  <2>4. held'[kind] = {} /\ \A k \in Kind : k # kind => held'[k] = held[k]
    BY <1>0, <2>1 DEF OneHeld
  <2>5. OneHeld'
    BY <2>4 DEF OneHeld
  <2>6. Released(kind).states = Current(kind)' /\ Released(kind).kind = kind
    <3>1. Released(kind).states = AllUp(kind) /\ Released(kind).kind = kind
      BY InputFields DEF Released
    <3>2. \A j \in Index(kind) : j \notin held'[kind]
      BY <2>4
    <3>3. ASSUME NEW j \in Index(kind) PROVE (j \in held'[kind]) = FALSE
      BY <3>2
    <3>4. [j \in Index(kind) |-> j \in held'[kind]] = [j \in Index(kind) |-> FALSE]
      BY <3>3
    <3> QED
      BY <3>1, <3>4 DEF Current, AllUp
  <2>8. LastWord'
    BY <1>0, <2>1, <2>2, <2>4, <2>6, WordSent
  <2> QED
    BY <2>5, <2>8
<1>3. ASSUME NEW r, queue' = Append(queue, r), UNCHANGED <<held, pc, input, states>>,
             Decode(r).kind \notin Kind
      PROVE  OneHeld' /\ LastWord'
  <2>1. OneHeld'
    BY <1>3 DEF OneHeld
  <2>2. LastWord'
    BY <1>0, <1>3, WordSent
  <2> QED
    BY <2>1, <2>2
<1>4. ASSUME NEW i \in Index("encoders"), NEW d \in {-1, 1}, Turn(i, d)
      PROVE  OneHeld' /\ LastWord'
  <2> DEFINE r == Sent(TurnByte(i, d), 0)
  <2>1. queue' = Append(queue, r) /\ UNCHANGED <<held, pc, input, states>>
    BY <1>4 DEF Turn, Send, Sent
  <2>2. Decode(r) = Twisted(i, d)
    BY DecodeTurn
  <2> HIDE DEF r
  <2>3. Decode(r).kind \notin Kind
    BY <2>2, InputFields
  <2> QED
    BY <1>3, <2>1, <2>3
<1>5. ASSUME Noise
      PROVE  OneHeld' /\ LastWord'
  <2>1. UNCHANGED <<held, pc, input, states>>
    BY <1>5 DEF Noise
  <2>2. ASSUME NEW i \in Index("buttons"), ProtocolVersion > 0,
               queue' = Append(queue, [ack |-> FALSE, key |-> Byte("buttons", i), state |-> 1])
        PROVE  OneHeld' /\ LastWord'
    <3> DEFINE r == [ack |-> FALSE, key |-> Byte("buttons", i), state |-> 1]
    <3>1. ~r.ack
      OBVIOUS
    <3> HIDE DEF r
    <3>2. Decode(r).kind \notin Kind
      BY <2>2, <3>1, InputFields DEF Decode
    <3> QED
      BY <1>3, <2>1, <2>2, <3>2 DEF r
  <2>3. ASSUME queue' = Append(queue, Sent(255, 1))
        PROVE  OneHeld' /\ LastWord'
    <3> DEFINE r == Sent(255, 1)
    <3>1. Decode(r) \in {NoData, BadData}
      BY DecodeNoise DEF NotAnInput
    <3> HIDE DEF r
    <3>2. Decode(r).kind \notin Kind
      BY <3>1, InputFields
    <3> QED
      BY <1>3, <2>1, <2>3, <3>2 DEF r
  <2> QED
    BY <1>5, <2>2, <2>3 DEF Noise, Sent
<1> QED
  BY <1>1, <1>2, <1>4, <1>5 DEF Device

\* Nothing happens to what is on its way, nor to what is compared.
LEMMA SameWord ==
  ASSUME OneHeld, LastWord, UNCHANGED <<held, queue, states>>,
         \A t \in Task : /\ pc'[t] = "decoded" => pc[t] = "decoded" /\ input'[t] = input[t]
                         /\ pc[t] = "decoded" => pc'[t] = "decoded" /\ input'[t] = input[t]
  PROVE  OneHeld' /\ LastWord'
<1>1. OneHeld'
  BY DEF OneHeld
<1>2. \A kind : Current(kind)' = Current(kind)
  BY DEF Current
<1>3. ASSUME NEW kind PROVE (Comes(kind) => Comes(kind)') /\ (Comes(kind)' => Comes(kind))
  BY DEF Comes, About
<1>4. ASSUME NEW kind, NEW t \in Task
      PROVE  (Brings(t, kind) => Brings(t, kind)') /\ (Brings(t, kind)' => Brings(t, kind))
  BY DEF Brings
<1>5. ASSUME NEW kind \in Kind, NEW n \in DOMAIN queue', About(n, kind)',
             \A m \in DOMAIN queue' : m > n => ~About(m, kind)'
      PROVE  Decode(queue'[n]).states = Current(kind)'
  BY <1>2, <1>5 DEF LastWord, About
<1>6. ASSUME NEW kind \in Kind, ~Comes(kind)', NEW t \in Task, Brings(t, kind)'
      PROVE  input'[t].states = Current(kind)'
  <2>1. ~Comes(kind) /\ Brings(t, kind) /\ input'[t] = input[t]
    BY <1>3, <1>4, <1>6 DEF Brings
  <2> QED
    BY <1>2, <2>1 DEF LastWord
<1>7. ASSUME NEW kind \in Kind, ~Comes(kind)', \A t \in Task : ~Brings(t, kind)', NEW r \in Reader
      PROVE  states'[r][kind] = Current(kind)'
  <2>1. ~Comes(kind) /\ \A t \in Task : ~Brings(t, kind)
    BY <1>3, <1>4, <1>7
  <2> QED
    BY <1>2, <2>1 DEF LastWord
<1> QED
  BY <1>1, <1>5, <1>6, <1>7 DEF LastWord

\* A report that is read: if it is the last about its kind, the one task has
\* it now.
LEMMA ReportWord ==
  ASSUME OneByOne, Formed, OneHeld, LastWord, NEW t \in Task, ReadReport(t)
  PROVE  OneHeld' /\ LastWord'
<1>1. /\ queue \in Seq(Report) /\ queue # <<>> /\ queue' = Tail(queue)
      /\ pc[t] = "reading" /\ UNCHANGED <<held, states>>
      /\ DOMAIN pc = Task /\ DOMAIN input = Task
  BY DEF ReadReport, Formed, TypeOK
<1>2. /\ 1 \in DOMAIN queue /\ Head(queue) = queue[1]
      /\ \A n \in DOMAIN queue' : n \in Nat /\ n + 1 \in DOMAIN queue /\ queue'[n] = queue[n + 1]
      /\ \A m \in DOMAIN queue : m \in Nat /\ (m > 1 => m - 1 \in DOMAIN queue')
      /\ \A n \in DOMAIN queue' : n + 1 > 1
  BY <1>1
<1>3. OneHeld'
  BY <1>1 DEF OneHeld
<1>4. \A kind : Current(kind)' = Current(kind)
  BY <1>1 DEF Current
<1>5. \A u \in Task : u = t
  BY DEF OneByOne
<1>6. \A kind : \A u \in Task : ~Brings(u, kind)
  BY <1>1, <1>5 DEF Brings
<1>7. /\ Decode(Head(queue)) = BadData => pc'[t] = "idle"
      /\ Decode(Head(queue)) # BadData =>
           pc'[t] = "decoded" /\ input'[t] = Decode(Head(queue))
  BY <1>1 DEF ReadReport
<1>8. ASSUME NEW kind \in Kind, NEW n \in DOMAIN queue'
      PROVE  (About(n, kind)' => About(n + 1, kind)) /\ (About(n + 1, kind) => About(n, kind)')
  BY <1>2 DEF About
<1>9. ASSUME NEW kind \in Kind, NEW n \in DOMAIN queue', About(n, kind)',
             \A m \in DOMAIN queue' : m > n => ~About(m, kind)'
      PROVE  Decode(queue'[n]).states = Current(kind)'
  <2>1. ASSUME NEW m \in DOMAIN queue, m > n + 1
        PROVE  ~About(m, kind)
    <3>1. m - 1 \in DOMAIN queue' /\ m - 1 > n /\ (m - 1) + 1 = m
      BY <1>2, <2>1
    <3>2. ~About(m - 1, kind)'
      BY <1>9, <3>1
    <3> QED
      BY <1>8, <3>1, <3>2
  <2>2. n + 1 \in DOMAIN queue /\ About(n + 1, kind) /\ queue'[n] = queue[n + 1]
    BY <1>2, <1>8, <1>9
  <2>3. Decode(queue[n + 1]).states = Current(kind)
    BY <2>1, <2>2 DEF LastWord
  <2> QED
    BY <1>4, <2>2, <2>3
<1>10. ASSUME NEW kind \in Kind, ~Comes(kind)', NEW m \in DOMAIN queue, m > 1
       PROVE  ~About(m, kind)
  <2>1. m - 1 \in DOMAIN queue' /\ (m - 1) + 1 = m
    BY <1>2, <1>10
  <2>2. ~About(m - 1, kind)'
    BY <1>10, <2>1 DEF Comes
  <2> QED
    BY <1>8, <2>1, <2>2
<1>11. ASSUME NEW kind \in Kind, ~Comes(kind)', NEW u \in Task, Brings(u, kind)'
       PROVE  input'[u].states = Current(kind)'
  <2>1. u = t /\ input'[t] = Decode(queue[1]) /\ input'[t].kind = kind
    BY <1>2, <1>5, <1>7, <1>11 DEF Brings
  <2>2. About(1, kind)
    BY <2>1 DEF About
  <2>3. Decode(queue[1]).states = Current(kind)
    BY <1>2, <1>10, <1>11, <2>2 DEF LastWord
  <2> QED
    BY <1>4, <2>1, <2>3
<1>12. ASSUME NEW kind \in Kind, ~Comes(kind)', \A u \in Task : ~Brings(u, kind)', NEW r \in Reader
       PROVE  states'[r][kind] = Current(kind)'
  <2>1. ~About(1, kind)
    <3> SUFFICES ASSUME Decode(queue[1]).kind = kind PROVE FALSE
      BY DEF About
    <3>1. Decode(Head(queue)) # BadData
      BY <1>2, InputFields
    <3>2. Brings(t, kind)'
      BY <1>2, <1>7, <3>1 DEF Brings
    <3> QED
      BY <1>12, <3>2
  <2>2. ~Comes(kind)
    <3>1. \A m \in DOMAIN queue : m = 1 \/ m > 1
      BY <1>1
    <3> QED
      BY <1>10, <1>12, <2>1, <3>1 DEF Comes
  <2> QED
    BY <1>1, <1>4, <1>6, <2>2 DEF LastWord
<1> QED
  BY <1>3, <1>9, <1>11, <1>12 DEF LastWord

\* What the one task compares is the last word of its kind, or is followed by
\* a later one.
LEMMA UpdateWord ==
  ASSUME OneByOne, Formed, OneHeld, LastWord, NEW t \in Task, Update(t)
  PROVE  OneHeld' /\ LastWord'
<1> DEFINE K == input[t].kind
<1>1. /\ UNCHANGED <<held, queue>> /\ pc[t] = "decoded" /\ pc'[t] = "returning"
      /\ DOMAIN pc = Task
  BY DEF Update, UpdateStates, UpdateTwist, device, Formed, TypeOK
<1>2. OneHeld'
  BY <1>1 DEF OneHeld
<1>3. \A kind : Current(kind)' = Current(kind)
  BY <1>1 DEF Current
<1>4. \A u \in Task : u = t
  BY DEF OneByOne
<1>5. \A kind : \A u \in Task : ~Brings(u, kind)'
  BY <1>1, <1>4 DEF Brings
<1>6. ASSUME NEW kind PROVE Comes(kind) => Comes(kind)'
  BY <1>1 DEF Comes, About
<1>7. ASSUME NEW kind \in Kind, NEW n \in DOMAIN queue', About(n, kind)',
             \A m \in DOMAIN queue' : m > n => ~About(m, kind)'
      PROVE  Decode(queue'[n]).states = Current(kind)'
  BY <1>1, <1>3, <1>7 DEF LastWord, About
<1>8. ASSUME NEW kind \in Kind, ~Comes(kind)', NEW r \in Reader
      PROVE  states'[r][kind] = Current(kind)'
  <2>1. ~Comes(kind)
    BY <1>6, <1>8
  <2>2. r = Uses[t]
    BY <1>4 DEF OneByOne
  <2>3. CASE K = kind
    <3>1. input[t].states = Current(kind)
      BY <1>1, <2>1, <2>3 DEF LastWord, Brings
    <3>2. UpdateStates(t)
      BY <2>3 DEF Update, UpdateTwist
    <3>3. states' = [states EXCEPT ![r][kind] = input[t].states]
      BY <2>2, <2>3, <3>2 DEF UpdateStates
    <3>4. DOMAIN states = Reader /\ DOMAIN states[r] = Kind
      BY DEF Formed
    <3>5. states'[r][kind] = input[t].states
      BY <3>3, <3>4
    <3> QED
      BY <1>3, <3>1, <3>5
  <2>4. CASE K # kind
    <3>1. \A u \in Task : ~Brings(u, kind)
      BY <1>4, <2>4 DEF Brings
    <3>2. states[r][kind] = Current(kind)
      BY <2>1, <3>1 DEF LastWord
    <3>3. states'[r][kind] = states[r][kind]
      <4>1. DOMAIN states = Reader /\ DOMAIN states[r] = Kind
        BY DEF Formed
      <4> QED
        BY <2>4, <4>1 DEF Update, UpdateStates, UpdateTwist
    <3> QED
      BY <1>3, <3>2, <3>3
  <2> QED
    BY <2>3, <2>4
<1> QED
  BY <1>2, <1>5, <1>7, <1>8 DEF LastWord

\* The other steps of a task: with nobody else, none drops what it decoded.
LEMMA TaskWord ==
  ASSUME OneByOne, Formed, OneHeld, LastWord, NEW t \in Task,
         Begin(t) \/ TakeReader(t) \/ TimeOut(t) \/ FailRead(t) \/ Drop(t) \/ Return(t)
  PROVE  OneHeld' /\ LastWord'
<1>1. DOMAIN pc = Task /\ DOMAIN input = Task
  BY DEF Formed, TypeOK
<1>2. UNCHANGED <<held, queue, states>>
  BY DEF Begin, TakeReader, TimeOut, FailRead, Drop, Return, device
<1>3. pc[t] # "decoded" /\ pc'[t] # "decoded"
  <2>1. ~\E u \in Task \ {t} : Uses[u] = Uses[t] /\ pc[u] = "decoded"
    BY DEF OneByOne
  <2>2. CASE Drop(t)
    BY <1>1, <2>1, <2>2 DEF Drop
  <2>3. CASE Begin(t) \/ TakeReader(t) \/ TimeOut(t) \/ FailRead(t) \/ Return(t)
    BY <1>1, <2>3 DEF Begin, TakeReader, TimeOut, FailRead, Return
  <2> QED
    BY <2>2, <2>3
<1>4. \A u \in Task : u = t
  BY DEF OneByOne
<1> QED
  BY <1>2, <1>3, <1>4, SameWord

\* Nothing is held and nothing is said.
LEMMA InitWord == Init => OneHeld /\ LastWord
<1> SUFFICES ASSUME Init PROVE OneHeld /\ LastWord
  OBVIOUS
<1>1. OneHeld
  BY DEF Init, OneHeld
<1>2. /\ \A kind : ~Comes(kind)
      /\ DOMAIN queue = {}
      /\ \A t \in Task : \A kind : ~Brings(t, kind)
  BY DEF Init, Comes, Brings
<1>3. ASSUME NEW kind \in Kind, NEW r \in Reader PROVE states[r][kind] = Current(kind)
  <2>1. states[r][kind] = [i \in Index(kind) |-> FALSE] /\ held[kind] = {}
    BY DEF Init, InitialStates, AllUp
  <2>2. \A i \in Index(kind) : (i \in held[kind]) = FALSE
    BY <2>1
  <2>3. [i \in Index(kind) |-> i \in held[kind]] = [i \in Index(kind) |-> FALSE]
    BY <2>2
  <2> QED
    BY <2>1, <2>3 DEF Current
<1> QED
  BY <1>1, <1>2, <1>3 DEF LastWord

\* With one task and one control held at a time, a listener believes down
\* exactly what is held down whenever everything has been told: through
\* timeouts, failed reads, dropped futures, and reports that are no input
\* (src/state.rs:83-188).
THEOREM WhatIsHeldIsTold ==
  ASSUME FullSnapshots, FaithfulDecoder, IgnoresUnknown, OneByOne
  PROVE  Spec => []HeardIsHeld
<1>1. Formed /\ OneHeld /\ LastWord /\ [Next]_vars => (OneHeld /\ LastWord)'
  <2> SUFFICES ASSUME Formed, OneHeld, LastWord, [Next]_vars PROVE OneHeld' /\ LastWord'
    OBVIOUS
  <2>1. CASE UNCHANGED vars
    <3>1. UNCHANGED <<held, queue, states, pc, input>>
      BY <2>1 DEF vars, device
    <3> QED
      BY <3>1, SameWord
  <2>2. CASE Next
    BY <2>2, DeviceWord, TaskWord, ReportWord, UpdateWord DEF Next
  <2> QED
    BY <2>1, <2>2
<1>2. Formed /\ Inv /\ LastWord => HeardIsHeld
  <2> SUFFICES ASSUME Formed, Inv, LastWord, Quiescent, NEW r \in Reader, NEW kind \in Kind
               PROVE  held[kind] = {i \in Index(kind) : heard[r][kind][i]}
    BY DEF HeardIsHeld
  <2>1. ~Comes(kind) /\ \A t \in Task : ~Brings(t, kind)
    BY DEF Quiescent, Comes, Brings
  <2>2. states[r][kind] = Current(kind)
    BY <2>1 DEF LastWord
  <2>3. told[r][kind] = Current(kind)
    BY <2>2 DEF Inv, ToldIsStored, Both, OneByOne
  <2>4. held[kind] \subseteq Index(kind)
    BY DEF Formed, TypeOK
  <2>5. PICK t \in Task : Uses[t] = r
    BY DEF OneByOne
  <2>6. Exclusive(r) /\ updates[t] = Nothing
    BY DEF Exclusive, OneByOne, Quiescent, Inv, Shapes
  <2>7. told[r][kind] = Hear(heard[r][kind], Nothing[kind])
    BY <2>5, <2>6 DEF Inv, HeardInTurn, OneBehind
  <2>8. heard[r][kind] \in [Index(kind) -> BOOLEAN]
    BY DEF Inv, Shapes, Shape
  <2>9. heard[r][kind] = Current(kind)
    BY <2>3, <2>7, <2>8, HearNothing
  <2> QED
    BY <2>4, <2>9 DEF Current
<1> QED
  BY <1>1, <1>2, AlwaysFormed, InitWord, Invariance, PTL DEF Spec
=============================================================================
