----------------------------- MODULE HostProofs -----------------------------
(***************************************************************************)
(* Proofs about the card reader and a request to the administration page.  *)
(***************************************************************************)
EXTENDS Reader, Request, SequenceTheorems, FiniteSetTheorems, WellFoundedInduction, TLAPS
-----------------------------------------------------------------------------
(* A request.                                                              *)

\* What a request consists of.
Part == {"begin", "line", "headers", "others", "AlkoAction=", "St", "a", "rt", "te", "op", "Ch", "eck", "Fe", "tch",
         "Au", "toHome", "Cancel", "AutoHome"}

\* The name of every button is two parts or three, none of which is part of what goes before.
LEMMA NameParts ==
  ASSUME NEW a \in DOMAIN Name
  PROVE  /\ Name[a] \in Seq(Part) /\ Len(Name[a]) \in {2, 3}
         /\ \A k \in 1 .. Len(Name[a]) : Name[a][k] \notin {"AlkoAction=", "line", "headers"}
<1>1. a \in {"Start", "Stop", "Check", "State", "Fetch", "AutoHome", "CancelAutoHome"}
  BY DEF Name
<1>2. \/ \E p \in {"rt", "te"} : Name[a] = <<"St", "a", p>>
      \/ \E p \in {"St", "Ch", "Fe", "Au", "Cancel"}, q \in {"op", "eck", "tch", "toHome", "AutoHome"} : Name[a] = <<p, q>>
  BY <1>1 DEF Name
<1>3. ASSUME NEW p \in {"rt", "te"}, Name[a] = <<"St", "a", p>>
      PROVE  /\ Name[a] \in Seq(Part) /\ Len(Name[a]) = 3
             /\ \A k \in 1 .. 3 : Name[a][k] \notin {"AlkoAction=", "line", "headers"}
  <2>1. "St" \in Part /\ "a" \in Part /\ p \in Part
    BY DEF Part
  <2> QED
    BY <1>3, <2>1
<1>4. ASSUME NEW p \in {"St", "Ch", "Fe", "Au", "Cancel"}, NEW q \in {"op", "eck", "tch", "toHome", "AutoHome"}, Name[a] = <<p, q>>
      PROVE  /\ Name[a] \in Seq(Part) /\ Len(Name[a]) = 2
             /\ \A k \in 1 .. 2 : Name[a][k] \notin {"AlkoAction=", "line", "headers"}
  <2>1. p \in Part /\ q \in Part
    BY DEF Part
  <2> QED
    BY <1>4, <2>1
<1> QED
  BY <1>2, <1>3, <1>4

\* Any two of them differ in a part that the one has.
LEMMA NamesDiffer ==
  ASSUME NEW a \in DOMAIN Name, NEW b \in DOMAIN Name, NEW n \in 0 .. Len(Name[a]), n = Len(Name[b]),
         \A k \in 1 .. n : Name[a][k] = Name[b][k]
  PROVE  a = b
<1>1. {a, b} \subseteq {"Start", "Stop", "Check", "State", "Fetch", "AutoHome", "CancelAutoHome"}
  BY DEF Name
<1>2. /\ Name["Start"] = <<"St", "a", "rt">> /\ Name["Stop"] = <<"St", "op">> /\ Name["Check"] = <<"Ch", "eck">>
      /\ Name["State"] = <<"St", "a", "te">> /\ Name["Fetch"] = <<"Fe", "tch">> /\ Name["AutoHome"] = <<"Au", "toHome">>
      /\ Name["CancelAutoHome"] = <<"Cancel", "AutoHome">>
  BY DEF Name
<1>3. n \in {2, 3} /\ Name[a][1] = Name[b][1] /\ Name[a][2] = Name[b][2] /\ (n = 3 => Name[a][3] = Name[b][3])
  BY NameParts
<1> QED
  BY <1>1, <1>2, <1>3

LEMMA PartsAre ==
  ASSUME NEW r \in Requests
  PROVE  /\ PartsOf(r) \in Seq(Part)
         /\ PartsOf(r)[1] = "begin" /\ PartsOf(r)[2] = "line" /\ PartsOf(r)[3] = "headers" /\ PartsOf(r)[4] = "others"
         /\ r.action = "none" => Len(PartsOf(r)) = 4
         /\ r.action # "none" =>
              /\ r.action \in DOMAIN Name
              /\ Len(PartsOf(r)) = 5 + Len(Name[r.action]) /\ PartsOf(r)[5] = "AlkoAction="
              /\ \A k \in 1 .. Len(Name[r.action]) : PartsOf(r)[5 + k] = Name[r.action][k]
<1> DEFINE start == <<"begin", "line", "headers", "others">>
<1> DEFINE body == IF r.action = "none" THEN <<>> ELSE <<"AlkoAction=">> \o Name[r.action]
<1>1. r.action = "none" \/ r.action \in DOMAIN Name
  BY RequestAssumption
<1>p. "begin" \in Part /\ "line" \in Part /\ "headers" \in Part /\ "others" \in Part /\ "AlkoAction=" \in Part
  BY DEF Part
<1>2. start \in Seq(Part) /\ Len(start) = 4 /\ start[1] = "begin" /\ start[2] = "line"
        /\ start[3] = "headers" /\ start[4] = "others"
  BY <1>p
<1>3. ASSUME r.action # "none"
      PROVE  /\ body \in Seq(Part) /\ Len(body) = 1 + Len(Name[r.action]) /\ body[1] = "AlkoAction="
             /\ \A k \in 1 .. Len(Name[r.action]) : body[1 + k] = Name[r.action][k]
  BY <1>p, <1>1, <1>3, NameParts
<1>4. r.action = "none" => body = <<>>
  OBVIOUS
<1>5. body \in Seq(Part)
  BY <1>3, <1>4
<1>6. PartsOf(r) = start \o body
  BY DEF PartsOf
<1> HIDE DEF start, body
<1>7. /\ PartsOf(r) \in Seq(Part) /\ Len(PartsOf(r)) = 4 + Len(body)
      /\ \A k \in 1 .. 4 + Len(body) : PartsOf(r)[k] = IF k <= 4 THEN start[k] ELSE body[k - 4]
  <2>1. start \in Seq(Part) /\ body \in Seq(Part)
    BY <1>2, <1>5
  <2>2. /\ start \o body \in Seq(Part)
        /\ Len(start \o body) = Len(start) + Len(body)
        /\ \A k \in 1 .. Len(start) + Len(body) :
             (start \o body)[k] = IF k <= Len(start) THEN start[k] ELSE body[k - Len(start)]
    BY <2>1, ConcatProperties
  <2>3. Len(start) = 4
    BY <1>2
  <2>4. start \o body = PartsOf(r)
    BY <1>6
  <2> HIDE DEF start
  <2> QED
    BY <2>2, <2>3, <2>4
<1>8. Len(body) \in Nat
  BY <1>5
<1>9. PartsOf(r)[1] = "begin" /\ PartsOf(r)[2] = "line" /\ PartsOf(r)[3] = "headers" /\ PartsOf(r)[4] = "others"
  BY <1>2, <1>7, <1>8
<1>10. ASSUME r.action # "none"
       PROVE  /\ Len(PartsOf(r)) = 5 + Len(Name[r.action]) /\ PartsOf(r)[5] = "AlkoAction="
              /\ \A k \in 1 .. Len(Name[r.action]) : PartsOf(r)[5 + k] = Name[r.action][k]
  <2>1. Len(Name[r.action]) \in Nat
    BY <1>1, <1>10, NameParts
  <2>2. PartsOf(r)[5] = body[1]
    BY <1>3, <1>7, <1>10, <2>1
  <2>3. \A k \in 1 .. Len(Name[r.action]) : PartsOf(r)[5 + k] = body[1 + k]
    BY <1>3, <1>7, <1>10, <2>1
  <2> QED
    BY <1>3, <1>7, <1>10, <2>1, <2>2, <2>3
<1> QED
  <2>1. r.action = "none" => Len(PartsOf(r)) = 4
    BY <1>4, <1>7
  <2> QED
    BY <1>1, <1>7, <1>9, <1>10, <2>1

\* A request with more than its headers has a body.
LEMMA LongerHasBody ==
  ASSUME NEW r \in Requests
  PROVE  /\ Len(PartsOf(r)) \in Nat
         /\ Len(PartsOf(r)) > 4 => r.action # "none"
<1>1. PartsOf(r) \in Seq(Part) /\ (r.action = "none" => Len(PartsOf(r)) = 4)
  BY PartsAre
<1>2. Len(PartsOf(r)) \in Nat
  BY <1>1
<1>3. CASE r.action = "none"
  <2>0. Len(PartsOf(r)) = 4
    BY <1>1, <1>3, Zenon
  <2>1. ~(Len(PartsOf(r)) > 4)
    BY <2>0
  <2> QED
    BY <1>2, <2>1
<1>4. CASE r.action # "none"
  BY <1>2, <1>4
<1> QED
  BY <1>3, <1>4

\* What has come of a request and what has not, while nothing of it was read.
Cut == /\ buffer \in Seq(Part) /\ coming \in Seq(Part)
       /\ Len(buffer) + Len(coming) = Len(PartsOf(request))
       /\ \A k \in 1 .. Len(buffer) : buffer[k] = PartsOf(request)[k]
       /\ \A k \in 1 .. Len(coming) : coming[k] = PartsOf(request)[Len(buffer) + k]

RequestInv == /\ request \in Requests
              /\ open = TRUE \/ open = FALSE
              /\ open => sent = <<>> /\ Cut
              /\ WholeOrNothing

\* The parts that are looked for are found where they are, and nowhere else.
LEMMA PartsFound ==
  ASSUME request \in Requests, Cut
  PROVE  /\ Contains(buffer, "line") <=> Len(buffer) >= 2
         /\ Contains(buffer, "headers") <=> Len(buffer) >= 3
         /\ \A k \in 1 .. Len(buffer) : buffer[k] = "AlkoAction=" <=> k = 5
<1> DEFINE parts == PartsOf(request)
<1>1. /\ parts \in Seq(Part)
      /\ parts[1] = "begin" /\ parts[2] = "line" /\ parts[3] = "headers" /\ parts[4] = "others"
      /\ Len(parts) >= 5 => parts[5] = "AlkoAction="
      /\ Len(parts) >= 4
      /\ \A k \in 6 .. Len(parts) : parts[k] \notin {"AlkoAction=", "line", "headers"}
  <2>1. ASSUME NEW k \in 6 .. Len(parts)
        PROVE  parts[k] \notin {"AlkoAction=", "line", "headers"}
    <3>1. request.action \in DOMAIN Name /\ Len(parts) = 5 + Len(Name[request.action])
      <4>1. request.action # "none"
        <5>1. Len(parts) > 4
          BY <2>1, LongerHasBody
        <5> QED
          BY <5>1, LongerHasBody
      <4> QED
        BY <4>1, PartsAre
    <3>2. k - 5 \in 1 .. Len(Name[request.action]) /\ parts[5 + (k - 5)] = Name[request.action][k - 5]
      <4>1. k - 5 \in 1 .. Len(Name[request.action]) /\ 5 + (k - 5) = k
        <5>1. Len(Name[request.action]) \in Nat
          BY <3>1, NameParts
        <5>2. Len(parts) \in Nat /\ k <= Len(parts)
          BY <2>1, <3>1, <5>1
        <5> QED
          BY <2>1, <3>1, <5>1, <5>2
      <4>2. request.action # "none"
        BY <2>1, <3>1, LongerHasBody
      <4>3. \A j \in 1 .. Len(Name[request.action]) : parts[5 + j] = Name[request.action][j]
        BY <4>2, PartsAre
      <4> QED
        BY <4>1, <4>3
    <3> QED
      BY <2>1, <3>1, <3>2, NameParts
  <2> QED
    BY <2>1, PartsAre, NameParts
<1> HIDE DEF parts
<1>2. /\ Len(buffer) \in Nat /\ Len(buffer) <= Len(parts) /\ Len(parts) \in Nat
      /\ \A k \in 1 .. Len(buffer) : buffer[k] = parts[k]
  BY <1>1 DEF Cut, parts
<1>3. \A k \in 1 .. Len(buffer) : k \in 1 .. 5 \/ k \in 6 .. Len(parts)
  BY <1>2
<1>4. Contains(buffer, "line") <=> Len(buffer) >= 2
  BY <1>1, <1>2, <1>3 DEF Contains
<1>5. Contains(buffer, "headers") <=> Len(buffer) >= 3
  BY <1>1, <1>2, <1>3 DEF Contains
<1> QED
  BY <1>1, <1>2, <1>3, <1>4, <1>5

\* The value read is what has come of the button's name.
LEMMA ValueIs ==
  ASSUME request \in Requests, Cut
  PROVE  /\ Len(buffer) <= 5 => Value = <<>>
         /\ Len(buffer) > 5 =>
              /\ request.action \in DOMAIN Name
              /\ Value \in Seq(Part) /\ Len(Value) = Len(buffer) - 5 /\ Value # <<>>
              /\ \A k \in 1 .. Len(Value) : Value[k] = Name[request.action][k]
<1> DEFINE marks == {i \in 1 .. Len(buffer) : buffer[i] = "AlkoAction="}
<1>1. Len(buffer) \in Nat /\ buffer \in Seq(Part)
  BY DEF Cut
<1>2. Len(buffer) < 5 => marks = {}
  BY <1>1, PartsFound
<1>3. Len(buffer) >= 5 => marks = {5}
  BY <1>1, PartsFound
<1>4. Min({5}) = 5
  BY DEF Min
<1>5. Value = LET k == IF marks # {} THEN Min(marks) ELSE 0 IN IF k = 0 THEN <<>> ELSE SubSeq(buffer, k + 1, Len(buffer))
  BY DEF Value, SelectInSeq
<1> HIDE DEF marks
<1>6. Len(buffer) >= 5 => Value = SubSeq(buffer, 6, Len(buffer))
  <2>1. ASSUME Len(buffer) >= 5
        PROVE  Value = SubSeq(buffer, 6, Len(buffer))
    <3>1. marks = {5} /\ Min(marks) = 5
      BY <1>3, <1>4, <2>1
    <3> QED
      BY <1>5, <3>1
  <2> QED
    BY <2>1
<1>7. Len(buffer) <= 5 => Value = <<>>
  <2>1. Len(buffer) < 5 => Value = <<>>
    BY <1>2, <1>5
  <2>2. Len(buffer) = 5 => Value = <<>>
    <3>1. ASSUME Len(buffer) = 5
          PROVE  Value = <<>>
      <4>1. Value = SubSeq(buffer, 6, 5)
        BY <1>6, <3>1
      <4>2. SubSeq(buffer, 6, 5) = <<>>
        BY <1>1, SubSeqEmpty
      <4> QED
        BY <4>1, <4>2
    <3> QED
      BY <3>1
  <2>3. Len(buffer) <= 5 <=> Len(buffer) < 5 \/ Len(buffer) = 5
    <3>1. \A n \in Nat : n <= 5 <=> n < 5 \/ n = 5
      OBVIOUS
    <3> QED
      BY <1>1, <3>1, Zenon
  <2> QED
    BY <2>1, <2>2, <2>3, Zenon
<1>8. ASSUME Len(buffer) > 5
      PROVE  /\ request.action \in DOMAIN Name
             /\ Value \in Seq(Part) /\ Len(Value) = Len(buffer) - 5 /\ Value # <<>>
             /\ \A k \in 1 .. Len(Value) : Value[k] = Name[request.action][k]
  <2>1. Value = SubSeq(buffer, 6, Len(buffer))
    BY <1>1, <1>6, <1>8
  <2>2. Value \in Seq(Part) /\ Len(Value) = Len(buffer) - 5
    BY <1>1, <1>8, <2>1
  <2>3. \A k \in 1 .. Len(Value) : Value[k] = buffer[5 + k]
    BY <1>1, <1>8, <2>1, <2>2
  <2>4. Len(PartsOf(request)) >= Len(buffer) /\ Len(PartsOf(request)) \in Nat
    BY <1>1, PartsAre DEF Cut
  <2>5. request.action \in DOMAIN Name /\ Len(PartsOf(request)) = 5 + Len(Name[request.action])
        /\ \A k \in 1 .. Len(Name[request.action]) : PartsOf(request)[5 + k] = Name[request.action][k]
    <3>1. request.action # "none"
      BY <1>1, <1>8, <2>4, LongerHasBody
    <3> QED
      BY <3>1, PartsAre
  <2>6. ASSUME NEW k \in 1 .. Len(Value)
        PROVE  Value[k] = Name[request.action][k]
    <3>1. 5 + k \in 1 .. Len(buffer) /\ k \in 1 .. Len(Name[request.action])
      <4>1. PICK n \in Nat, b \in Nat : n = Len(Name[request.action]) /\ b = Len(buffer)
        BY <1>1, <2>5, NameParts
      <4>2. k \in Nat /\ k >= 1 /\ k <= b - 5 /\ b <= 5 + n
        BY <2>2, <2>4, <2>5, <4>1
      <4>3. 5 + k \in 1 .. b /\ k \in 1 .. n
        BY <4>2
      <4> QED
        BY <4>1, <4>3
    <3>2. buffer[5 + k] = PartsOf(request)[5 + k]
      BY <3>1 DEF Cut
    <3>3. PartsOf(request)[5 + k] = Name[request.action][k]
      BY <2>5, <3>1
    <3> QED
      BY <2>3, <3>2, <3>3
  <2>7. Value # <<>>
    <3>1. PICK b \in Nat : b > 5 /\ Len(Value) = b - 5
      BY <1>1, <1>8, <2>2
    <3>2. b - 5 # 0
      BY <3>1
    <3>3. Len(Value) # 0
      BY <3>1, <3>2
    <3> QED
      BY <3>3
  <2> QED
    BY <2>2, <2>5, <2>6, <2>7
<1> QED
  BY <1>7, <1>8

\* A POST: what was pressed, or nothing, and nothing only when its name has not come as a whole.
LEMMA PostObeys ==
  ASSUME request \in Requests, Cut, request.method = "POST", Post
  PROVE  /\ sent' \in {<<>>, Wanted}
         /\ coming = <<>> => /\ sent' = Wanted
                             /\ answer' = IF request.action # "none" THEN "process.html" ELSE Resource(request)
<1>1. Wanted = IF request.action # "none" THEN Commands[request.action] ELSE <<>>
  BY DEF Wanted
<1>2. coming = <<>> => Len(buffer) = Len(PartsOf(request))
  BY PartsAre DEF Cut
<1>3. Len(buffer) \in Nat
  BY DEF Cut
<1>4. CASE Value = <<>>
  <2>1. Give(Resource(request), <<>>)
    BY <1>4 DEF Post
  <2>2. coming = <<>> => request.action = "none"
    <3> SUFFICES ASSUME coming = <<>>, request.action # "none"
                 PROVE  FALSE
      OBVIOUS
    <3>1. request.action \in DOMAIN Name /\ Len(PartsOf(request)) = 5 + Len(Name[request.action])
      BY PartsAre
    <3>2. Len(Name[request.action]) \in {2, 3}
      BY <3>1, NameParts
    <3>3. Len(buffer) > 5
      <4>1. PICK n \in {2, 3} : n = Len(Name[request.action])
        BY <3>2
      <4>2. Len(buffer) = 5 + n
        BY <1>2, <3>1, <4>1
      <4>3. 5 + n > 5
        OBVIOUS
      <4> QED
        BY <4>2, <4>3
    <3> QED
      BY <1>4, <3>3, ValueIs
  <2> QED
    BY <1>1, <2>1, <2>2 DEF Give
<1>5. CASE Value # <<>>
  <2> DEFINE action == request.action
  <2>1. /\ action \in DOMAIN Name /\ Len(buffer) > 5
        /\ Value \in Seq(Part) /\ Len(Value) = Len(buffer) - 5
        /\ \A k \in 1 .. Len(Value) : Value[k] = Name[action][k]
    BY <1>3, <1>5, ValueIs
  <2>2. Len(Value) <= Len(Name[action]) /\ (coming = <<>> => Len(Value) = Len(Name[action]))
        /\ action # "none" /\ Len(Name[action]) \in Nat /\ Name[action] \in Seq(Part)
    <3>1. action # "none"
      BY <2>1 DEF Name
    <3>2. Len(PartsOf(request)) = 5 + Len(Name[action])
      BY <3>1, PartsAre
    <3>3. Len(Name[action]) \in Nat /\ Name[action] \in Seq(Part)
      BY <2>1, NameParts
    <3>4. Len(buffer) <= Len(PartsOf(request))
      <4>1. Len(coming) \in Nat /\ Len(buffer) + Len(coming) = Len(PartsOf(request))
        BY DEF Cut
      <4> QED
        BY <1>3, <4>1
    <3>5. PICK n \in Nat, b \in Nat : n = Len(Name[action]) /\ b = Len(buffer) /\ Len(Value) = b - 5 /\ b <= 5 + n
      BY <1>3, <2>1, <3>2, <3>3, <3>4
    <3>6. coming = <<>> => b = 5 + n
      BY <1>2, <3>2, <3>5
    <3> QED
      BY <3>1, <3>3, <3>5, <3>6
  <2>3. ASSUME NEW a \in DOMAIN Name, Asked(Value, a), Give("process.html", Commands[a])
        PROVE  sent' = Wanted /\ answer' = "process.html"
    <3>1. Value = Name[a]
      BY <2>3 DEF Asked
    <3>2. a = action
      BY <2>1, <2>2, <3>1, NamesDiffer
    <3>3. Wanted = Commands[action]
      BY <1>1, <2>2, Zenon
    <3>4. sent' = Commands[a] /\ answer' = "process.html"
      BY <2>3 DEF Give
    <3> QED
      BY <3>2, <3>3, <3>4, Zenon
  <2>4. ASSUME \A a \in DOMAIN Name : ~Asked(Value, a), Give("process.html", <<>>)
        PROVE  sent' = <<>> /\ coming # <<>>
    <3>1. coming = <<>> => Value = Name[action]
      BY <2>1, <2>2
    <3> QED
      BY <2>1, <2>4, <3>1 DEF Asked, Give
  <2> QED
    BY <1>5, <2>2, <2>3, <2>4 DEF Post
<1> QED
  BY <1>4, <1>5

\* Whatever is answered is what was asked for, or says that it was not understood.
LEMMA RespondObeys ==
  ASSUME request \in Requests, Cut, Respond, UNCHANGED <<request, coming>>
  PROVE  WholeOrNothing'
<1>1. request.method \in {"GET", "POST", "other"}
  BY RequestAssumption
<1>2. coming = <<>> => Contains(buffer, "headers")
  BY PartsFound, PartsAre, NameParts DEF Cut
<1>3. Wanted' = Wanted
  BY DEF Wanted
<1>4. request.resource \in Files \cup {""} => Resource(request) \in Files
  BY DEF Resource, Files
<1>5. CASE request.method = "other"
  BY <1>5 DEF Respond, Give, WholeOrNothing
<1>6. CASE request.method # "other" /\ ~Contains(buffer, "headers")
  BY <1>2, <1>6 DEF Respond, Error400, Give, WholeOrNothing
<1>7. CASE request.method # "other" /\ Contains(buffer, "headers") /\ Resource(request) \notin Files
  BY <1>4, <1>7 DEF Respond, Error404, Give, WholeOrNothing
<1>8. CASE request.method = "POST" /\ Contains(buffer, "headers") /\ Resource(request) \in Files
  <2>1. Post
    BY <1>8 DEF Respond
  <2> QED
    BY <1>3, <1>8, <2>1, PostObeys DEF WholeOrNothing, Resource
<1>9. CASE request.method = "GET" /\ Contains(buffer, "headers") /\ Resource(request) \in Files
  <2>1. Get
    BY <1>9 DEF Respond
  <2>2. /\ sent' = Wanted
        /\ answer' = Resource(request)
    <3>1. Wanted = IF request.resource = "check_status.html" THEN <<Datagram("GET_CONFIG", 0, 0), Datagram("GET_STATE", 0, 0)>> ELSE <<>>
      BY <1>9 DEF Wanted
    <3>2. Resource(request) = "check_status.html" <=> request.resource = "check_status.html"
      BY DEF Resource
    <3> QED
      BY <2>1, <3>1, <3>2 DEF Get, Give
  <2> QED
    BY <1>3, <1>9, <2>2 DEF WholeOrNothing, Resource
<1> QED
  BY <1>1, <1>5, <1>6, <1>7, <1>8, <1>9 DEF Respond

\* A step of a request.
LEMMA RequestStep == RequestInv /\ [RequestNext]_requestVars => RequestInv'
<1> SUFFICES ASSUME RequestInv, [RequestNext]_requestVars
             PROVE  RequestInv'
  OBVIOUS
<1>1. CASE Arrive
  <2>1. open /\ coming # <<>> /\ buffer' = Append(buffer, Head(coming)) /\ coming' = Tail(coming)
        /\ UNCHANGED <<request, open, sent, answer>> /\ Cut
    BY <1>1 DEF Arrive, RequestInv
  <2>2. PartsOf(request)' = PartsOf(request)
    BY <2>1 DEF PartsOf
  <2>3. Cut'
    <3>1. /\ buffer' \in Seq(Part) /\ Len(buffer') = Len(buffer) + 1
          /\ \A k \in 1 .. Len(buffer) : buffer'[k] = buffer[k]
          /\ buffer'[Len(buffer) + 1] = coming[1]
      BY <2>1 DEF Cut
    <3>2. /\ coming' \in Seq(Part) /\ Len(coming') = Len(coming) - 1
          /\ \A k \in 1 .. Len(coming') : coming'[k] = coming[k + 1]
      BY <2>1 DEF Cut
    <3>3. ASSUME NEW k \in 1 .. Len(buffer')
          PROVE  buffer'[k] = PartsOf(request)[k]
      <4>1. CASE k = Len(buffer) + 1
        BY <2>1, <3>1, <4>1 DEF Cut
      <4>2. CASE k # Len(buffer) + 1
        BY <2>1, <3>1, <4>2 DEF Cut
      <4> QED
        BY <4>1, <4>2
    <3>4. ASSUME NEW k \in 1 .. Len(coming')
          PROVE  coming'[k] = PartsOf(request)[Len(buffer') + k]
      <4>1. k + 1 \in 1 .. Len(coming) /\ Len(buffer) + (k + 1) = Len(buffer') + k
        BY <2>1, <3>1, <3>2 DEF Cut
      <4> QED
        BY <2>1, <3>2, <4>1 DEF Cut
    <3> QED
      BY <2>1, <2>2, <3>1, <3>2, <3>3, <3>4 DEF Cut
  <2>4. WholeOrNothing'
    BY <2>1 DEF RequestInv, WholeOrNothing
  <2> QED
    BY <2>1, <2>3, <2>4 DEF RequestInv
<1>2. CASE ReadyRead
  <2>1. CASE ~Contains(buffer, "line") /\ UNCHANGED <<buffer, open, sent, answer>>
    BY <1>2, <2>1 DEF ReadyRead, RequestInv, Cut, PartsOf, WholeOrNothing, Wanted
  <2>2. CASE Respond /\ open' = FALSE
    BY <1>2, <2>2, RespondObeys DEF ReadyRead, RequestInv
  <2> QED
    BY <1>2, <2>1, <2>2 DEF ReadyRead
<1>3. CASE UNCHANGED requestVars
  BY <1>3 DEF requestVars, RequestInv, Cut, PartsOf, WholeOrNothing, Wanted
<1> QED
  BY <1>1, <1>2, <1>3 DEF RequestNext

LEMMA RequestStart == RequestInit => RequestInv
<1> SUFFICES ASSUME RequestInit
             PROVE  RequestInv
  OBVIOUS
<1>1. PartsOf(request) \in Seq(Part) /\ Len(PartsOf(request)) >= 4
  BY PartsAre, NameParts DEF RequestInit
<1> QED
  BY <1>1 DEF RequestInit, RequestInv, Cut, WholeOrNothing

\* WholeOrNothing: wherever a request is cut, the machine is asked what was wanted or nothing
\* (httphandler.cpp:41-58, 137-219).
THEOREM RequestWhole == RequestSpec => []WholeOrNothing
<1>1. RequestInv => WholeOrNothing
  BY DEF RequestInv
<1> QED
  BY <1>1, RequestStart, RequestStep, PTL DEF RequestSpec

-----------------------------------------------------------------------------
(* The numbers of cards.                                                   *)

\* A set with 0 and every successor of its elements has every number: the least that it had
\* not would be the successor of one that it has.
LEMMA Induction ==
  ASSUME NEW S, 0 \in S, \A n \in Nat : n \in S => n + 1 \in S
  PROVE  Nat \subseteq S
<1> DEFINE T == Nat \ S
<1> DEFINE R == OpToRel(<, Nat)
<1> SUFFICES ASSUME T # {}
             PROVE  FALSE
  OBVIOUS
<1>1. IsWellFoundedOn(R, Nat)
  BY NatLessThanWellFounded
<1>2. T \subseteq Nat
  OBVIOUS
<1>3. \A x, y \in Nat : x < y => <<x, y>> \in R
  BY DEF OpToRel
<1> HIDE DEF R, T
<1>4. PICK x \in T : \A y \in T : ~(<<y, x>> \in R)
  BY <1>1, <1>2, WFMin
<1> USE DEF T
<1>5. x # 0 /\ x \in Nat
  BY <1>4
<1>6. x - 1 \in Nat /\ x - 1 < x
  BY <1>5
<1>7. x - 1 \in S
  BY <1>3, <1>4, <1>5, <1>6
<1>8. (x - 1) + 1 \in S
  BY <1>6, <1>7
<1> QED
  BY <1>4, <1>5, <1>8

\* The digits among the first n keys from those among the first n - 1.
NumberStep(card, g, n) ==
  IF n = 0 THEN <<>>
  ELSE IF card[n] \in KeyDigit THEN Append(g[n - 1], 48 + ((card[n] - 1) % 10)) ELSE g[n - 1]

\* The recursion of Numbers has a solution for every number of keys.
LEMMA NumbersExist ==
  ASSUME NEW card
  PROVE  \A m \in Nat : \E g : g = [n \in 0 .. m |-> NumberStep(card, g, n)]
<1> DEFINE S == {m \in Nat : \E g : g = [n \in 0 .. m |-> NumberStep(card, g, n)]}
<1>1. 0 \in S
  <2> DEFINE g == [n \in 0 .. 0 |-> <<>>]
  <2>1. g = [n \in 0 .. 0 |-> NumberStep(card, g, n)]
    BY DEF NumberStep
  <2> QED
    BY <2>1
<1>2. ASSUME NEW m \in Nat, m \in S
      PROVE  m + 1 \in S
  <2>1. PICK g : g = [n \in 0 .. m |-> NumberStep(card, g, n)]
    BY <1>2
  <2> DEFINE h == [n \in 0 .. m + 1 |-> NumberStep(card, g, n)]
  <2>2. \A n \in 0 .. m : h[n] = g[n]
    <3>1. \A n \in 0 .. m : g[n] = NumberStep(card, g, n)
      BY <2>1
    <3>2. \A n \in 0 .. m : n \in 0 .. m + 1
      OBVIOUS
    <3> QED
      BY <3>1, <3>2
  <2>3. ASSUME NEW n \in 0 .. m + 1
        PROVE  NumberStep(card, g, n) = NumberStep(card, h, n)
    <3>1. n # 0 => h[n - 1] = g[n - 1]
      <4>1. n # 0 => n - 1 \in 0 .. m
        OBVIOUS
      <4> HIDE DEF h
      <4> QED
        BY <2>2, <4>1
    <3> HIDE DEF h
    <3> QED
      BY <3>1 DEF NumberStep
  <2>4. h = [n \in 0 .. m + 1 |-> NumberStep(card, h, n)]
    BY <2>3
  <2> HIDE DEF h
  <2>5. m + 1 \in Nat
    OBVIOUS
  <2> QED
    BY <2>4, <2>5
<1> HIDE DEF S
<1>3. Nat \subseteq S
  BY <1>1, <1>2, Induction
<1> QED
  BY <1>3 DEF S

\* So Numbers is what its recursion says.
LEMMA NumbersAre ==
  ASSUME NEW card, Len(card) \in Nat
  PROVE  \A n \in 0 .. Len(card) : Numbers(card)[n] = NumberStep(card, Numbers(card), n)
<1>1. \E g : g = [n \in 0 .. Len(card) |-> NumberStep(card, g, n)]
  BY NumbersExist
<1>2. Numbers(card) = CHOOSE g : g = [n \in 0 .. Len(card) |-> NumberStep(card, g, n)]
  BY DEF Numbers, NumberStep
<1>3. Numbers(card) = [n \in 0 .. Len(card) |-> NumberStep(card, Numbers(card), n)]
  BY <1>1, <1>2
<1> QED
  BY <1>3

\* It is numbers that a card's keys make.
LEMMA NumbersTyped ==
  ASSUME NEW card \in Seq(KeyDigit \cup KeySilent)
  PROVE  \A n \in 0 .. Len(card) : Numbers(card)[n] \in Seq(Nat)
<1> DEFINE S == {n \in Nat : n <= Len(card) => Numbers(card)[n] \in Seq(Nat)}
<1>1. Len(card) \in Nat /\ (\A n \in 1 .. Len(card) : card[n] \in KeyDigit \cup KeySilent)
  OBVIOUS
<1>2. \A n \in 0 .. Len(card) : Numbers(card)[n] = NumberStep(card, Numbers(card), n)
  BY <1>1, NumbersAre
<1>3. 0 \in S
  <2>1. Numbers(card)[0] = <<>>
    BY <1>1, <1>2 DEF NumberStep
  <2>2. <<>> \in Seq(Nat) /\ 0 \in Nat
    OBVIOUS
  <2>3. Numbers(card)[0] \in Seq(Nat)
    BY <2>1, <2>2, Zenon
  <2> QED
    BY <2>2, <2>3, Zenon
<1>4. ASSUME NEW n \in Nat, n \in S
      PROVE  n + 1 \in S
  <2>1. ASSUME n + 1 <= Len(card)
        PROVE  Numbers(card)[n + 1] \in Seq(Nat)
    <3>1. Numbers(card)[n + 1] = NumberStep(card, Numbers(card), n + 1)
      BY <1>1, <1>2, <2>1
    <3>2. Numbers(card)[n] \in Seq(Nat)
      BY <1>1, <1>4, <2>1
    <3>3. NumberStep(card, Numbers(card), n + 1) =
            IF card[n + 1] \in KeyDigit THEN Append(Numbers(card)[n], 48 + ((card[n + 1] - 1) % 10)) ELSE Numbers(card)[n]
      BY DEF NumberStep
    <3>4. card[n + 1] \in KeyDigit => 48 + ((card[n + 1] - 1) % 10) \in Nat
      BY DEF KeyDigit
    <3>5. card[n + 1] \in KeyDigit => Append(Numbers(card)[n], 48 + ((card[n + 1] - 1) % 10)) \in Seq(Nat)
      BY <3>2, <3>4, AppendProperties
    <3>6. CASE card[n + 1] \in KeyDigit
      BY <3>1, <3>3, <3>5, <3>6, Zenon
    <3>7. CASE card[n + 1] \notin KeyDigit
      BY <3>1, <3>2, <3>3, <3>7, Zenon
    <3> QED
      BY <3>6, <3>7
  <2> QED
    BY <2>1
<1> HIDE DEF S
<1>5. Nat \subseteq S
  BY <1>3, <1>4, Induction
<1> QED
  BY <1>1, <1>5 DEF S

-----------------------------------------------------------------------------
(* Strokes.                                                                *)

StrokeSet == [card : Nat, key : Nat, down : BOOLEAN]

\* A stroke of a key that a swiped card has, or of the Enter behind them.
Legal(s) == /\ s \in StrokeSet
            /\ s.card \in 1 .. Len(swiped) /\ s.key \in 1 .. Len(swiped[s.card]) + 1

\* The first stroke of the card that is swiped next.
NextCard(s) == s = Stroke(Len(swiped) + 1, 1, TRUE)

\* What is read of a card when the reader comes to a stroke of it.
Shown(s) == IF s.down
            THEN IF s.key = 1 THEN <<>> ELSE Numbers(swiped[s.card])[s.key - 1]
            ELSE IF s.key <= Len(swiped[s.card]) THEN Numbers(swiped[s.card])[s.key] ELSE <<>>

\* The cards that are read by then.
Done(s) == IF s.down \/ s.key <= Len(swiped[s.card]) THEN s.card - 1 ELSE s.card

SwipedAre == swiped \in Seq(Cards)

LEMMA SwipedCard ==
  ASSUME SwipedAre, NEW c \in 1 .. Len(swiped)
  PROVE  /\ swiped[c] \in Seq(KeyDigit \cup KeySilent)
         /\ Len(swiped[c]) \in Nat
         /\ Digits(swiped[c]) \in Seq(Nat) /\ Len(Digits(swiped[c])) \in {12, 16}
         /\ \A n \in 0 .. Len(swiped[c]) : /\ Numbers(swiped[c])[n] \in Seq(Nat)
                                           /\ Numbers(swiped[c])[n] = NumberStep(swiped[c], Numbers(swiped[c]), n)
<1>1. swiped[c] \in Cards
  BY DEF SwipedAre
<1>2. swiped[c] \in Seq(KeyDigit \cup KeySilent) /\ Len(Digits(swiped[c])) \in {12, 16}
  BY <1>1, ReaderAssumption
<1>3. Len(swiped[c]) \in Nat
  BY <1>2
<1>4. \A n \in 0 .. Len(swiped[c]) : Numbers(swiped[c])[n] \in Seq(Nat)
  BY <1>2, NumbersTyped
<1>5. Digits(swiped[c]) \in Seq(Nat)
  BY <1>3, <1>4 DEF Digits
<1> QED
  BY <1>2, <1>3, <1>4, <1>5, NumbersAre

LEMMA ShownTyped ==
  ASSUME SwipedAre, NEW s, Legal(s) \/ NextCard(s)
  PROVE  Shown(s) \in Seq(Nat)
<1>1. CASE NextCard(s)
  <2>1. s.down = TRUE /\ s.key = 1
    BY <1>1 DEF NextCard, Stroke
  <2> QED
    BY <2>1 DEF Shown
<1>2. CASE Legal(s)
  <2>1. s.card \in 1 .. Len(swiped) /\ s.key \in 1 .. Len(swiped[s.card]) + 1 /\ s.key \in Nat
    BY <1>2 DEF Legal, StrokeSet
  <2>2. Len(swiped[s.card]) \in Nat /\ \A n \in 0 .. Len(swiped[s.card]) : Numbers(swiped[s.card])[n] \in Seq(Nat)
    BY <2>1, SwipedCard
  <2>3. s.key # 1 => s.key - 1 \in 0 .. Len(swiped[s.card])
    BY <2>1, <2>2
  <2>4. s.key <= Len(swiped[s.card]) => s.key \in 0 .. Len(swiped[s.card])
    BY <2>1, <2>2
  <2>5. <<>> \in Seq(Nat)
    OBVIOUS
  <2> QED
    BY <2>2, <2>3, <2>4, <2>5 DEF Shown
<1> QED
  BY <1>1, <1>2

\* A key that goes up is not looked at and need not be.
LEMMA UpKeeps ==
  ASSUME SwipedAre, NEW s, Legal(s), ~s.down
  PROVE  /\ Legal(After(s)) \/ NextCard(After(s))
         /\ Shown(After(s)) = Shown(s) /\ Done(After(s)) = Done(s) /\ After(s).down = TRUE
<1>1. s.card \in 1 .. Len(swiped) /\ s.key \in 1 .. Len(swiped[s.card]) + 1 /\ s.key \in Nat /\ s.card \in Nat
  BY DEF Legal, StrokeSet
<1>2. Len(swiped[s.card]) \in Nat /\ Len(swiped) \in Nat
  BY <1>1, SwipedCard DEF SwipedAre
<1>3. CASE s.key <= Len(swiped[s.card])
  <2>1. After(s) = Stroke(s.card, s.key + 1, TRUE)
    BY <1>3 DEF After
  <2>2. After(s).card = s.card /\ After(s).key = s.key + 1 /\ After(s).down = TRUE /\ After(s) \in StrokeSet
    BY <1>1, <2>1 DEF Stroke, StrokeSet
  <2>3. Shown(After(s)) = Numbers(swiped[s.card])[s.key] /\ Shown(s) = Numbers(swiped[s.card])[s.key]
    <3>1. s.key + 1 # 1 /\ (s.key + 1) - 1 = s.key
      BY <1>1
    <3> QED
      BY <1>3, <2>2, <3>1 DEF Shown
  <2>4. Done(After(s)) = s.card - 1 /\ Done(s) = s.card - 1
    BY <1>3, <2>2 DEF Done
  <2>5. Legal(After(s))
    BY <1>1, <1>2, <1>3, <2>2 DEF Legal
  <2> QED
    BY <2>2, <2>3, <2>4, <2>5
<1>4. CASE ~(s.key <= Len(swiped[s.card]))
  <2>1. After(s) = Stroke(s.card + 1, 1, TRUE)
    BY <1>4 DEF After
  <2>2. After(s).card = s.card + 1 /\ After(s).key = 1 /\ After(s).down = TRUE /\ After(s) \in StrokeSet
    BY <1>1, <2>1 DEF Stroke, StrokeSet
  <2>3. Shown(After(s)) = <<>> /\ Shown(s) = <<>>
    BY <1>4, <2>2 DEF Shown
  <2>4. Done(After(s)) = s.card /\ Done(s) = s.card
    <3>1. (s.card + 1) - 1 = s.card
      BY <1>1
    <3> QED
      BY <1>4, <2>2, <3>1 DEF Done
  <2>5. Legal(After(s)) \/ NextCard(After(s))
    <3>1. CASE s.card = Len(swiped)
      BY <2>1, <3>1 DEF NextCard
    <3>2. CASE s.card # Len(swiped)
      <4>1. s.card + 1 \in 1 .. Len(swiped)
        BY <1>1, <1>2, <3>2
      <4>2. Len(swiped[s.card + 1]) \in Nat
        BY <4>1, SwipedCard
      <4> QED
        BY <2>2, <4>1, <4>2 DEF Legal
    <3> QED
      BY <3>1, <3>2
  <2> QED
    BY <2>2, <2>3, <2>4, <2>5
<1> QED
  BY <1>3, <1>4

\* A key that goes down: the Enter behind the whole number, a digit, or a key that is none.
LEMMA DownAdds ==
  ASSUME SwipedAre, NEW s, Legal(s), s.down
  PROVE  /\ Legal(After(s)) /\ ~After(s).down
         /\ Shown(s) \in Seq(Nat) /\ Shown(After(s)) \in Seq(Nat)
         /\ \/ /\ KeyOf(s) = KeyEnter
               /\ Shown(s) = Digits(swiped[s.card]) /\ Shown(After(s)) = <<>>
               /\ Done(s) = s.card - 1 /\ Done(After(s)) = s.card
            \/ /\ KeyOf(s) \in KeyDigit
               /\ Shown(After(s)) = Append(Shown(s), Character(KeyOf(s))) /\ Done(After(s)) = Done(s)
            \/ /\ KeyOf(s) \in KeySilent
               /\ Shown(After(s)) = Shown(s) /\ Done(After(s)) = Done(s)
<1> DEFINE card == swiped[s.card]
<1>1. s.card \in 1 .. Len(swiped) /\ s.key \in 1 .. Len(card) + 1 /\ s.key \in Nat /\ s.card \in Nat
  BY DEF Legal, StrokeSet
<1>2. /\ Len(card) \in Nat /\ card \in Seq(KeyDigit \cup KeySilent)
      /\ \A n \in 0 .. Len(card) : Numbers(card)[n] = NumberStep(card, Numbers(card), n)
  BY <1>1, SwipedCard
<1>3. After(s) = Stroke(s.card, s.key, FALSE)
  BY DEF After
<1>4. After(s).card = s.card /\ After(s).key = s.key /\ After(s).down = FALSE /\ After(s) \in StrokeSet
  BY <1>1, <1>3 DEF Stroke, StrokeSet
<1>5. Legal(After(s))
  BY <1>1, <1>4 DEF Legal
<1>6. Shown(s) \in Seq(Nat) /\ Shown(After(s)) \in Seq(Nat)
  BY <1>5, ShownTyped
<1>7. Numbers(card)[0] = <<>>
  BY <1>2 DEF NumberStep
<1>8. Shown(s) = Numbers(card)[s.key - 1]
  BY <1>1, <1>7 DEF Shown
<1>9. CASE s.key = Len(card) + 1
  <2>1. KeyOf(s) = KeyEnter
    BY <1>1, <1>2, <1>9 DEF KeyOf
  <2>2. Shown(s) = Digits(card)
    BY <1>2, <1>8, <1>9 DEF Digits
  <2>3. Shown(After(s)) = <<>>
    BY <1>2, <1>4, <1>9 DEF Shown
  <2>4. Done(s) = s.card - 1 /\ Done(After(s)) = s.card
    BY <1>2, <1>4, <1>9 DEF Done
  <2> QED
    BY <1>4, <1>5, <1>6, <2>1, <2>2, <2>3, <2>4
<1>10. CASE s.key # Len(card) + 1
  <2>1. s.key \in 1 .. Len(card)
    BY <1>1, <1>2, <1>10
  <2>2. KeyOf(s) = card[s.key] /\ card[s.key] \in KeyDigit \cup KeySilent
    BY <1>2, <2>1 DEF KeyOf
  <2>3. Shown(After(s)) = Numbers(card)[s.key]
    BY <1>2, <1>4, <2>1 DEF Shown
  <2>4. Done(s) = s.card - 1 /\ Done(After(s)) = s.card - 1
    BY <1>2, <1>4, <2>1 DEF Done
  <2>5. Numbers(card)[s.key] = IF card[s.key] \in KeyDigit
                              THEN Append(Numbers(card)[s.key - 1], 48 + ((card[s.key] - 1) % 10))
                              ELSE Numbers(card)[s.key - 1]
    BY <1>1, <1>2, <2>1 DEF NumberStep
  <2>6. CASE card[s.key] \in KeyDigit
    <3>1. 48 + ((card[s.key] - 1) % 10) = Character(card[s.key])
      BY <2>6 DEF KeyDigit, Character
    <3> QED
      BY <1>4, <1>5, <1>6, <1>8, <2>2, <2>3, <2>4, <2>5, <2>6, <3>1
  <2>7. CASE card[s.key] \notin KeyDigit
    BY <1>4, <1>5, <1>6, <1>8, <2>2, <2>3, <2>4, <2>5, <2>7
  <2> QED
    BY <2>6, <2>7
<1> QED
  BY <1>9, <1>10

-----------------------------------------------------------------------------
(* Signals.                                                                *)

SignalsAre == /\ data \in Seq(Nat) /\ queue \in Seq(Seq(Nat)) /\ customers \in Seq(Seq(Nat))
              /\ running = TRUE \/ running = FALSE

LEMMA CustomerIs ==
  ASSUME NEW d \in Seq(Nat)
  PROVE  /\ Customer(d) \in Seq(Nat)
         /\ Len(d) \in {12, 16} => Customer(d) = SubSeq(d, 7, Len(d))
         /\ Len(d) \notin {12, 16} => Customer(d) = d
<1>1. Len(d) \in Nat /\ \A k \in 1 .. Len(d) : d[k] \in Nat
  OBVIOUS
<1>2. CASE Len(d) = 16
  <2>1. Customer(d) = SubSeq(d, 7, 16)
    BY <1>2 DEF Customer, Right
  <2>2. \A k \in 7 .. 16 : d[k] \in Nat
    <3>1. \A k \in 7 .. 16 : k \in 1 .. 16
      OBVIOUS
    <3>2. \A k \in 1 .. 16 : d[k] \in Nat
      BY <1>1, <1>2, Zenon
    <3> QED
      BY <3>1, <3>2, Zenon
  <2>3. SubSeq(d, 7, 16) \in Seq(Nat)
    <3>1. 7 \in Int /\ 16 \in Int
      OBVIOUS
    <3> QED
      BY <2>2, <3>1, SubSeqProperties
  <2> QED
    BY <1>2, <2>1, <2>3
<1>3. CASE Len(d) = 12
  <2>1. Customer(d) = SubSeq(d, 7, 12)
    BY <1>3 DEF Customer, Right
  <2>2. \A k \in 7 .. 12 : d[k] \in Nat
    <3>1. \A k \in 7 .. 12 : k \in 1 .. 12
      OBVIOUS
    <3>2. \A k \in 1 .. 12 : d[k] \in Nat
      BY <1>1, <1>3, Zenon
    <3> QED
      BY <3>1, <3>2, Zenon
  <2>3. SubSeq(d, 7, 12) \in Seq(Nat)
    <3>1. 7 \in Int /\ 12 \in Int
      OBVIOUS
    <3> QED
      BY <2>2, <3>1, SubSeqProperties
  <2> QED
    BY <1>3, <2>1, <2>3
<1>4. CASE Len(d) \notin {12, 16}
  BY <1>4 DEF Customer
<1> QED
  BY <1>2, <1>3, <1>4

LEMMA SignalledIs ==
  ASSUME SignalsAre
  PROVE  /\ Signalled \in Seq(Seq(Nat))
         /\ Len(Signalled) = Len(customers) + Len(queue)
         /\ Len(Signalled) \in Nat /\ Len(customers) \in Nat /\ Len(queue) \in Nat
         /\ \A k \in 1 .. Len(customers) + Len(queue) :
              Signalled[k] = IF k <= Len(customers) THEN customers[k] ELSE Customer(queue[k - Len(customers)])
<1> DEFINE called == [k \in DOMAIN queue |-> Customer(queue[k])]
<1>1. Len(queue) \in Nat /\ Len(customers) \in Nat /\ DOMAIN queue = 1 .. Len(queue) /\ customers \in Seq(Seq(Nat))
  BY DEF SignalsAre
<1>2. \A k \in 1 .. Len(queue) : queue[k] \in Seq(Nat)
  BY DEF SignalsAre
<1>3. \A k \in 1 .. Len(queue) : Customer(queue[k]) \in Seq(Nat)
  BY <1>2, CustomerIs
<1>4. called \in Seq(Seq(Nat)) /\ Len(called) = Len(queue) /\ \A k \in 1 .. Len(queue) : called[k] = Customer(queue[k])
  <2>1. called = [k \in 1 .. Len(queue) |-> Customer(queue[k])]
    BY <1>1
  <2> QED
    BY <1>1, <1>3, <2>1, IsASeq
<1> HIDE DEF called
<1>5. Signalled = customers \o called
  BY DEF Signalled, called
<1>6. /\ customers \o called \in Seq(Seq(Nat))
      /\ Len(customers \o called) = Len(customers) + Len(called)
      /\ \A k \in 1 .. Len(customers) + Len(called) :
           (customers \o called)[k] = IF k <= Len(customers) THEN customers[k] ELSE called[k - Len(customers)]
  BY <1>1, <1>4, ConcatProperties
<1>7. /\ Signalled \in Seq(Seq(Nat))
      /\ Len(Signalled) = Len(customers) + Len(queue)
      /\ \A k \in 1 .. Len(customers) + Len(queue) :
           Signalled[k] = IF k <= Len(customers) THEN customers[k] ELSE called[k - Len(customers)]
  BY <1>4, <1>5, <1>6
<1>8. \A k \in 1 .. Len(customers) + Len(queue) : ~(k <= Len(customers)) => k - Len(customers) \in 1 .. Len(queue)
  BY <1>1
<1>9. ASSUME NEW k \in 1 .. Len(customers) + Len(queue)
      PROVE  Signalled[k] = IF k <= Len(customers) THEN customers[k] ELSE Customer(queue[k - Len(customers)])
  <2>1. CASE k <= Len(customers)
    BY <1>7, <2>1
  <2>2. CASE ~(k <= Len(customers))
    <3>1. Signalled[k] = called[k - Len(customers)]
      BY <1>7, <2>2
    <3>2. called[k - Len(customers)] = Customer(queue[k - Len(customers)])
      BY <1>4, <1>8, <2>2
    <3> QED
      BY <2>2, <3>1, <3>2
  <2> QED
    BY <2>1, <2>2
<1>10. Len(Signalled) \in Nat
  BY <1>1, <1>7
<1> QED
  BY <1>1, <1>7, <1>9, <1>10

\* A signal adds the customer that it names behind the others.
LEMMA SignalAdds ==
  ASSUME SignalsAre, Signal, UNCHANGED <<customers, running>> \/ (UNCHANGED customers /\ running' = FALSE)
  PROVE  /\ SignalsAre'
         /\ Len(Signalled)' = Len(Signalled) + 1
         /\ \A k \in 1 .. Len(Signalled) : Signalled'[k] = Signalled[k]
         /\ Signalled'[Len(Signalled) + 1] = Customer(data)
<1>1. /\ queue' \in Seq(Seq(Nat)) /\ Len(queue') = Len(queue) + 1 /\ Len(queue) \in Nat
      /\ \A k \in 1 .. Len(queue) : queue'[k] = queue[k]
      /\ queue'[Len(queue) + 1] = data
  BY DEF SignalsAre, Signal
<1>2. SignalsAre'
  BY <1>1 DEF SignalsAre, Signal
<1>3. /\ Len(Signalled)' = Len(customers) + Len(queue')
      /\ \A k \in 1 .. Len(customers) + Len(queue') :
           Signalled'[k] = IF k <= Len(customers) THEN customers[k] ELSE Customer(queue'[k - Len(customers)])
  <2>1. /\ Len(Signalled)' = Len(customers)' + Len(queue)'
        /\ \A k \in 1 .. Len(customers)' + Len(queue)' :
             Signalled'[k] = IF k <= Len(customers)' THEN customers'[k] ELSE Customer(queue'[k - Len(customers)'])
    <3>1. (SignalsAre => /\ Len(Signalled) = Len(customers) + Len(queue)
                        /\ \A k \in 1 .. Len(customers) + Len(queue) :
                             Signalled[k] = IF k <= Len(customers) THEN customers[k] ELSE Customer(queue[k - Len(customers)]))'
      BY SignalledIs, PTL
    <3> QED
      BY <1>2, <3>1 DEF Customer, Right
  <2>2. customers' = customers
    OBVIOUS
  <2> QED
    BY <2>1, <2>2
<1>4. Len(customers) \in Nat /\ Len(Signalled) = Len(customers) + Len(queue)
  BY SignalledIs
<1>5. ASSUME NEW k \in 1 .. Len(Signalled)
      PROVE  Signalled'[k] = Signalled[k]
  <2>1. Signalled[k] = IF k <= Len(customers) THEN customers[k] ELSE Customer(queue[k - Len(customers)])
    BY <1>4, SignalledIs
  <2>2. Signalled'[k] = IF k <= Len(customers) THEN customers[k] ELSE Customer(queue'[k - Len(customers)])
    BY <1>1, <1>3, <1>4
  <2>3. ~(k <= Len(customers)) => k - Len(customers) \in 1 .. Len(queue)
    BY <1>1, <1>4
  <2> QED
    BY <1>1, <2>1, <2>2, <2>3
<1>6. Signalled'[Len(Signalled) + 1] = Customer(data)
  <2>1. Len(Signalled) + 1 \in 1 .. Len(customers) + Len(queue') /\ ~(Len(Signalled) + 1 <= Len(customers))
        /\ (Len(Signalled) + 1) - Len(customers) = Len(queue) + 1
    BY <1>1, <1>4
  <2> QED
    BY <1>1, <1>3, <2>1
<1> QED
  BY <1>1, <1>2, <1>3, <1>4, <1>5, <1>6

\* The customer that a signal names is the same before and after the daemon takes it.
LEMMA TakingKeeps ==
  ASSUME SignalsAre, NewCustomer
  PROVE  /\ SignalsAre'
         /\ Len(Signalled)' = Len(Signalled)
         /\ \A k \in 1 .. Len(Signalled) : Signalled'[k] = Signalled[k]
<1>1. queue # <<>> /\ queue \in Seq(Seq(Nat)) /\ customers \in Seq(Seq(Nat))
      /\ customers' = Append(customers, Customer(Head(queue))) /\ queue' = Tail(queue)
      /\ UNCHANGED <<data, running>>
  BY DEF NewCustomer, SignalsAre
<1>2. /\ queue' \in Seq(Seq(Nat)) /\ Len(queue') = Len(queue) - 1 /\ Len(queue) \in Nat /\ Len(queue) >= 1
      /\ \A k \in 1 .. Len(queue) - 1 : queue'[k] = queue[k + 1]
      /\ Head(queue) = queue[1] /\ queue[1] \in Seq(Nat)
  BY <1>1
<1>3. Customer(Head(queue)) \in Seq(Nat)
  BY <1>2, CustomerIs
<1>4. /\ customers' \in Seq(Seq(Nat)) /\ Len(customers') = Len(customers) + 1 /\ Len(customers) \in Nat
      /\ \A k \in 1 .. Len(customers) : customers'[k] = customers[k]
      /\ customers'[Len(customers) + 1] = Customer(Head(queue))
  <2>1. Len(customers) \in Nat
    BY <1>1
  <2> HIDE DEF Customer
  <2>2. PICK c \in Seq(Nat) : c = Customer(Head(queue))
    BY <1>3
  <2>3. customers' = Append(customers, c)
    BY <1>1, <2>2
  <2>4. /\ customers' \in Seq(Seq(Nat)) /\ Len(customers') = Len(customers) + 1
        /\ \A k \in 1 .. Len(customers) : customers'[k] = customers[k]
        /\ customers'[Len(customers) + 1] = c
    BY <1>1, <2>3
  <2> QED
    BY <2>1, <2>2, <2>4
<1>5. SignalsAre'
  BY <1>1, <1>2, <1>4 DEF SignalsAre
<1>6. /\ Len(Signalled)' = Len(customers)' + Len(queue)'
      /\ \A k \in 1 .. Len(customers)' + Len(queue)' :
           Signalled'[k] = IF k <= Len(customers)' THEN customers'[k] ELSE Customer(queue'[k - Len(customers)'])
  <2>1. (SignalsAre => /\ Len(Signalled) = Len(customers) + Len(queue)
                       /\ \A k \in 1 .. Len(customers) + Len(queue) :
                            Signalled[k] = IF k <= Len(customers) THEN customers[k] ELSE Customer(queue[k - Len(customers)]))'
    BY SignalledIs, PTL
  <2> QED
    BY <1>5, <2>1 DEF Customer, Right
<1>7. Len(Signalled) = Len(customers) + Len(queue)
  BY SignalledIs
<1>8. Len(Signalled)' = Len(Signalled)
  BY <1>2, <1>4, <1>6, <1>7
<1>9. ASSUME NEW k \in 1 .. Len(Signalled)
      PROVE  Signalled'[k] = Signalled[k]
  <2>1. Signalled[k] = IF k <= Len(customers) THEN customers[k] ELSE Customer(queue[k - Len(customers)])
    BY <1>7, SignalledIs
  <2>2. Signalled'[k] = IF k <= Len(customers) + 1 THEN customers'[k] ELSE Customer(queue'[k - (Len(customers) + 1)])
    BY <1>2, <1>4, <1>6, <1>7
  <2>3. CASE k <= Len(customers)
    BY <1>4, <2>1, <2>2, <2>3
  <2>4. CASE k = Len(customers) + 1
    <3>1. ~(k <= Len(customers)) /\ k - Len(customers) = 1 /\ k <= Len(customers) + 1
      BY <1>4, <2>4
    <3> QED
      BY <1>2, <1>4, <2>1, <2>2, <2>4, <3>1
  <2>5. CASE k > Len(customers) + 1
    <3>1. /\ ~(k <= Len(customers)) /\ ~(k <= Len(customers) + 1)
          /\ k - (Len(customers) + 1) \in 1 .. Len(queue) - 1
          /\ (k - (Len(customers) + 1)) + 1 = k - Len(customers)
      BY <1>2, <1>4, <1>7, <2>5
    <3> QED
      BY <1>2, <2>1, <2>2, <3>1
  <2> QED
    BY <1>4, <2>3, <2>4, <2>5
<1> QED
  BY <1>5, <1>8, <1>9

-----------------------------------------------------------------------------
(* The invariant.                                                          *)

\* The stroke that is looked at next.
Cursor == IF waiting = <<>> THEN stroke ELSE waiting[1]

StrokeIs == Legal(stroke) \/ NextCard(stroke)

\* The strokes that wait follow each other, and the next one follows them.
ChainIs == /\ waiting \in Seq(StrokeSet)
           /\ \A k \in 1 .. Len(waiting) :
                /\ Legal(waiting[k])
                /\ After(waiting[k]) = IF k < Len(waiting) THEN waiting[k + 1] ELSE stroke

\* What the reader has when it comes to a stroke and no key was missed.
ExactAt(t) == data = Shown(t) /\ Len(Signalled) = Done(t)

\* What it has when one was: all of it, one digit less, or a number more.
NearAt(t) == data = Shown(t) \/ Len(data) - Len(Shown(t)) \in {-1, 12, 16}

\* The first n signals name the holders of the first n cards.
Fits(n) == n <= Len(swiped) /\ \A k \in 1 .. n : Signalled[k] = Holder(swiped[k])

\* Each of the first n signals names the holder of a card or nobody.
Named(n) == \A k \in 1 .. n : \/ Signalled[k] \in {Holder(swiped[c]) : c \in 1 .. Len(swiped)}
                              \/ Len(Signalled[k]) \notin {6, 10}

\* The signals that count, all but the one at the end of the thread.
Count == IF running THEN Len(Signalled) ELSE Len(Signalled) - 1

ReaderInv == /\ SwipedAre /\ StrokeIs /\ ChainIs /\ SignalsAre
             /\ missed \in Nat /\ Count \in Nat
             /\ missed = 0 => Fits(Count)
             /\ missed = 0 /\ running => ExactAt(Cursor)
             /\ missed <= 1 => Named(Count)
             /\ missed <= 1 /\ running => NearAt(Cursor)

LEMMA WholeIs ==
  ASSUME SignalsAre, Count \in Nat
  PROVE  /\ Whole \in Seq(Seq(Nat)) /\ Len(Whole) = Count
         /\ \A k \in 1 .. Count : Whole[k] = Signalled[k]
<1>1. Signalled \in Seq(Seq(Nat)) /\ Len(Signalled) \in Nat
  BY SignalledIs
<1>2. CASE running
  BY <1>1, <1>2 DEF Whole, Count
<1>3. CASE ~running
  <2> DEFINE n == Len(Signalled) - 1
  <2>1. Whole = SubSeq(Signalled, 1, n) /\ Count = n
    BY <1>3 DEF Whole, Count, Front
  <2>2. \A k \in 1 .. n : Signalled[k] \in Seq(Nat)
    BY <1>1
  <2>3. n \in Nat
    BY <2>1
  <2> HIDE DEF n
  <2>4. 1 \in Int /\ n \in Int
    BY <2>3
  <2>5. /\ Whole \in Seq(Seq(Nat))
        /\ Len(Whole) = IF 1 <= n THEN n - 1 + 1 ELSE 0
        /\ \A k \in 1 .. n - 1 + 1 : Whole[k] = Signalled[1 + k - 1]
    BY <2>1, <2>2, <2>4, SubSeqProperties
  <2>6. Len(Whole) = n
    BY <2>3, <2>5
  <2>7. \A k \in 1 .. n : Whole[k] = Signalled[k]
    <3>1. \A k \in 1 .. n : k \in 1 .. n - 1 + 1 /\ 1 + k - 1 = k
      BY <2>3
    <3> QED
      BY <2>5, <3>1
  <2> QED
    BY <2>1, <2>5, <2>6, <2>7
<1> QED
  BY <1>2, <1>3

LEMMA ReaderSafe ==
  ASSUME ReaderInv
  PROVE  ReadAsSwiped /\ NoStranger
<1>1. /\ Whole \in Seq(Seq(Nat)) /\ Len(Whole) = Count /\ Count \in Nat
      /\ \A k \in 1 .. Count : Whole[k] = Signalled[k]
  BY WholeIs DEF ReaderInv
<1>2. swiped \in Seq(Cards) /\ DOMAIN swiped = 1 .. Len(swiped) /\ Len(swiped) \in Nat /\ DOMAIN Whole = 1 .. Count
  <2>1. swiped \in Seq(Cards)
    BY DEF ReaderInv, SwipedAre
  <2>2. DOMAIN Whole = 1 .. Count
    BY <1>1
  <2> QED
    BY <2>1, <2>2
<1>3. ASSUME missed = 0
      PROVE  IsPrefix(Whole, [k \in DOMAIN swiped |-> Holder(swiped[k])])
  <2> DEFINE holders == [k \in DOMAIN swiped |-> Holder(swiped[k])]
  <2>1. Count <= Len(swiped) /\ \A k \in 1 .. Count : Whole[k] = Holder(swiped[k])
    BY <1>1, <1>3 DEF ReaderInv, Fits
  <2>2. Len(holders) = Len(swiped)
    BY <1>2
  <2>3. \A k \in 1 .. Len(swiped) : holders[k] = Holder(swiped[k])
    BY <1>2
  <2> HIDE DEF holders
  <2>4. SubSeq(Whole, 1, Count) = SubSeq(holders, 1, Count)
    <3>1. \A k \in 1 .. Count : Whole[k] = holders[k]
      BY <1>1, <1>2, <2>1, <2>3
    <3> DEFINE n == Count
    <3> DEFINE w == SubSeq(Whole, 1, n)
    <3> DEFINE h == SubSeq(holders, 1, n)
    <3>2. n \in Nat /\ 1 \in Int /\ n \in Int
      BY <1>1
    <3>3. (\A k \in 1 .. n : Whole[k] \in Seq(Nat)) /\ (\A k \in 1 .. n : holders[k] \in Seq(Nat))
      BY <1>1, <3>1
    <3> HIDE DEF n
    <3>4. w \in Seq(Seq(Nat)) /\ Len(w) = (IF 1 <= n THEN n - 1 + 1 ELSE 0) /\ \A k \in 1 .. n - 1 + 1 : w[k] = Whole[1 + k - 1]
      BY <3>2, <3>3, SubSeqProperties
    <3>5. h \in Seq(Seq(Nat)) /\ Len(h) = (IF 1 <= n THEN n - 1 + 1 ELSE 0) /\ \A k \in 1 .. n - 1 + 1 : h[k] = holders[1 + k - 1]
      BY <3>2, <3>3, SubSeqProperties
    <3> HIDE DEF w, h
    <3>6. Len(w) = n /\ Len(h) = n
      BY <3>2, <3>4, <3>5
    <3>7. \A k \in 1 .. n : w[k] = h[k]
      <4>1. \A k \in 1 .. n : Whole[k] = holders[k]
        BY <3>1 DEF n
      <4>2. \A k \in 1 .. n : k \in 1 .. n - 1 + 1 /\ 1 + k - 1 = k
        BY <3>2
      <4> QED
        BY <3>4, <3>5, <4>1, <4>2
    <3>8. w = h
      BY <3>4, <3>5, <3>6, <3>7, SeqEqual
    <3> QED
      BY <3>8 DEF w, h, n
  <2>5. Len(Whole) <= Len(holders) /\ SubSeq(Whole, 1, Len(Whole)) = SubSeq(holders, 1, Len(Whole))
    BY <1>1, <2>1, <2>2, <2>4
  <2> QED
    BY <2>5 DEF IsPrefix, holders
<1>4. ASSUME missed <= 1, NEW k \in DOMAIN Whole
      PROVE  Whole[k] \in {Holder(swiped[c]) : c \in DOMAIN swiped} \/ Len(Whole[k]) \notin {6, 10}
  <2>1. Named(Count)
    BY <1>4 DEF ReaderInv
  <2>2. k \in 1 .. Count
    BY <1>2
  <2> QED
    BY <1>1, <1>2, <2>1, <2>2 DEF Named
<1> QED
  BY <1>3, <1>4 DEF ReadAsSwiped, NoStranger

LEMMA ReaderStart == ReaderInit => ReaderInv
<1> SUFFICES ASSUME ReaderInit
             PROVE  ReaderInv
  OBVIOUS
<1>1. swiped = <<>> /\ stroke = Stroke(1, 1, TRUE) /\ waiting = <<>> /\ data = <<>> /\ missed = 0 /\ running = TRUE
      /\ queue = <<>> /\ customers = <<>>
  BY DEF ReaderInit
<1>2. SwipedAre /\ ChainIs
  BY <1>1 DEF SwipedAre, ChainIs
<1>3. SignalsAre
  BY <1>1 DEF SignalsAre
<1>4. NextCard(stroke)
  BY <1>1 DEF NextCard
<1>5. Len(Signalled) = 0
  BY <1>1, <1>3, SignalledIs
<1>6. Cursor = stroke /\ stroke.card = 1 /\ stroke.key = 1 /\ stroke.down = TRUE
  BY <1>1 DEF Cursor, Stroke
<1>7. Shown(Cursor) = <<>> /\ Done(Cursor) = 0
  BY <1>6 DEF Shown, Done
<1>8. ExactAt(Cursor) /\ NearAt(Cursor)
  BY <1>1, <1>5, <1>7 DEF ExactAt, NearAt
<1>9. Count = 0
  BY <1>1, <1>5 DEF Count
<1>10. Fits(0) /\ Named(0)
  BY <1>1 DEF Fits, Named
<1> QED
  BY <1>1, <1>2, <1>3, <1>4, <1>8, <1>9, <1>10 DEF ReaderInv, StrokeIs

\* A card more changes nothing about the strokes of those before.
LEMMA SwipeFrames ==
  ASSUME SwipedAre, NEW card \in Cards, swiped' = Append(swiped, card)
  PROVE  /\ SwipedAre' /\ Len(swiped') = Len(swiped) + 1 /\ Len(swiped) \in Nat
         /\ \A c \in 1 .. Len(swiped) : swiped'[c] = swiped[c]
         /\ Len(swiped'[Len(swiped) + 1]) \in Nat
         /\ \A s : Legal(s) => Legal(s)' /\ Shown(s)' = Shown(s) /\ Done(s)' = Done(s) /\ After(s)' = After(s)
<1>1. /\ Len(swiped') = Len(swiped) + 1 /\ Len(swiped) \in Nat /\ swiped' \in Seq(Cards)
      /\ \A c \in 1 .. Len(swiped) : swiped'[c] = swiped[c]
      /\ swiped'[Len(swiped) + 1] = card
  BY DEF SwipedAre
<1>2. Len(card) \in Nat
  <2>1. card \in Seq(KeyDigit \cup KeySilent)
    BY ReaderAssumption
  <2> QED
    BY <2>1
<1>3. ASSUME NEW s, Legal(s)
      PROVE  Legal(s)' /\ Shown(s)' = Shown(s) /\ Done(s)' = Done(s) /\ After(s)' = After(s)
  <2>1. s \in StrokeSet /\ s.card \in 1 .. Len(swiped) /\ s.key \in 1 .. Len(swiped[s.card]) + 1
    BY <1>3 DEF Legal
  <2>2. swiped'[s.card] = swiped[s.card] /\ s.card \in 1 .. Len(swiped')
    BY <1>1, <2>1
  <2>3. Legal(s)'
    BY <2>1, <2>2 DEF Legal
  <2>4. Shown(s)' = Shown(s)
    BY <2>2 DEF Shown
  <2>5. Done(s)' = Done(s)
    BY <2>2 DEF Done
  <2>6. After(s)' = After(s)
    BY <2>2 DEF After
  <2> QED
    BY <2>3, <2>4, <2>5, <2>6
<1> QED
  BY <1>1, <1>2, <1>3 DEF SwipedAre

LEMMA CursorIs ==
  ASSUME ChainIs
  PROVE  Cursor = stroke \/ Legal(Cursor)
<1>1. waiting # <<>> => Legal(waiting[1])
  BY DEF ChainIs
<1> QED
  BY <1>1 DEF Cursor

LEMMA SwipeStep == ReaderInv /\ Swipe => ReaderInv'
<1> SUFFICES ASSUME ReaderInv, Swipe
             PROVE  ReaderInv'
  OBVIOUS
<1>1. PICK card \in Cards : swiped' = Append(swiped, card)
  BY DEF Swipe
<1>2. /\ SwipedAre /\ StrokeIs /\ ChainIs /\ SignalsAre /\ stroke.card > Len(swiped)
      /\ UNCHANGED <<stroke, waiting, data, missed, running, queue, customers>>
  BY DEF ReaderInv, Swipe
<1>3. /\ SwipedAre' /\ Len(swiped') = Len(swiped) + 1 /\ Len(swiped) \in Nat
      /\ \A c \in 1 .. Len(swiped) : swiped'[c] = swiped[c]
      /\ Len(swiped'[Len(swiped) + 1]) \in Nat
  BY <1>1, <1>2, SwipeFrames
<1>4. \A s : Legal(s) => Legal(s)' /\ Shown(s)' = Shown(s) /\ Done(s)' = Done(s) /\ After(s)' = After(s)
  BY <1>1, <1>2, SwipeFrames
<1>5. stroke = Stroke(Len(swiped) + 1, 1, TRUE)
  <2>1. ~Legal(stroke)
    BY <1>2, <1>3 DEF Legal
  <2> QED
    BY <1>2, <2>1 DEF StrokeIs, NextCard
<1>6. /\ stroke.card = Len(swiped) + 1 /\ stroke.key = 1 /\ stroke.down = TRUE /\ stroke \in StrokeSet
  BY <1>3, <1>5 DEF Stroke, StrokeSet
<1>7. Legal(stroke)'
  <2>1. stroke.card \in 1 .. Len(swiped') /\ stroke.key \in 1 .. Len(swiped'[stroke.card]) + 1
    BY <1>3, <1>6
  <2> QED
    BY <1>2, <1>6, <2>1 DEF Legal
<1>8. Shown(stroke)' = Shown(stroke) /\ Done(stroke)' = Done(stroke)
  BY <1>2, <1>6 DEF Shown, Done
<1>9. ChainIs'
  <2>1. waiting \in Seq(StrokeSet) /\ waiting' = waiting /\ stroke' = stroke
    BY <1>2 DEF ChainIs
  <2>2. ASSUME NEW k \in 1 .. Len(waiting)
        PROVE  /\ Legal(waiting[k])'
               /\ After(waiting[k])' = IF k < Len(waiting) THEN waiting[k + 1] ELSE stroke
    <3>1. PICK s : s = waiting[k]
      OBVIOUS
    <3>2. Legal(s) /\ After(s) = IF k < Len(waiting) THEN waiting[k + 1] ELSE stroke
      BY <1>2, <3>1 DEF ChainIs
    <3>3. Legal(s)' /\ After(s)' = After(s)
      BY <1>4, <3>2
    <3>4. waiting'[k] = s
      BY <2>1, <3>1
    <3>5. Legal(waiting[k])' <=> Legal(s)'
      BY <3>4 DEF Legal
    <3>6. After(waiting[k])' = After(s)'
      BY <3>4 DEF After
    <3> QED
      BY <3>2, <3>3, <3>5, <3>6
  <2> QED
    BY <2>1, <2>2 DEF ChainIs
<1>10. Cursor' = Cursor /\ Shown(Cursor)' = Shown(Cursor) /\ Done(Cursor)' = Done(Cursor)
  <2>1. Cursor' = Cursor
    BY <1>2 DEF Cursor
  <2>2. CASE Cursor = stroke
    BY <1>2, <1>8, <2>1, <2>2 DEF Shown, Done
  <2>3. CASE Legal(Cursor)
    <3>1. PICK s : s = Cursor
      OBVIOUS
    <3>2. Shown(s)' = Shown(s) /\ Done(s)' = Done(s)
      BY <1>4, <2>3, <3>1
    <3> QED
      BY <2>1, <3>1, <3>2 DEF Shown, Done
  <2> QED
    BY <1>2, <2>1, <2>2, <2>3, CursorIs
<1>11. Signalled' = Signalled /\ Count' = Count
  BY <1>2 DEF Signalled, Count, Customer, Right
<1>12. \A c \in 1 .. Len(swiped) : Holder(swiped[c])' = Holder(swiped[c])
  <2> SUFFICES ASSUME NEW c \in 1 .. Len(swiped)
               PROVE  Holder(swiped[c])' = Holder(swiped[c])
    OBVIOUS
  <2>1. swiped'[c] = swiped[c]
    BY <1>3
  <2>2. Holder(swiped'[c]) = Holder(swiped[c])
    BY <2>1
  <2> QED
    BY <2>2
<1>13. Fits(Count) => Fits(Count)'
  <2>1. ASSUME Count <= Len(swiped), NEW k \in 1 .. Count, Signalled[k] = Holder(swiped[k])
        PROVE  Signalled'[k] = Holder(swiped[k])'
    <3>1. k \in 1 .. Len(swiped)
      BY <1>3, <2>1 DEF ReaderInv
    <3> QED
      BY <1>11, <1>12, <2>1, <3>1
  <2>2. Count <= Len(swiped) => Count <= Len(swiped')
    BY <1>3 DEF ReaderInv
  <2> QED
    BY <1>11, <2>1, <2>2 DEF Fits
<1>14. Named(Count) => Named(Count)'
  <2>1. ASSUME NEW k \in 1 .. Count, NEW c \in 1 .. Len(swiped), Signalled[k] = Holder(swiped[c])
        PROVE  \E d \in 1 .. Len(swiped') : Signalled'[k] = Holder(swiped[d])'
    <3>1. c \in 1 .. Len(swiped')
      BY <1>3
    <3> QED
      BY <1>11, <1>12, <2>1, <3>1
  <2> QED
    BY <1>11, <2>1 DEF Named
<1>15. SignalsAre'
  BY <1>2 DEF SignalsAre
<1>16. (ExactAt(Cursor) => ExactAt(Cursor)') /\ (NearAt(Cursor) => NearAt(Cursor)')
  BY <1>2, <1>10, <1>11 DEF ExactAt, NearAt
<1> QED
  BY <1>2, <1>3, <1>7, <1>9, <1>11, <1>13, <1>14, <1>15, <1>16 DEF ReaderInv, StrokeIs

\* A stroke more behind those that wait.
LEMMA PressStep == ReaderInv /\ Press => ReaderInv'
<1> SUFFICES ASSUME ReaderInv, Press
             PROVE  ReaderInv'
  OBVIOUS
<1>1. /\ SwipedAre /\ StrokeIs /\ ChainIs /\ SignalsAre /\ stroke.card <= Len(swiped) /\ Len(swiped) \in Nat
      /\ waiting' = Append(waiting, stroke) /\ stroke' = After(stroke)
      /\ UNCHANGED <<swiped, data, missed, running, queue, customers>>
  BY DEF ReaderInv, Press, SwipedAre
<1>2. Legal(stroke)
  <2>1. ~NextCard(stroke)
    BY <1>1 DEF NextCard, Stroke
  <2> QED
    BY <1>1, <2>1 DEF StrokeIs
<1>3. Legal(After(stroke)) \/ NextCard(After(stroke))
  BY <1>1, <1>2, UpKeeps, DownAdds
<1>4. StrokeIs'
  <2>1. PICK t : t = After(stroke)
    OBVIOUS
  <2>2. Legal(t) \/ NextCard(t)
    BY <1>3, <2>1
  <2>3. stroke' = t
    BY <1>1, <2>1
  <2> QED
    BY <1>1, <2>2, <2>3 DEF StrokeIs, Legal, NextCard
<1>5. /\ waiting \in Seq(StrokeSet) /\ Len(waiting) \in Nat /\ waiting' \in Seq(StrokeSet) /\ Len(waiting') = Len(waiting) + 1
      /\ \A k \in 1 .. Len(waiting) : waiting'[k] = waiting[k]
      /\ waiting'[Len(waiting) + 1] = stroke
  <2>1. waiting \in Seq(StrokeSet) /\ stroke \in StrokeSet
    BY <1>1, <1>2 DEF ChainIs, Legal
  <2> QED
    BY <1>1, <2>1
<1>6. ChainIs'
  <2>1. \A s : (Legal(s)' <=> Legal(s)) /\ After(s)' = After(s)
    BY <1>1 DEF Legal, After
  <2>2. ASSUME NEW k \in 1 .. Len(waiting')
        PROVE  /\ Legal(waiting[k])'
               /\ After(waiting[k])' = IF k < Len(waiting') THEN waiting'[k + 1] ELSE stroke'
    <3>1. PICK s : s = waiting'[k]
      OBVIOUS
    <3>2. Legal(s) /\ After(s) = IF k < Len(waiting') THEN waiting'[k + 1] ELSE stroke'
      <4>1. CASE k = Len(waiting) + 1
        <5>1. s = stroke /\ ~(k < Len(waiting'))
          BY <1>5, <3>1, <4>1
        <5> QED
          BY <1>1, <1>2, <5>1
      <4>2. CASE k # Len(waiting) + 1
        <5>1. k \in 1 .. Len(waiting) /\ k < Len(waiting')
          BY <1>5, <4>2
        <5>2. s = waiting[k]
          BY <1>5, <3>1, <5>1
        <5>3. Legal(s) /\ After(s) = IF k < Len(waiting) THEN waiting[k + 1] ELSE stroke
          BY <1>1, <5>1, <5>2 DEF ChainIs
        <5>4. k < Len(waiting) => k + 1 \in 1 .. Len(waiting)
          BY <1>5, <5>1
        <5>5. ~(k < Len(waiting)) => k + 1 = Len(waiting) + 1
          BY <1>5, <5>1
        <5> QED
          BY <1>5, <5>1, <5>3, <5>4, <5>5
      <4> QED
        BY <4>1, <4>2
    <3>3. (Legal(waiting[k])' <=> Legal(s)') /\ After(waiting[k])' = After(s)'
      BY <3>1 DEF Legal, After
    <3> QED
      BY <2>1, <3>2, <3>3
  <2> QED
    BY <1>5, <2>2 DEF ChainIs
<1>7. Cursor' = Cursor
  <2>1. CASE waiting = <<>>
    <3>1. Len(waiting) = 0
      BY <2>1
    <3>2. waiting'[1] = stroke /\ waiting' # <<>>
      BY <1>5, <3>1
    <3> QED
      BY <2>1, <3>2 DEF Cursor
  <2>2. CASE waiting # <<>>
    <3>1. 1 \in 1 .. Len(waiting)
      BY <1>5, <2>2
    <3>2. waiting'[1] = waiting[1] /\ waiting' # <<>>
      BY <1>5, <3>1
    <3> QED
      BY <2>2, <3>2 DEF Cursor
  <2> QED
    BY <2>1, <2>2
<1>8. Shown(Cursor)' = Shown(Cursor) /\ Done(Cursor)' = Done(Cursor)
  BY <1>1, <1>7 DEF Shown, Done
<1>9. Signalled' = Signalled /\ Count' = Count
  BY <1>1 DEF Signalled, Count, Customer, Right
<1>10. (Fits(Count) => Fits(Count)') /\ (Named(Count) => Named(Count)')
  BY <1>1, <1>9 DEF Fits, Named
<1>11. (ExactAt(Cursor) => ExactAt(Cursor)') /\ (NearAt(Cursor) => NearAt(Cursor)')
  BY <1>1, <1>8, <1>9 DEF ExactAt, NearAt
<1>12. SwipedAre' /\ SignalsAre'
  BY <1>1 DEF SwipedAre, SignalsAre
<1> QED
  BY <1>1, <1>4, <1>6, <1>9, <1>10, <1>11, <1>12 DEF ReaderInv

-----------------------------------------------------------------------------
(* Reading.                                                                *)

\* From a key that is down or one that is up to the next that goes down, if there is an up between.
Upto(u, v) == v = u \/ (Legal(u) /\ ~u.down /\ v = After(u))

LEMMA UptoKeeps ==
  ASSUME SwipedAre, NEW u, NEW v, Upto(u, v)
  PROVE  Shown(v) = Shown(u) /\ Done(v) = Done(u)
BY UpKeeps DEF Upto

LEMMA ChainStep ==
  ASSUME SwipedAre, ChainIs, NEW k \in 1 .. Len(waiting)
  PROVE  /\ Len(waiting) \in Nat /\ Legal(waiting[k])
         /\ \A j \in 1 .. Len(waiting) : j = k + 1 => After(waiting[k]) = waiting[j]
         /\ k = Len(waiting) => After(waiting[k]) = stroke
         /\ ~waiting[k].down => After(waiting[k]).down = TRUE
         /\ waiting[k].down => ~After(waiting[k]).down
<1>1. Len(waiting) \in Nat /\ Legal(waiting[k]) /\ After(waiting[k]) = IF k < Len(waiting) THEN waiting[k + 1] ELSE stroke
  BY DEF ChainIs
<1>2. PICK s : s = waiting[k]
  OBVIOUS
<1>3. ~s.down => After(s).down = TRUE
  BY <1>1, <1>2, UpKeeps
<1>4. s.down => ~After(s).down
  BY <1>1, <1>2, DownAdds
<1>5. ASSUME NEW j \in 1 .. Len(waiting), j = k + 1
      PROVE  After(waiting[k]) = waiting[j]
  <2>1. k < Len(waiting)
    BY <1>1, <1>5
  <2>2. After(waiting[k]) = waiting[k + 1]
    BY <1>1, <2>1, Zenon
  <2> QED
    BY <1>5, <2>2
<1>6. ASSUME k = Len(waiting)
      PROVE  After(waiting[k]) = stroke
  <2>1. ~(k < Len(waiting))
    BY <1>1, <1>6
  <2> QED
    BY <1>1, <2>1, Zenon
<1> QED
  BY <1>1, <1>2, <1>3, <1>4, <1>5, <1>6

\* The keys that go down behind the first stroke.
Downs == {k \in 2 .. Len(waiting) : waiting[k].down}

LEMMA DownsFinite ==
  ASSUME ChainIs
  PROVE  IsFiniteSet(Downs) /\ Cardinality(Downs) = Overlooked /\ Overlooked \in Nat
<1>1. Len(waiting) \in Nat
  BY DEF ChainIs
<1>2. IsFiniteSet(2 .. Len(waiting))
  <2>1. 2 \in Int /\ Len(waiting) \in Int
    BY <1>1
  <2> QED
    BY <2>1, FS_Interval
<1>3. Downs \in SUBSET (2 .. Len(waiting))
  BY DEF Downs
<1>4. IsFiniteSet(Downs)
  BY <1>2, <1>3, FS_Subset
<1>5. Cardinality(Downs) \in Nat
  BY <1>4, FS_CardinalityType
<1> QED
  BY <1>4, <1>5 DEF Overlooked, Downs

\* After a stroke with no key behind it that goes down comes at most its own up.
LEMMA SkipNone ==
  ASSUME SwipedAre, ChainIs, waiting # <<>>, Overlooked = 0
  PROVE  Upto(After(waiting[1]), stroke)
<1>1. Downs = {}
  BY DownsFinite, FS_EmptySet
<1>2. \A k \in 2 .. Len(waiting) : ~waiting[k].down
  BY <1>1 DEF Downs
<1>3. Len(waiting) \in Nat /\ Len(waiting) >= 1
  BY DEF ChainIs
<1>4. CASE Len(waiting) = 1
  <2>1. 1 \in 1 .. Len(waiting) /\ 1 = Len(waiting)
    BY <1>4
  <2>2. After(waiting[1]) = stroke
    BY <2>1, ChainStep
  <2> QED
    BY <2>2 DEF Upto
<1>5. CASE Len(waiting) = 2
  <2>1. 1 \in 1 .. Len(waiting) /\ 2 \in 1 .. Len(waiting) /\ 2 = 1 + 1 /\ 2 = Len(waiting) /\ 2 \in 2 .. Len(waiting)
    BY <1>5
  <2>2. After(waiting[1]) = waiting[2]
    BY <2>1, ChainStep
  <2>3. After(waiting[2]) = stroke /\ Legal(waiting[2]) /\ ~waiting[2].down
    BY <1>2, <2>1, ChainStep
  <2> QED
    BY <2>2, <2>3 DEF Upto
<1>6. CASE Len(waiting) > 2
  <2>1. 2 \in 1 .. Len(waiting) /\ 3 \in 1 .. Len(waiting) /\ 3 = 2 + 1 /\ 2 \in 2 .. Len(waiting) /\ 3 \in 2 .. Len(waiting)
    BY <1>3, <1>6
  <2>2. After(waiting[2]) = waiting[3] /\ ~waiting[2].down
    BY <1>2, <2>1, ChainStep
  <2>3. waiting[3].down = TRUE
    BY <2>1, <2>2, ChainStep
  <2> QED
    BY <1>2, <2>1, <2>3
<1>7. Len(waiting) = 1 \/ Len(waiting) = 2 \/ Len(waiting) > 2
  <2>1. \A n \in Nat : n >= 1 => n = 1 \/ n = 2 \/ n > 2
    OBVIOUS
  <2> QED
    BY <1>3, <2>1
<1> QED
  BY <1>4, <1>5, <1>6, <1>7

\* With one that does there are at most two ups besides.
LEMMA SkipOne ==
  ASSUME SwipedAre, ChainIs, waiting # <<>>, Overlooked = 1
  PROVE  \E t : Legal(t) /\ t.down /\ Upto(After(waiting[1]), t) /\ Upto(After(t), stroke)
<1>1. PICK m : Downs = {m}
  BY DownsFinite, FS_Singleton
<1>2. /\ m \in 2 .. Len(waiting) /\ waiting[m].down
      /\ \A k \in 2 .. Len(waiting) : waiting[k].down => k = m
  BY <1>1 DEF Downs
<1>3. Len(waiting) \in Nat /\ Len(waiting) >= 2 /\ m \in 1 .. Len(waiting) /\ m \in Nat
  BY <1>2 DEF ChainIs
<1>4. Legal(waiting[m])
  BY <1>3, ChainStep
<1>5. Upto(After(waiting[1]), waiting[m])
  <2>1. 1 \in 1 .. Len(waiting) /\ 2 = 1 + 1 /\ 2 \in 1 .. Len(waiting) /\ 2 \in 2 .. Len(waiting)
    BY <1>3
  <2>2. After(waiting[1]) = waiting[2]
    BY <2>1, ChainStep
  <2>3. CASE m = 2
    BY <2>2, <2>3 DEF Upto
  <2>4. CASE m # 2
    <3>1. 3 = 2 + 1 /\ 3 \in 1 .. Len(waiting) /\ 3 \in 2 .. Len(waiting)
      BY <1>2, <1>3, <2>4
    <3>2. ~waiting[2].down
      BY <1>2, <2>1, <2>4
    <3>3. After(waiting[2]) = waiting[3] /\ Legal(waiting[2]) /\ After(waiting[2]).down = TRUE
      BY <2>1, <3>1, <3>2, ChainStep
    <3>4. m = 3
      BY <1>2, <3>1, <3>3
    <3> QED
      BY <2>2, <3>2, <3>3, <3>4 DEF Upto
  <2> QED
    BY <2>3, <2>4
<1>6. Upto(After(waiting[m]), stroke)
  <2>1. CASE m = Len(waiting)
    <3>1. After(waiting[m]) = stroke
      BY <1>3, <2>1, ChainStep
    <3> QED
      BY <3>1 DEF Upto
  <2>2. CASE m # Len(waiting)
    <3>1. m < Len(waiting) /\ m + 1 \in 1 .. Len(waiting) /\ m + 1 \in 2 .. Len(waiting) /\ m + 1 # m
      BY <1>2, <1>3, <2>2
    <3>2. After(waiting[m]) = waiting[m + 1]
      BY <1>3, <3>1, ChainStep
    <3>3. ~waiting[m + 1].down /\ Legal(waiting[m + 1])
      BY <1>2, <3>1, ChainStep
    <3>4. m + 1 = Len(waiting)
      <4>1. ASSUME m + 1 # Len(waiting)
            PROVE  FALSE
        <5>1. (m + 1) + 1 \in 1 .. Len(waiting) /\ (m + 1) + 1 \in 2 .. Len(waiting) /\ (m + 1) + 1 # m
          BY <1>3, <3>1, <4>1
        <5>2. After(waiting[m + 1]) = waiting[(m + 1) + 1] /\ After(waiting[m + 1]).down = TRUE
          BY <3>1, <3>3, <5>1, ChainStep
        <5> QED
          BY <1>2, <5>1, <5>2
      <4> QED
        BY <4>1
    <3>5. After(waiting[m + 1]) = stroke
      BY <1>3, <3>1, <3>4, ChainStep
    <3> QED
      BY <3>2, <3>3, <3>5 DEF Upto
  <2> QED
    BY <2>1, <2>2
<1> QED
  BY <1>2, <1>4, <1>5, <1>6

\* A look at a stroke adds what it shows; and Enter signals the number of the card.
LEMMA LookMoves ==
  ASSUME SwipedAre, SignalsAre, NEW s, Legal(s), Look(s), UNCHANGED <<swiped, customers, running>>
  PROVE  /\ SignalsAre'
         /\ ExactAt(s) => data' = Shown(After(s)) /\ Len(Signalled)' = Done(After(s))
         /\ NearAt(s) => data' = Shown(After(s)) \/ Len(data') - Len(Shown(After(s))) \in {-1, 12, 16}
         /\ ExactAt(s) /\ Fits(Len(Signalled)) => Fits(Len(Signalled))'
         /\ NearAt(s) /\ Named(Len(Signalled)) => Named(Len(Signalled))'
<1>0. data \in Seq(Nat) /\ Len(data) \in Nat /\ Len(Signalled) \in Nat /\ swiped' = swiped
  BY SignalledIs DEF SignalsAre
<1>1. CASE ~s.down
  <2>1. UNCHANGED <<data, queue>>
    BY <1>1 DEF Look
  <2>2. Shown(After(s)) = Shown(s) /\ Done(After(s)) = Done(s)
    BY <1>1, UpKeeps
  <2>3. Signalled' = Signalled
    BY <2>1 DEF Signalled, Customer, Right
  <2>4. (Fits(Len(Signalled)) => Fits(Len(Signalled))') /\ (Named(Len(Signalled)) => Named(Len(Signalled))')
    BY <2>3, <1>0 DEF Fits, Named
  <2>5. SignalsAre'
    BY <2>1 DEF SignalsAre
  <2> QED
    BY <2>1, <2>2, <2>3, <2>4, <2>5 DEF ExactAt, NearAt
<1>2. CASE s.down /\ KeyOf(s) \in KeySilent
  <2>0. KeyOf(s) # KeyEnter /\ KeyOf(s) \notin KeyDigit
    BY <1>2 DEF KeySilent, KeyEnter, KeyDigit
  <2>1. UNCHANGED <<data, queue>>
    BY <1>2, <2>0 DEF Look
  <2>2. Shown(After(s)) = Shown(s) /\ Done(After(s)) = Done(s)
    BY <1>2, <2>0, DownAdds
  <2>3. Signalled' = Signalled
    BY <2>1 DEF Signalled, Customer, Right
  <2>4. (Fits(Len(Signalled)) => Fits(Len(Signalled))') /\ (Named(Len(Signalled)) => Named(Len(Signalled))')
    BY <2>3, <1>0 DEF Fits, Named
  <2>5. SignalsAre'
    BY <2>1 DEF SignalsAre
  <2> QED
    BY <2>1, <2>2, <2>3, <2>4, <2>5 DEF ExactAt, NearAt
<1>3. CASE s.down /\ KeyOf(s) \in KeyDigit
  <2>0. KeyOf(s) # KeyEnter /\ KeyOf(s) \notin KeySilent
    BY <1>3 DEF KeySilent, KeyEnter, KeyDigit
  <2>1. queue' = queue /\ data' = Append(data, Character(KeyOf(s)))
    BY <1>3, <2>0 DEF Look
  <2>2. Shown(After(s)) = Append(Shown(s), Character(KeyOf(s))) /\ Done(After(s)) = Done(s) /\ Shown(s) \in Seq(Nat)
    BY <1>3, <2>0, DownAdds
  <2>3. Signalled' = Signalled
    BY <2>1 DEF Signalled, Customer, Right
  <2>4. (Fits(Len(Signalled)) => Fits(Len(Signalled))') /\ (Named(Len(Signalled)) => Named(Len(Signalled))')
    BY <2>3, <1>0 DEF Fits, Named
  <2>5. Character(KeyOf(s)) \in Nat
    BY <1>3 DEF KeyDigit, Character
  <2>6. /\ data' \in Seq(Nat) /\ Len(data') = Len(data) + 1
        /\ Len(Shown(After(s))) = Len(Shown(s)) + 1 /\ Len(Shown(s)) \in Nat
    BY <1>0, <2>1, <2>2, <2>5, AppendProperties, LenProperties
  <2>7. SignalsAre'
    BY <2>1, <2>6 DEF SignalsAre
  <2>8. Len(data) - Len(Shown(s)) \in {-1, 12, 16} => Len(data') - Len(Shown(After(s))) \in {-1, 12, 16}
    BY <1>0, <2>6
  <2> QED
    BY <2>1, <2>2, <2>3, <2>4, <2>7, <2>8 DEF ExactAt, NearAt
<1>4. CASE s.down /\ KeyOf(s) = KeyEnter
  <2>0. KeyOf(s) \notin KeyDigit /\ KeyOf(s) \notin KeySilent
    BY <1>4 DEF KeySilent, KeyEnter, KeyDigit
  <2>1. Signal
    BY <1>4, <2>0 DEF Look
  <2>2. /\ Shown(s) = Digits(swiped[s.card]) /\ Shown(After(s)) = <<>>
        /\ Done(s) = s.card - 1 /\ Done(After(s)) = s.card
    BY <1>4, <2>0, DownAdds
  <2>3. /\ SignalsAre' /\ Len(Signalled)' = Len(Signalled) + 1
        /\ \A k \in 1 .. Len(Signalled) : Signalled'[k] = Signalled[k]
        /\ Signalled'[Len(Signalled) + 1] = Customer(data)
    BY <2>1, SignalAdds
  <2>4. data' = <<>>
    BY <2>1 DEF Signal
  <2>5. s.card \in 1 .. Len(swiped) /\ s.card \in Nat /\ Len(swiped) \in Nat
    BY DEF Legal, StrokeSet, SwipedAre
  <2>6. /\ Digits(swiped[s.card]) \in Seq(Nat) /\ Len(Digits(swiped[s.card])) \in {12, 16}
    BY <2>5, SwipedCard
  <2>7. data = Shown(s) => Customer(data) = Holder(swiped[s.card])
    BY <2>2, <2>6, CustomerIs DEF Holder
  <2>8. Len(data) - Len(Shown(s)) \in {-1, 12, 16} => Len(Customer(data)) \notin {6, 10}
    <3>1. ASSUME Len(data) - Len(Shown(s)) \in {-1, 12, 16}
          PROVE  Len(data) \in {11, 15, 24, 28, 32}
      <4>1. PICK n : n = Len(Shown(s)) /\ n \in {12, 16}
        BY <2>2, <2>6
      <4>2. PICK d : d = Len(data) /\ d \in Nat
        BY <1>0
      <4>3. d - n \in {-1, 12, 16}
        BY <3>1, <4>1, <4>2
      <4>4. d \in {11, 15, 24, 28, 32}
        <5>1. \A x \in Nat, y \in {12, 16} : x - y \in {-1, 12, 16} => x \in {11, 15, 24, 28, 32}
          OBVIOUS
        <5> QED
          BY <4>1, <4>2, <4>3, <5>1, Zenon
      <4> QED
        BY <4>2, <4>4
    <3>2. ASSUME Len(data) \in {11, 15, 24, 28, 32}
          PROVE  Len(Customer(data)) \notin {6, 10}
      <4>1. \A d \in {11, 15, 24, 28, 32} : d \notin {12, 16} /\ d \notin {6, 10}
        OBVIOUS
      <4>2. Len(data) \notin {12, 16} /\ Len(data) \notin {6, 10}
        BY <3>2, <4>1, Zenon
      <4>3. Customer(data) = data
        BY <1>0, <4>2, CustomerIs
      <4> QED
        BY <4>2, <4>3
    <3> QED
      BY <3>1, <3>2
  <2>9. ASSUME ExactAt(s), Fits(Len(Signalled))
        PROVE  Fits(Len(Signalled))'
    <3>1. Len(Signalled) + 1 = s.card
      BY <2>2, <2>5, <2>9 DEF ExactAt
    <3>2. Signalled'[s.card] = Holder(swiped[s.card])
      BY <2>3, <2>7, <2>9, <3>1 DEF ExactAt
    <3>3. ASSUME NEW k \in 1 .. Len(Signalled) + 1
          PROVE  Signalled'[k] = Holder(swiped[k])
      <4>1. CASE k = Len(Signalled) + 1
        BY <3>1, <3>2, <4>1
      <4>2. CASE k # Len(Signalled) + 1
        <5>1. k \in 1 .. Len(Signalled)
          BY <1>0, <4>2
        <5> QED
          BY <2>3, <2>9, <5>1 DEF Fits
      <4> QED
        BY <4>1, <4>2
    <3> QED
      BY <1>0, <2>3, <2>5, <3>1, <3>3 DEF Fits
  <2>10. ASSUME NearAt(s), Named(Len(Signalled))
         PROVE  Named(Len(Signalled))'
    <3>1. Customer(data) = Holder(swiped[s.card]) \/ Len(Customer(data)) \notin {6, 10}
      BY <2>7, <2>8, <2>10 DEF NearAt
    <3>2. ASSUME NEW k \in 1 .. Len(Signalled) + 1
          PROVE  \/ Signalled'[k] \in {Holder(swiped[c]) : c \in 1 .. Len(swiped)}
                 \/ Len(Signalled'[k]) \notin {6, 10}
      <4>1. CASE k = Len(Signalled) + 1
        BY <2>3, <2>5, <3>1, <4>1
      <4>2. CASE k # Len(Signalled) + 1
        <5>1. k \in 1 .. Len(Signalled)
          BY <1>0, <4>2
        <5> QED
          BY <2>3, <2>10, <5>1 DEF Named
      <4> QED
        BY <4>1, <4>2
    <3>3. swiped' = swiped /\ Len(Signalled') = Len(Signalled) + 1
      BY <1>0, <2>3
    <3> QED
      BY <3>2, <3>3 DEF Named
  <2>11. ExactAt(s) => Len(Signalled)' = Done(After(s))
    <3>1. ASSUME ExactAt(s)
          PROVE  Len(Signalled)' = Done(After(s))
      <4>1. Len(Signalled) = s.card - 1
        BY <2>2, <3>1 DEF ExactAt
      <4> QED
        BY <2>2, <2>3, <2>5, <4>1
    <3> QED
      BY <3>1
  <2> QED
    BY <2>2, <2>3, <2>4, <2>9, <2>10, <2>11
<1> QED
  BY <1>1, <1>2, <1>3, <1>4, DownAdds

\* What one key overlooked makes of it.
LEMMA MissedMoves ==
  ASSUME SwipedAre, NEW t, Legal(t), t.down, NEW d, d = Shown(t)
  PROVE  d = Shown(After(t)) \/ Len(d) - Len(Shown(After(t))) \in {-1, 12, 16}
<1>1. t.card \in 1 .. Len(swiped)
  BY DEF Legal
<1>2. Len(Digits(swiped[t.card])) \in {12, 16}
  BY <1>1, SwipedCard
<1>3. Shown(t) \in Seq(Nat)
  BY DownAdds
<1>4. CASE Shown(t) = Digits(swiped[t.card]) /\ Shown(After(t)) = <<>>
  <2>1. Len(d) \in {12, 16} /\ Len(Shown(After(t))) = 0
    BY <1>2, <1>4
  <2>2. \A n \in {12, 16} : n - 0 \in {-1, 12, 16}
    OBVIOUS
  <2> QED
    BY <2>1, <2>2
<1>5. CASE Shown(After(t)) = Append(Shown(t), Character(KeyOf(t))) /\ KeyOf(t) \in KeyDigit
  <2>1. Character(KeyOf(t)) \in Nat
    BY <1>5 DEF KeyDigit, Character
  <2>2. Len(Shown(After(t))) = Len(Shown(t)) + 1 /\ Len(Shown(t)) \in Nat
    BY <1>3, <1>5, <2>1, AppendProperties, LenProperties
  <2>3. \A n \in Nat : n - (n + 1) \in {-1, 12, 16}
    OBVIOUS
  <2> QED
    BY <2>2, <2>3
<1> QED
  BY <1>4, <1>5, DownAdds

LEMMA ReadStep == ReaderInv /\ Read => ReaderInv'
<1> SUFFICES ASSUME ReaderInv, Read
             PROVE  ReaderInv'
  OBVIOUS
<1>1. /\ SwipedAre /\ StrokeIs /\ ChainIs /\ SignalsAre /\ missed \in Nat /\ waiting # <<>>
      /\ missed' = missed + Overlooked /\ Look(waiting[1]) /\ waiting' = <<>>
      /\ UNCHANGED <<swiped, stroke, running, customers>>
  BY DEF ReaderInv, Read
<1>2. running = TRUE
  BY DEF ReaderInv, SignalsAre, Read
<1>3. Overlooked \in Nat /\ missed' \in Nat
  BY <1>1, DownsFinite
<1>4. PICK s : s = waiting[1]
  OBVIOUS
<1>5. Legal(s) /\ Look(s) /\ Cursor = s
  <2>1. 1 \in 1 .. Len(waiting)
    BY <1>1 DEF ChainIs
  <2> QED
    BY <1>1, <1>4, <2>1 DEF ChainIs, Cursor
<1>6. /\ SignalsAre'
      /\ ExactAt(s) => data' = Shown(After(s)) /\ Len(Signalled)' = Done(After(s))
      /\ NearAt(s) => data' = Shown(After(s)) \/ Len(data') - Len(Shown(After(s))) \in {-1, 12, 16}
      /\ ExactAt(s) /\ Fits(Len(Signalled)) => Fits(Len(Signalled))'
      /\ NearAt(s) /\ Named(Len(Signalled)) => Named(Len(Signalled))'
  BY <1>1, <1>5, LookMoves
<1>7. Count = Len(Signalled) /\ Count' = Len(Signalled)' /\ Count' \in Nat
  <2>1. (SignalsAre => Len(Signalled) \in Nat)'
    BY SignalledIs, PTL
  <2> QED
    BY <1>1, <1>2, <1>6, <2>1 DEF Count
<1>8. Cursor' = stroke /\ Shown(Cursor)' = Shown(stroke) /\ Done(Cursor)' = Done(stroke)
  <2>1. Cursor' = stroke
    BY <1>1 DEF Cursor
  <2> QED
    BY <1>1, <2>1 DEF Shown, Done
<1>9. ASSUME missed' = 0
      PROVE  Fits(Count)' /\ ExactAt(Cursor)'
  <2>1. missed = 0 /\ Overlooked = 0
    BY <1>1, <1>3, <1>9
  <2>2. ExactAt(s) /\ Fits(Len(Signalled))
    BY <1>2, <1>5, <1>7, <2>1 DEF ReaderInv
  <2>3. data' = Shown(After(s)) /\ Len(Signalled)' = Done(After(s)) /\ Fits(Len(Signalled))'
    BY <1>6, <2>2
  <2>4. Shown(stroke) = Shown(After(s)) /\ Done(stroke) = Done(After(s))
    BY <1>1, <1>4, <2>1, SkipNone, UptoKeeps
  <2>5. Fits(Count)'
    BY <1>7, <2>3 DEF Fits
  <2> QED
    BY <1>8, <2>3, <2>4, <2>5 DEF ExactAt
<1>10. ASSUME missed' <= 1
       PROVE  Named(Count)' /\ NearAt(Cursor)'
  <2>1. (missed = 0 /\ Overlooked = 1) \/ (missed <= 1 /\ Overlooked = 0)
    BY <1>1, <1>3, <1>10
  <2>2. missed <= 1
    BY <2>1
  <2>3. NearAt(s) /\ Named(Len(Signalled))
    BY <1>2, <1>5, <1>7, <2>2 DEF ReaderInv
  <2>4. (data' = Shown(After(s)) \/ Len(data') - Len(Shown(After(s))) \in {-1, 12, 16}) /\ Named(Len(Signalled))'
    BY <1>6, <2>3
  <2>5. Named(Count)'
    BY <1>7, <2>4 DEF Named
  <2>6. CASE Overlooked = 0
    <3>1. Shown(stroke) = Shown(After(s))
      BY <1>1, <1>4, <2>6, SkipNone, UptoKeeps
    <3> QED
      BY <1>8, <2>4, <2>5, <3>1 DEF NearAt
  <2>7. CASE missed = 0 /\ Overlooked = 1
    <3>1. ExactAt(s)
      BY <1>2, <1>5, <2>7 DEF ReaderInv
    <3>2. data' = Shown(After(s))
      BY <1>6, <3>1
    <3>3. PICK t : Legal(t) /\ t.down /\ Upto(After(s), t) /\ Upto(After(t), stroke)
      BY <1>1, <1>4, <2>7, SkipOne
    <3>4. Shown(t) = Shown(After(s)) /\ Shown(stroke) = Shown(After(t))
      BY <1>1, <3>3, UptoKeeps
    <3>5. PICK d : d = data'
      OBVIOUS
    <3>6. d = Shown(After(t)) \/ Len(d) - Len(Shown(After(t))) \in {-1, 12, 16}
      BY <1>1, <3>2, <3>3, <3>4, <3>5, MissedMoves
    <3> QED
      BY <1>8, <2>5, <3>4, <3>5, <3>6 DEF NearAt
  <2> QED
    BY <2>1, <2>6, <2>7
<1>11. SwipedAre' /\ StrokeIs' /\ ChainIs'
  <2>1. ChainIs'
    BY <1>1 DEF ChainIs
  <2> QED
    BY <1>1, <2>1 DEF SwipedAre, StrokeIs, Legal, NextCard
<1> QED
  BY <1>3, <1>6, <1>7, <1>9, <1>10, <1>11 DEF ReaderInv

\* The signal at the end of the thread does not count.
LEMMA FailStep == ReaderInv /\ Fail => ReaderInv'
<1> SUFFICES ASSUME ReaderInv, Fail
             PROVE  ReaderInv'
  OBVIOUS
<1>1. /\ SwipedAre /\ StrokeIs /\ ChainIs /\ SignalsAre /\ missed \in Nat /\ running /\ running' = FALSE /\ Signal
      /\ UNCHANGED <<swiped, stroke, waiting, missed, customers>>
  BY DEF ReaderInv, Fail
<1>2. /\ SignalsAre'
      /\ Len(Signalled)' = Len(Signalled) + 1
      /\ \A k \in 1 .. Len(Signalled) : Signalled'[k] = Signalled[k]
  BY <1>1, SignalAdds
<1>3. Count = Len(Signalled) /\ Count' = Len(Signalled)' - 1 /\ Len(Signalled) \in Nat
  BY <1>1, SignalledIs DEF Count
<1>4. Count' = Count /\ Count \in Nat
  BY <1>2, <1>3
<1>5. (Fits(Count) => Fits(Count)') /\ (Named(Count) => Named(Count)')
  BY <1>1, <1>2, <1>3, <1>4 DEF Fits, Named
<1>6. SwipedAre' /\ StrokeIs' /\ ChainIs'
  <2>1. ChainIs'
    BY <1>1 DEF ChainIs, Legal, After
  <2> QED
    BY <1>1, <2>1 DEF SwipedAre, StrokeIs, Legal, NextCard
<1> QED
  BY <1>1, <1>2, <1>4, <1>5, <1>6 DEF ReaderInv

LEMMA CustomerStep == ReaderInv /\ NewCustomer => ReaderInv'
<1> SUFFICES ASSUME ReaderInv, NewCustomer
             PROVE  ReaderInv'
  OBVIOUS
<1>1. /\ SwipedAre /\ StrokeIs /\ ChainIs /\ SignalsAre
      /\ UNCHANGED <<swiped, stroke, waiting, data, missed, running>>
  BY DEF ReaderInv, NewCustomer
<1>2. /\ SignalsAre'
      /\ Len(Signalled)' = Len(Signalled)
      /\ \A k \in 1 .. Len(Signalled) : Signalled'[k] = Signalled[k]
  BY <1>1, TakingKeeps
<1>3. Count' = Count /\ \A k \in 1 .. Count : Signalled'[k] = Signalled[k]
  <2>1. Len(Signalled) \in Nat
    BY <1>1, SignalledIs
  <2>2. Count' = Count
    BY <1>1, <1>2 DEF Count
  <2>3. \A k \in 1 .. Count : k \in 1 .. Len(Signalled)
    BY <2>1 DEF Count
  <2> QED
    BY <1>2, <2>2, <2>3
<1>4. (Fits(Count) => Fits(Count)') /\ (Named(Count) => Named(Count)')
  BY <1>1, <1>3 DEF Fits, Named
<1>5. Cursor' = Cursor /\ Shown(Cursor)' = Shown(Cursor) /\ Done(Cursor)' = Done(Cursor)
  <2>1. Cursor' = Cursor
    BY <1>1 DEF Cursor
  <2> QED
    BY <1>1, <2>1 DEF Shown, Done
<1>6. (ExactAt(Cursor) => ExactAt(Cursor)') /\ (NearAt(Cursor) => NearAt(Cursor)')
  BY <1>1, <1>2, <1>5 DEF ExactAt, NearAt
<1>7. SwipedAre' /\ StrokeIs' /\ ChainIs'
  <2>1. ChainIs'
    BY <1>1 DEF ChainIs, Legal, After
  <2> QED
    BY <1>1, <2>1 DEF SwipedAre, StrokeIs, Legal, NextCard
<1> QED
  BY <1>1, <1>2, <1>3, <1>4, <1>6, <1>7 DEF ReaderInv

LEMMA ReaderStep == ReaderInv /\ [ReaderNext]_readerVars => ReaderInv'
<1> SUFFICES ASSUME ReaderInv, [ReaderNext]_readerVars
             PROVE  ReaderInv'
  OBVIOUS
<1>1. CASE UNCHANGED readerVars
  <2>1. UNCHANGED <<swiped, stroke, waiting, data, missed, running, queue, customers>>
    BY <1>1 DEF readerVars
  <2>2. SwipedAre' /\ StrokeIs' /\ ChainIs' /\ SignalsAre'
    BY <2>1 DEF ReaderInv, SwipedAre, StrokeIs, ChainIs, SignalsAre, Legal, NextCard, After
  <2>3. Signalled' = Signalled /\ Cursor' = Cursor
    BY <2>1 DEF Signalled, Customer, Right, Cursor
  <2>4. Count' = Count
    BY <2>1, <2>3 DEF Count
  <2>5. (Fits(Count) => Fits(Count)') /\ (Named(Count) => Named(Count)')
    BY <2>1, <2>3, <2>4 DEF Fits, Named
  <2>6. Shown(Cursor)' = Shown(Cursor) /\ Done(Cursor)' = Done(Cursor)
    BY <2>1, <2>3 DEF Shown, Done
  <2>7. (ExactAt(Cursor) => ExactAt(Cursor)') /\ (NearAt(Cursor) => NearAt(Cursor)')
    BY <2>1, <2>3, <2>6 DEF ExactAt, NearAt
  <2> QED
    BY <2>1, <2>2, <2>4, <2>5, <2>7 DEF ReaderInv
<1> QED
  BY <1>1, SwipeStep, PressStep, ReadStep, FailStep, CustomerStep DEF ReaderNext

\* ReadAsSwiped: when no key was missed the customers are the holders of the cards swiped, in
\* their order (magtekreader.cpp:97-124, customerhandler.cpp:59-69).
THEOREM ReaderExact == ReaderSpec => []ReadAsSwiped
<1>1. ReaderInv => ReadAsSwiped
  BY ReaderSafe
<1> QED
  BY <1>1, ReaderStart, ReaderStep, PTL DEF ReaderSpec

\* NoStranger: one key missed never makes a purchase in another's name
\* (customerhandler.cpp:62-65).
THEOREM ReaderHonest == ReaderSpec => []NoStranger
<1>1. ReaderInv => NoStranger
  BY ReaderSafe
<1> QED
  BY <1>1, ReaderStart, ReaderStep, PTL DEF ReaderSpec
=============================================================================
