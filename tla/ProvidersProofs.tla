-------------------------- MODULE ProvidersProofs ---------------------------
(***************************************************************************)
(* Theorems about the two services that call AI providers, for every list  *)
(* of clients and every number of jobs, attempts and crashes.              *)
(***************************************************************************)
EXTENDS ImageGenerationJobs, ChatCompletions, DataLemmas, SequenceTheorems

-----------------------------------------------------------------------------
(***************************************************************************)
(* ImageGenerationJobs: fail-over goes through the clients in their order, *)
(* and a job that ends has ended its row.                                  *)
(***************************************************************************)

(* The order of the clients. *)

\* The position of a client in the configuration leads back to it.
LEMMA PositionsTell ==
  \A c \in ToSet(Clients) : Position(c) \in Nat /\ Clients[Position(c)] = c
<1> SUFFICES ASSUME NEW c \in ToSet(Clients)
             PROVE  Position(c) \in Nat /\ Clients[Position(c)] = c
  OBVIOUS
<1>1. \E i \in DOMAIN Clients : Clients[i] = c
  BY DEF ToSet
<1>2. Position(c) \in DOMAIN Clients /\ Clients[Position(c)] = c
  BY <1>1 DEF Position
<1>3. DOMAIN Clients \subseteq Nat
  BY ClientsAreConfigured
<1> QED
  BY <1>2, <1>3

\* Failover asks every enabled client, one after the other and none twice.
LEMMA FailoverListsClients ==
  ASSUME imgEnv \in ImageEnvironments
  PROVE  /\ Cardinality(imgEnv.enabled) \in Nat
         /\ FailoverOrder \in [1..Cardinality(imgEnv.enabled) -> imgEnv.enabled]
         /\ imgEnv.enabled \subseteq ToSet(Clients)
         /\ \A i, j \in 1..Cardinality(imgEnv.enabled) :
               i # j => FailoverOrder[i] # FailoverOrder[j]
<1>1. PICK E \in SUBSET ToSet(Clients) : E = imgEnv.enabled
  BY ImageEnvironmentsAreRecords
<1>2. IsFiniteSet(E) /\ Cardinality(E) \in Nat
  <2>1. Clients \in Seq({"fal", "replicate", "together"})
    BY ClientsAreConfigured
  <2>2. ToSet(Clients) \subseteq {"fal", "replicate", "together"}
    BY <2>1, InToSet
  <2>3. IsFiniteSet({"fal", "replicate", "together"})
    <3>1. {"fal", "replicate", "together"} = ({"fal"} \cup {"replicate"}) \cup {"together"}
      OBVIOUS
    <3>2. IsFiniteSet({"fal"}) /\ IsFiniteSet({"replicate"}) /\ IsFiniteSet({"together"})
      BY FS_Singleton
    <3>3. IsFiniteSet({"fal"} \cup {"replicate"})
      BY <3>2, FS_Union
    <3>4. IsFiniteSet(({"fal"} \cup {"replicate"}) \cup {"together"})
      BY <3>2, <3>3, FS_Union
    <3> QED
      BY <3>1, <3>4
  <2> QED
    BY <2>2, <2>3, FS_Subset, FS_CardinalityType
<1> DEFINE R == {p \in E \X E : GoesBefore(p[1], p[2])}
<1>3. \A x, y \in E : <<x, y>> \in R <=> GoesBefore(x, y)
  OBVIOUS
<1>4. \A x \in E : Priority[x] \in Int /\ Position(x) \in Nat /\ Clients[Position(x)] = x
  BY PositionsTell, ClientsAreConfigured
<1> HIDE DEF R
<1>5. \A x \in E : <<x, x>> \notin R
  BY <1>3, <1>4 DEF GoesBefore
<1>6. \A x, y \in E : x # y => <<x, y>> \in R \/ <<y, x>> \in R
  <2> SUFFICES ASSUME NEW x \in E, NEW y \in E, x # y
               PROVE  GoesBefore(x, y) \/ GoesBefore(y, x)
    BY <1>3
  <2>1. Position(x) # Position(y)
    BY <1>4
  <2> QED
    BY <1>4, <2>1 DEF GoesBefore
<1>7. \A x, y, z \in E : <<x, y>> \in R /\ <<y, z>> \in R => <<x, z>> \in R
  <2> SUFFICES ASSUME NEW x \in E, NEW y \in E, NEW z \in E, GoesBefore(x, y), GoesBefore(y, z)
               PROVE  GoesBefore(x, z)
    BY <1>3
  <2> QED
    BY <1>4 DEF GoesBefore
<1>8. PICK s : ListsInOrder(s, E, R)
  BY <1>2, <1>6, <1>7, InOrderExists
<1>9. PICK n \in Nat : n = Cardinality(E)
  BY <1>2
<1>10. \E q \in [1..n -> E] : \A i, j \in 1..n : i < j => GoesBefore(q[i], q[j])
  BY <1>3, <1>8, <1>9 DEF ListsInOrder
<1> DEFINE f == CHOOSE q \in [1..n -> E] : \A i, j \in 1..n : i < j => GoesBefore(q[i], q[j])
<1>11. f \in [1..n -> E] /\ \A i, j \in 1..n : i < j => GoesBefore(f[i], f[j])
  BY <1>10
<1>12. FailoverOrder = f
  BY <1>1, <1>9 DEF FailoverOrder, SortedClients
<1> HIDE DEF f
<1>13. \A i, j \in 1..n : i < j => f[i] # f[j]
  BY <1>3, <1>5, <1>11
<1>14. \A i, j \in 1..n : i # j => i < j \/ j < i
  OBVIOUS
<1> QED
  BY <1>1, <1>9, <1>11, <1>12, <1>13, <1>14

-----------------------------------------------------------------------------
(* Rows and jobs. *)

\* What has a job has a row.
RowsPresent ==
    \A g \in ImageJobs : imgRow[g].status = "absent" => imgJob[g].pc = "absent"

\* A row is written, if at all, with a status that it has from then on.
LEMMA RowsStayPresent ==
  ASSUME ImgTypeOK, RowsPresent, NEW g \in ImageJobs, imgJob[g].pc # "absent",
         \A h \in ImageJobs : h # g => imgJob'[h] = imgJob[h],
         \/ imgRow' = imgRow
         \/ \E k, st : st # "absent" /\ imgRow' = [imgRow EXCEPT ![k].status = st]
         \/ \E k : imgRow' = [imgRow EXCEPT ![k] = [status |-> "completed", images |-> g]]
  PROVE  RowsPresent'
<1>1. imgRow \in [ImageJobs -> RowType]
  BY DEF ImgTypeOK
<1>2. ASSUME NEW h \in ImageJobs, imgRow'[h].status = "absent" PROVE imgRow[h].status = "absent"
  <2>1. CASE imgRow' = imgRow
    BY <1>2, <2>1
  <2>2. ASSUME NEW k, NEW st, st # "absent", imgRow' = [imgRow EXCEPT ![k].status = st]
        PROVE  imgRow[h].status = "absent"
    BY <1>1, <1>2, <2>2 DEF RowType
  <2>3. ASSUME NEW k, imgRow' = [imgRow EXCEPT ![k] = [status |-> "completed", images |-> g]]
        PROVE  imgRow[h].status = "absent"
    BY <1>1, <1>2, <2>3
  <2> QED
    BY <2>1, <2>2, <2>3
<1> QED
  BY <1>2 DEF RowsPresent

\* A row that was made stays.
LEMMA RowsPresentStep == ImgTypeOK /\ RowsPresent /\ [ImgNext]_imgVars => RowsPresent'
<1> SUFFICES ASSUME ImgTypeOK, RowsPresent, [ImgNext]_imgVars PROVE RowsPresent'
  OBVIOUS
<1>1. imgRow \in [ImageJobs -> RowType] /\ imgJob \in [ImageJobs -> ImageJobType]
  BY DEF ImgTypeOK
<1>2. CASE UNCHANGED imgVars
  BY <1>2 DEF RowsPresent, imgVars
<1>3. CASE ImgNext
  <2> PICK g \in ImageJobs :
        \/ CreateImageRow(g) \/ TakeImageJob(g) \/ StallImageJob(g)
        \/ FindRow(g) \/ MarkProcessing(g) \/ SimulateImages(g)
        \/ ModeratePrompt(g) \/ AskFal(g) \/ AskReplicate(g) \/ AskTogether(g)
        \/ PollFal(g) \/ PollReplicate(g) \/ PollGivesUp(g)
        \/ StoreImages(g) \/ CompleteRow(g) \/ ReturnResult(g)
        \/ FindFailed(g) \/ MarkRowFailed(g)
    BY <1>3 DEF ImgNext
  <2>1. CASE CreateImageRow(g)
    <3>1. imgRow'[g].status = "pending" /\ \A h \in ImageJobs : h # g => imgRow'[h] = imgRow[h]
      BY <1>1, <2>1 DEF CreateImageRow, RowType
    <3>2. \A h \in ImageJobs : h # g => imgJob'[h] = imgJob[h]
      BY <1>1, <2>1 DEF CreateImageRow, ImgGoto
    <3> QED
      BY <3>1, <3>2 DEF RowsPresent
  <2>2. CASE TakeImageJob(g) \/ SimulateImages(g) \/ ModeratePrompt(g) \/ StoreImages(g)
             \/ ReturnResult(g) \/ StallImageJob(g) \/ FindRow(g) \/ FindFailed(g)
    <3>1. imgJob[g].pc # "absent" /\ imgRow' = imgRow
      BY <2>2 DEF TakeImageJob, SimulateImages, ModeratePrompt, StoreImages, ReturnResult,
                  StallImageJob, FindRow, FindFailed, ImgAt
    <3>2. \A h \in ImageJobs : h # g => imgJob'[h] = imgJob[h]
      BY <1>1, <2>2 DEF TakeImageJob, SimulateImages, ModeratePrompt, StoreImages, ReturnResult,
                        StallImageJob, FindRow, FindFailed, ImgGoto
    <3> QED
      BY <3>1, <3>2, RowsStayPresent
  <2>3. CASE AskFal(g) \/ AskReplicate(g) \/ AskTogether(g) \/ PollFal(g) \/ PollReplicate(g)
             \/ PollGivesUp(g)
    <3>1. imgJob[g].pc # "absent" /\ imgRow' = imgRow
      BY <2>3 DEF AskFal, AskReplicate, AskTogether, PollFal, PollReplicate, PollGivesUp, ImgAt
    <3>2. AttemptFails(g) \/ (\E pc : ImgGoto(g, pc))
      BY <2>3 DEF AskFal, AskReplicate, AskTogether, PollFal, PollReplicate, PollGivesUp,
                  PollEnds, RequestFails, Succeeds
    <3>3. \A h \in ImageJobs : h # g => imgJob'[h] = imgJob[h]
      BY <1>1, <3>2 DEF AttemptFails, ImgGoto
    <3> QED
      BY <3>1, <3>3, RowsStayPresent
  <2>4. CASE MarkProcessing(g) \/ MarkRowFailed(g)
    <3>1. imgJob[g].pc # "absent"
      BY <2>4 DEF MarkProcessing, MarkRowFailed, ImgAt
    <3>2. imgRow' = imgRow \/ \E k, st : st # "absent" /\ imgRow' = [imgRow EXCEPT ![k].status = st]
      <4>1. "processing" # "absent" /\ "failed" # "absent"
        OBVIOUS
      <4> QED
        BY <2>4, <4>1 DEF MarkProcessing, MarkRowFailed
    <3>3. \A h \in ImageJobs : h # g => imgJob'[h] = imgJob[h]
      BY <1>1, <2>4 DEF MarkProcessing, MarkRowFailed, ImgGoto
    <3> QED
      BY <3>1, <3>2, <3>3, RowsStayPresent
  <2>5. CASE CompleteRow(g)
    <3>1. imgJob[g].pc # "absent"
      BY <2>5 DEF CompleteRow, ImgAt
    <3>2. \A h \in ImageJobs : h # g => imgJob'[h] = imgJob[h]
      BY <1>1, <2>5 DEF CompleteRow, ImgGoto
    <3>3. imgRow' = imgRow
          \/ \E k : imgRow' = [imgRow EXCEPT ![k] = [status |-> "completed", images |-> g]]
      BY <2>5 DEF CompleteRow
    <3> QED
      BY <3>1, <3>2, <3>3, RowsStayPresent
  <2> QED
    BY <2>1, <2>2, <2>3, <2>4, <2>5
<1> QED
  BY <1>2, <1>3

-----------------------------------------------------------------------------
(* Failover and cost tracking. *)

NotYetAsking == {"absent", "created", "find", "mark", "simulate", "moderate"}
Turns == 1..Cardinality(imgEnv.enabled)

\* How far a run of the job has come with the clients.
RunIsInOrder(g) ==
    /\ imgJob[g].pc \in NotYetAsking =>
          imgJob[g].turn = 1 /\ imgJob[g].attempt = 1 /\ asked[g] = NoClientAsked
    /\ imgJob[g].pc \in {"ask", "poll"} => imgJob[g].turn \in Turns
    /\ \A i \in Turns :
        /\ i < imgJob[g].turn => /\ asked[g][FailoverOrder[i]] = MaxAttempts
                                 /\ [client |-> FailoverOrder[i], ok |-> FALSE] \in ToSet(tracked[g])
        /\ i > imgJob[g].turn => asked[g][FailoverOrder[i]] = 0
        /\ i = imgJob[g].turn =>
              /\ asked[g][FailoverOrder[i]] <= MaxAttempts
              /\ imgJob[g].pc = "ask" => asked[g][FailoverOrder[i]] = imgJob[g].attempt - 1
              /\ imgJob[g].pc = "poll" => asked[g][FailoverOrder[i]] = imgJob[g].attempt

AttemptsCounted(g) == Cardinality({i \in 1..Len(tracked[g]) : tracked[g][i].ok})

\* What is counted was made, in this run or, after a stall, in an earlier one.
CountIsMade(g) ==
    /\ AttemptsCounted(g) \in Nat /\ AttemptsCounted(g) <= made[g] /\ AttemptsCounted(g) <= imgJob[g].stalls + 1
    /\ imgJob[g].pc = "poll" => AttemptsCounted(g) + 1 <= made[g]
    /\ imgJob[g].pc \in NotYetAsking \cup {"ask", "poll"} => AttemptsCounted(g) <= imgJob[g].stalls
    /\ ~MayFail("providers") /\ ~MayFail("worker") =>
          made[g] <= 1 /\ (imgJob[g].pc \in NotYetAsking \cup {"ask"} => made[g] = 0)

FailoverInv == ImgTypeOK /\ \A g \in ImageJobs : RunIsInOrder(g) /\ CountIsMade(g)

\* The invariant contains the property.
LEMMA FailoverInvHolds == FailoverInv => FailoverIsOrderly
<1> SUFFICES ASSUME FailoverInv PROVE FailoverIsOrderly
  OBVIOUS
<1>1. imgEnv \in ImageEnvironments
  BY DEF FailoverInv, ImgTypeOK
<1>2. PICK n \in Nat : n = Cardinality(imgEnv.enabled)
  BY <1>1, FailoverListsClients
<1>3. FailoverOrder \in [1..n -> imgEnv.enabled] /\ imgEnv.enabled \subseteq ToSet(Clients)
  BY <1>1, <1>2, FailoverListsClients
<1>4. FailoverIsInOrder
  <2> SUFFICES ASSUME NEW g \in ImageJobs, NEW i \in 1..n
               PROVE  /\ asked[g][FailoverOrder[i]] <= MaxAttempts
                      /\ i > 1 /\ asked[g][FailoverOrder[i]] > 0 =>
                           /\ asked[g][FailoverOrder[i - 1]] = MaxAttempts
                           /\ [client |-> FailoverOrder[i - 1], ok |-> FALSE] \in ToSet(tracked[g])
    BY <1>3 DEF FailoverIsInOrder
  <2>1. RunIsInOrder(g)
    BY DEF FailoverInv
  <2>2. PICK t \in Nat, m \in Nat : t = imgJob[g].turn /\ m = MaxAttempts
    BY ClientsAreConfigured DEF FailoverInv, ImgTypeOK, ImageJobType
  <2>5. PICK a \in Nat : a = asked[g][FailoverOrder[i]]
    BY <1>3 DEF FailoverInv, ImgTypeOK
  <2>6. (i < t => a = m) /\ (i > t => a = 0) /\ (i = t => a <= m)
    BY <1>2, <2>1, <2>2, <2>5 DEF RunIsInOrder, Turns
  <2>3. asked[g][FailoverOrder[i]] <= MaxAttempts
    BY <2>2, <2>5, <2>6
  <2>4. ASSUME i > 1, asked[g][FailoverOrder[i]] > 0 PROVE i - 1 \in 1..n /\ i - 1 < imgJob[g].turn
    BY <2>2, <2>4, <2>5, <2>6
  <2> QED
    BY <1>2, <2>1, <2>3, <2>4 DEF RunIsInOrder, Turns
<1>5. TrackedWasMade
  BY DEF FailoverInv, CountIsMade, AttemptsCounted, TrackedWasMade
<1> QED
  BY <1>4, <1>5 DEF FailoverIsOrderly

\* At first no client was asked.
LEMMA FailoverInvStarts == ImgInit => FailoverInv
<1> SUFFICES ASSUME ImgInit PROVE FailoverInv
  OBVIOUS
<1>1. imgEnv \in ImageEnvironments /\ MaxAttempts \in Nat \ {0} /\ MaxImageStalls \in Nat
  BY ClientsAreConfigured DEF ImgInit
<1>2. PICK n \in Nat : n = Cardinality(imgEnv.enabled)
  BY <1>1, FailoverListsClients
<1>3. FailoverOrder \in [1..n -> imgEnv.enabled] /\ imgEnv.enabled \subseteq ToSet(Clients)
  BY <1>1, <1>2, FailoverListsClients
<1>4. ImgTypeOK
  <2>1. imgRow \in [ImageJobs -> RowType]
    BY DEF ImgInit, RowType
  <2>2. imgJob \in [ImageJobs -> ImageJobType]
    BY <1>1 DEF ImgInit, ImageJobType
  <2>3. asked \in [ImageJobs -> [ToSet(Clients) -> Nat]]
    BY DEF ImgInit, NoClientAsked
  <2>4. tracked \in [ImageJobs -> Seq(TrackedType)] /\ made \in [ImageJobs -> Nat]
    BY DEF ImgInit
  <2> QED
    BY <1>1, <2>1, <2>2, <2>3, <2>4 DEF ImgTypeOK
<1>5. ASSUME NEW g \in ImageJobs PROVE RunIsInOrder(g) /\ CountIsMade(g)
  <2>1. /\ imgJob[g].pc = "absent" /\ imgJob[g].turn = 1 /\ imgJob[g].attempt = 1
        /\ imgJob[g].stalls = 0 /\ asked[g] = NoClientAsked /\ made[g] = 0 /\ tracked[g] = <<>>
    BY DEF ImgInit
  <2>2. \A i \in 1..n : asked[g][FailoverOrder[i]] = 0
    BY <1>3, <2>1 DEF NoClientAsked
  <2>3. AttemptsCounted(g) = 0
    <3>1. {i \in 1..Len(tracked[g]) : tracked[g][i].ok} = {}
      <4>1. \A i : i \notin 1..Len(<<>>)
        OBVIOUS
      <4> QED
        BY <2>1, <4>1
    <3> QED
      BY <3>1, FS_EmptySet DEF AttemptsCounted
  <2>4. RunIsInOrder(g)
    BY <1>1, <1>2, <2>1, <2>2 DEF RunIsInOrder, Turns, NotYetAsking
  <2>5. CountIsMade(g)
    BY <2>1, <2>3 DEF CountIsMade
  <2> QED
    BY <2>4, <2>5
<1> QED
  BY <1>4, <1>5 DEF FailoverInv

\* A job of which nothing changes.
LEMMA OtherJobStays ==
  ASSUME FailoverInv, NEW h \in ImageJobs, imgEnv' = imgEnv,
         imgJob'[h] = imgJob[h], asked'[h] = asked[h], made'[h] = made[h], tracked'[h] = tracked[h]
  PROVE  RunIsInOrder(h)' /\ CountIsMade(h)'
<1>1. RunIsInOrder(h) /\ CountIsMade(h)
  BY DEF FailoverInv
<1>2. FailoverOrder' = FailoverOrder /\ Turns' = Turns /\ AttemptsCounted(h)' = AttemptsCounted(h)
  BY DEF FailoverOrder, SortedClients, GoesBefore, Turns, AttemptsCounted
<1>3. RunIsInOrder(h)'
  BY <1>1, <1>2 DEF RunIsInOrder
<1>4. CountIsMade(h)'
  BY <1>1, <1>2 DEF CountIsMade, MayFail
<1> QED
  BY <1>3, <1>4

\* A job goes on without turning to a client.
LEMMA GoesOnInOrder ==
  ASSUME FailoverInv, NEW g \in ImageJobs, NEW j \in ImageJobType,
         imgJob' = [imgJob EXCEPT ![g] = j],
         imgRow' \in [ImageJobs -> RowType], UNCHANGED <<imgEnv, asked, made, tracked>>,
         j.turn = imgJob[g].turn, j.attempt = imgJob[g].attempt, j.stalls = imgJob[g].stalls,
         j.pc # "poll",
         j.pc \in NotYetAsking \cup {"ask"} => imgJob[g].pc \in NotYetAsking,
         j.pc = "ask" => Turns # {}
  PROVE  FailoverInv'
<1>1. ImgTypeOK /\ RunIsInOrder(g) /\ CountIsMade(g)
  BY DEF FailoverInv
<1>2. imgJob' \in [ImageJobs -> ImageJobType] /\ imgJob'[g] = j
      /\ \A h \in ImageJobs : h # g => imgJob'[h] = imgJob[h]
  BY <1>1 DEF ImgTypeOK
<1>3. ImgTypeOK'
  BY <1>1, <1>2 DEF ImgTypeOK
<1>4. \A h \in ImageJobs : h # g => RunIsInOrder(h)' /\ CountIsMade(h)'
  BY <1>2, OtherJobStays
<1>5. /\ FailoverOrder' = FailoverOrder /\ Turns' = Turns /\ AttemptsCounted(g)' = AttemptsCounted(g)
      /\ NoClientAsked' = NoClientAsked
  BY DEF FailoverOrder, SortedClients, GoesBefore, Turns, AttemptsCounted, NoClientAsked
<1>6. PICK n \in Nat : n = Cardinality(imgEnv.enabled)
  BY <1>1, FailoverListsClients DEF ImgTypeOK
<1>7. FailoverOrder \in [1..n -> imgEnv.enabled] /\ imgEnv.enabled \subseteq ToSet(Clients)
  BY <1>1, <1>6, FailoverListsClients DEF ImgTypeOK
<1>8. imgJob[g].pc \in NotYetAsking => \A i \in 1..n : asked[g][FailoverOrder[i]] = 0
  BY <1>1, <1>7 DEF RunIsInOrder, NoClientAsked
<1>9. j.pc = "ask" => j.turn = 1 /\ j.attempt = 1 /\ 1 \in 1..n
  BY <1>1, <1>6 DEF RunIsInOrder, Turns
<1>10. RunIsInOrder(g)'
  <2>1. asked'[g] = asked[g] /\ tracked'[g] = tracked[g]
    OBVIOUS
  <2>2. /\ j.pc \in NotYetAsking =>
              j.turn = 1 /\ j.attempt = 1 /\ asked[g] = NoClientAsked
        /\ j.pc \in {"ask", "poll"} => j.turn \in Turns
    BY <1>1, <1>6, <1>9 DEF RunIsInOrder, Turns
  <2>3. ASSUME NEW i \in Turns
        PROVE  /\ i < j.turn => /\ asked[g][FailoverOrder[i]] = MaxAttempts
                                /\ [client |-> FailoverOrder[i], ok |-> FALSE] \in ToSet(tracked[g])
               /\ i > j.turn => asked[g][FailoverOrder[i]] = 0
               /\ i = j.turn => asked[g][FailoverOrder[i]] <= MaxAttempts
    BY <1>1 DEF RunIsInOrder
  <2>4. ASSUME NEW i \in Turns, i = j.turn, j.pc = "ask"
        PROVE  asked[g][FailoverOrder[i]] = j.attempt - 1
    <3>1. asked[g][FailoverOrder[i]] = 0 /\ j.attempt = 1
      BY <1>6, <1>8, <1>9, <2>4 DEF Turns
    <3> QED
      BY <3>1
  <2> QED
    BY <1>2, <1>5, <2>1, <2>2, <2>3, <2>4 DEF RunIsInOrder
<1>11. CountIsMade(g)'
  BY <1>1, <1>2, <1>5 DEF CountIsMade, MayFail
<1> QED
  BY <1>3, <1>4, <1>10, <1>11 DEF FailoverInv

\* An entry is added to a job's cost tracking.
LEMMA TrackingGrows ==
  ASSUME tracked \in [ImageJobs -> Seq(TrackedType)], NEW g \in ImageJobs, NEW e \in TrackedType,
         tracked' = [tracked EXCEPT ![g] = Append(tracked[g], e)]
  PROVE  /\ tracked' \in [ImageJobs -> Seq(TrackedType)]
         /\ \A h \in ImageJobs : h # g => tracked'[h] = tracked[h]
         /\ ToSet(tracked'[g]) = ToSet(tracked[g]) \cup {e}
         /\ AttemptsCounted(g)' = IF e.ok THEN AttemptsCounted(g) + 1 ELSE AttemptsCounted(g)
<1>1. PICK l \in Seq(TrackedType) : l = tracked[g]
  OBVIOUS
<1>2. PICK m \in Seq(TrackedType) : m = Append(l, e)
  <2>1. Append(l, e) \in Seq(TrackedType)
    BY AppendAddsLast
  <2> QED
    BY <2>1
<1>3. /\ Len(m) = Len(l) + 1 /\ m[Len(l) + 1] = e /\ Len(l) \in Nat
      /\ \A i \in 1..Len(l) : m[i] = l[i]
      /\ ToSet(m) = ToSet(l) \cup {e}
  BY <1>2, AppendAddsLast
<1>4. tracked'[g] = m /\ \A h \in ImageJobs : h # g => tracked'[h] = tracked[h]
  BY <1>1, <1>2
<1>5. tracked' \in [ImageJobs -> Seq(TrackedType)]
  BY <1>1, <1>2
<1> DEFINE P == {i \in 1..Len(l) : l[i].ok}
           Q == {i \in 1..Len(m) : m[i].ok}
<1>6. Q = IF e.ok THEN P \cup {Len(l) + 1} ELSE P
  <2>1. \A i : i \in 1..Len(m) <=> i \in 1..Len(l) \/ i = Len(l) + 1
    BY <1>3
  <2>2. \A i : i \in Q <=> (i \in 1..Len(l) /\ l[i].ok) \/ (i = Len(l) + 1 /\ e.ok)
    BY <1>3, <2>1
  <2> QED
    BY <2>2
<1>7. IsFiniteSet(P) /\ Len(l) + 1 \notin P
  <2>1. P \subseteq 1..Len(l)
    OBVIOUS
  <2>2. Len(l) + 1 \notin 1..Len(l)
    BY <1>3
  <2>3. IsFiniteSet(1..Len(l))
    BY <1>3, FS_Interval
  <2> HIDE DEF P
  <2> QED
    BY <2>1, <2>2, <2>3, FS_Subset
<1>8. AttemptsCounted(g) = Cardinality(P) /\ AttemptsCounted(g)' = Cardinality(Q)
  BY <1>1, <1>4 DEF AttemptsCounted
<1> HIDE DEF P, Q
<1>9. Cardinality(P \cup {Len(l) + 1}) = Cardinality(P) + 1
  BY <1>7, FS_AddElement
<1> QED
  BY <1>1, <1>3, <1>4, <1>5, <1>6, <1>8, <1>9

\* The client whose turn it is has been asked once more, or is being polled.
Requested(g) ==
    \/ ImgAt(g, "ask") /\ Asked(g)
    \/ ImgAt(g, "poll") /\ asked' = asked

\* What a request to the client whose turn it is changes: one more attempt of it.
LEMMA RequestedNow ==
  ASSUME FailoverInv, NEW g \in ImageJobs, Requested(g)
  PROVE  /\ imgJob[g].turn \in Turns /\ ClientOf(g) \in ToSet(Clients)
         /\ asked' \in [ImageJobs -> [ToSet(Clients) -> Nat]]
         /\ \A h \in ImageJobs : h # g => asked'[h] = asked[h]
         /\ asked'[g][ClientOf(g)] = imgJob[g].attempt
         /\ \A i \in Turns : i # imgJob[g].turn => asked'[g][FailoverOrder[i]] = asked[g][FailoverOrder[i]]
<1>1. /\ imgEnv \in ImageEnvironments /\ asked \in [ImageJobs -> [ToSet(Clients) -> Nat]]
      /\ RunIsInOrder(g) /\ imgJob[g] \in ImageJobType
  BY DEF FailoverInv, ImgTypeOK
<1>2. PICK n \in Nat : n = Cardinality(imgEnv.enabled)
  BY <1>1, FailoverListsClients
<1>3. /\ FailoverOrder \in [1..n -> imgEnv.enabled] /\ imgEnv.enabled \subseteq ToSet(Clients)
      /\ \A i, j \in 1..n : i # j => FailoverOrder[i] # FailoverOrder[j]
  BY <1>1, <1>2, FailoverListsClients
<1>4. PICK t \in 1..n : t = imgJob[g].turn
  BY <1>1, <1>2 DEF RunIsInOrder, Requested, ImgAt, Turns
<1>5. PICK c \in ToSet(Clients) : c = ClientOf(g)
  BY <1>3, <1>4 DEF ClientOf
<1>6. c = FailoverOrder[t] /\ \A i \in 1..n : i # t => FailoverOrder[i] # c
  BY <1>3, <1>4, <1>5 DEF ClientOf
<1>7. PICK k \in Nat \ {0} : k = imgJob[g].attempt
  BY <1>1, ClientsAreConfigured DEF ImageJobType
<1>8. CASE ImgAt(g, "ask") /\ Asked(g)
  <2>1. asked[g][c] = k - 1
    BY <1>1, <1>2, <1>4, <1>6, <1>7, <1>8 DEF RunIsInOrder, Turns, ImgAt
  <2>2. PICK a \in [ToSet(Clients) -> Nat] : a = [asked[g] EXCEPT ![c] = asked[g][c] + 1]
    <3>1. asked[g] \in [ToSet(Clients) -> Nat] /\ asked[g][c] + 1 \in Nat
      BY <1>1
    <3>2. [asked[g] EXCEPT ![c] = asked[g][c] + 1] \in [ToSet(Clients) -> Nat]
      BY <3>1
    <3> QED
      BY <3>2
  <2>3. asked' = [asked EXCEPT ![g] = a]
    BY <1>5, <1>8, <2>2 DEF Asked
  <2>4. a[c] = k /\ \A d \in ToSet(Clients) : d # c => a[d] = asked[g][d]
    <3>1. a[c] = asked[g][c] + 1 /\ \A d \in ToSet(Clients) : d # c => a[d] = asked[g][d]
      BY <1>1, <2>2
    <3> QED
      BY <2>1, <3>1
  <2>5. asked'[g] = a /\ (\A h \in ImageJobs : h # g => asked'[h] = asked[h])
        /\ asked' \in [ImageJobs -> [ToSet(Clients) -> Nat]]
    BY <1>1, <2>3
  <2>6. \A i \in 1..n : i # t => asked'[g][FailoverOrder[i]] = asked[g][FailoverOrder[i]]
    BY <1>3, <1>6, <2>4, <2>5
  <2> QED
    BY <1>2, <1>4, <1>5, <1>7, <2>4, <2>5, <2>6 DEF Turns
<1>9. CASE ImgAt(g, "poll") /\ asked' = asked
  <2>1. asked[g][c] = k
    BY <1>1, <1>2, <1>4, <1>6, <1>7, <1>9 DEF RunIsInOrder, Turns, ImgAt
  <2> QED
    BY <1>1, <1>2, <1>4, <1>5, <1>7, <1>9, <2>1 DEF Turns
<1> QED
  BY <1>8, <1>9 DEF Requested

\* After a request the job waits for the images or has them.
LEMMA RequestGoesOn ==
  ASSUME FailoverInv, NEW g \in ImageJobs, Requested(g), imgEnv' = imgEnv,
         NEW j \in ImageJobType, imgJob' = [imgJob EXCEPT ![g] = j],
         j.turn = imgJob[g].turn, j.attempt = imgJob[g].attempt, j.pc \in {"poll", "store"},
         ToSet(tracked[g]) \subseteq ToSet(tracked'[g])
  PROVE  RunIsInOrder(g)'
<1>1. /\ RunIsInOrder(g) /\ imgJob \in [ImageJobs -> ImageJobType]
  BY DEF FailoverInv, ImgTypeOK
<1>2. imgJob'[g] = j
  BY <1>1
<1>3. FailoverOrder' = FailoverOrder /\ Turns' = Turns
  BY DEF FailoverOrder, SortedClients, GoesBefore, Turns
<1>4. /\ imgJob[g].turn \in Turns
      /\ asked'[g][FailoverOrder[imgJob[g].turn]] = imgJob[g].attempt
      /\ \A i \in Turns : i # imgJob[g].turn => asked'[g][FailoverOrder[i]] = asked[g][FailoverOrder[i]]
  BY RequestedNow DEF ClientOf
<1>5. imgJob[g].attempt <= MaxAttempts
  BY <1>1 DEF ImageJobType
<1>6. Turns \subseteq Int
  BY DEF Turns
<1>7. ASSUME NEW i \in Turns
      PROVE  /\ i < j.turn => /\ asked'[g][FailoverOrder[i]] = MaxAttempts
                              /\ [client |-> FailoverOrder[i], ok |-> FALSE] \in ToSet(tracked'[g])
             /\ i > j.turn => asked'[g][FailoverOrder[i]] = 0
             /\ i = j.turn => asked'[g][FailoverOrder[i]] = j.attempt
  <2>1. i < j.turn => i # j.turn
    BY <1>4, <1>6
  <2>2. i > j.turn => i # j.turn
    BY <1>4, <1>6
  <2> QED
    BY <1>1, <1>4, <2>1, <2>2 DEF RunIsInOrder
<1>8. j.pc \notin NotYetAsking /\ j.turn \in Turns
  BY <1>4 DEF NotYetAsking
<1> QED
  BY <1>2, <1>3, <1>5, <1>7, <1>8 DEF RunIsInOrder

\* After a failed attempt the same client is asked again, the next one, or none.
LEMMA FailureGoesOn ==
  ASSUME FailoverInv, NEW g \in ImageJobs, Requested(g), imgEnv' = imgEnv, AttemptFails(g)
  PROVE  /\ RunIsInOrder(g)'
         /\ imgJob' \in [ImageJobs -> ImageJobType]
         /\ tracked' \in [ImageJobs -> Seq(TrackedType)]
         /\ \A h \in ImageJobs : h # g => imgJob'[h] = imgJob[h] /\ tracked'[h] = tracked[h]
         /\ AttemptsCounted(g)' = AttemptsCounted(g)
         /\ imgJob'[g].stalls = imgJob[g].stalls /\ imgJob'[g].pc \in {"ask", "catch"}
<1>1. /\ imgEnv \in ImageEnvironments /\ RunIsInOrder(g) /\ imgJob \in [ImageJobs -> ImageJobType]
      /\ tracked \in [ImageJobs -> Seq(TrackedType)]
  BY DEF FailoverInv, ImgTypeOK
<1>2. FailoverOrder' = FailoverOrder /\ Turns' = Turns
  BY DEF FailoverOrder, SortedClients, GoesBefore, Turns
<1>3. PICK n \in Nat : n = Cardinality(imgEnv.enabled)
  BY <1>1, FailoverListsClients
<1>4. Turns = 1..n /\ Len(FailoverOrder) = n
  <2>1. FailoverOrder \in [1..n -> imgEnv.enabled]
    BY <1>1, <1>3, FailoverListsClients
  <2>2. FailoverOrder \in Seq(imgEnv.enabled) /\ DOMAIN FailoverOrder = 1..n
    BY <2>1
  <2> QED
    BY <1>3, <2>2, LenProperties DEF Turns
<1>5. PICK t \in 1..n : t = imgJob[g].turn
  BY <1>4, RequestedNow
<1>6. PICK k \in 1..MaxAttempts : k = imgJob[g].attempt
  BY <1>1 DEF ImageJobType
<1>7. PICK m \in Nat \ {0} : m = MaxAttempts
  BY ClientsAreConfigured
<1>8. /\ asked'[g][FailoverOrder[t]] = k
      /\ \A i \in 1..n : i # t => asked'[g][FailoverOrder[i]] = asked[g][FailoverOrder[i]]
      /\ FailoverOrder[t] \in ToSet(Clients)
  BY <1>4, <1>5, <1>6, RequestedNow DEF ClientOf
<1>9. /\ \A i \in 1..n : i < t => /\ asked'[g][FailoverOrder[i]] = m
                                 /\ [client |-> FailoverOrder[i], ok |-> FALSE] \in ToSet(tracked[g])
      /\ \A i \in 1..n : i > t => asked'[g][FailoverOrder[i]] = 0
  <2>1. ASSUME NEW i \in 1..n, i < t
        PROVE  /\ asked[g][FailoverOrder[i]] = m
               /\ [client |-> FailoverOrder[i], ok |-> FALSE] \in ToSet(tracked[g])
    BY <1>1, <1>4, <1>5, <1>7, <2>1 DEF RunIsInOrder
  <2>2. ASSUME NEW i \in 1..n, i > t PROVE asked[g][FailoverOrder[i]] = 0
    BY <1>1, <1>4, <1>5, <2>2 DEF RunIsInOrder
  <2> QED
    BY <1>5, <1>8, <2>1, <2>2
<1>10. CASE AttemptsLeft(g)
  <2> DEFINE r == [imgJob[g] EXCEPT !.pc = "ask", !.attempt = imgJob[g].attempt + 1]
  <2>1. k < m /\ k + 1 \in 1..MaxAttempts
    BY <1>6, <1>7, <1>10 DEF AttemptsLeft
  <2>2. r \in ImageJobType /\ r.pc = "ask" /\ r.attempt = k + 1 /\ r.turn = t /\ r.stalls = imgJob[g].stalls
    BY <1>1, <1>5, <1>6, <2>1 DEF ImageJobType
  <2>3. imgJob' = [imgJob EXCEPT ![g] = r] /\ tracked' = tracked
    BY <1>10 DEF AttemptFails
  <2> HIDE DEF r
  <2>4. imgJob' \in [ImageJobs -> ImageJobType] /\ imgJob'[g] = r
        /\ \A h \in ImageJobs : h # g => imgJob'[h] = imgJob[h]
    BY <1>1, <2>2, <2>3
  <2>5. AttemptsCounted(g)' = AttemptsCounted(g)
    BY <2>3 DEF AttemptsCounted
  <2>6. RunIsInOrder(g)'
    <3>1. r.pc \notin NotYetAsking /\ (k + 1) - 1 = k /\ k <= m
      BY <2>1, <2>2 DEF NotYetAsking
    <3>2. \A i \in 1..n :
            /\ i < t =>
                 /\ asked'[g][FailoverOrder[i]] = MaxAttempts
                 /\ [client |-> FailoverOrder[i], ok |-> FALSE] \in ToSet(tracked'[g])
            /\ i > t => asked'[g][FailoverOrder[i]] = 0
            /\ i = t =>
                 /\ asked'[g][FailoverOrder[i]] <= MaxAttempts
                 /\ asked'[g][FailoverOrder[i]] = (k + 1) - 1
      BY <1>7, <1>8, <1>9, <2>3, <3>1
    <3> QED
      BY <1>2, <1>4, <1>5, <2>2, <2>4, <3>1, <3>2 DEF RunIsInOrder
  <2> QED
    BY <1>1, <2>2, <2>3, <2>4, <2>5, <2>6
<1>11. CASE ~AttemptsLeft(g)
  <2>1. k = m
    BY <1>6, <1>7, <1>11 DEF AttemptsLeft
  <2> DEFINE e == [client |-> FailoverOrder[t], ok |-> FALSE]
             r == IF t < n THEN [imgJob[g] EXCEPT !.pc = "ask", !.turn = imgJob[g].turn + 1, !.attempt = 1]
                           ELSE [imgJob[g] EXCEPT !.pc = "catch"]
  <2>2. e \in TrackedType /\ e.ok = FALSE
    BY <1>8 DEF TrackedType
  <2>3. /\ r \in ImageJobType /\ r.stalls = imgJob[g].stalls
        /\ \/ r.pc = "ask" /\ t < n /\ r.turn = t + 1 /\ r.attempt = 1
           \/ r.pc = "catch" /\ r.turn = t
    <3>1. imgJob[g] \in ImageJobType /\ t + 1 \in Nat \ {0} /\ 1 \in 1..MaxAttempts
      BY <1>1, <1>7
    <3> QED
      BY <1>5, <3>1 DEF ImageJobType
  <2>4. tracked' = [tracked EXCEPT ![g] = Append(tracked[g], e)]
    BY <1>5, <1>11 DEF AttemptFails, Entry, ClientOf
  <2>5. imgJob' = [imgJob EXCEPT ![g] = r]
    BY <1>4, <1>5, <1>11 DEF AttemptFails
  <2>6. /\ tracked' \in [ImageJobs -> Seq(TrackedType)]
        /\ \A h \in ImageJobs : h # g => tracked'[h] = tracked[h]
        /\ ToSet(tracked'[g]) = ToSet(tracked[g]) \cup {e}
        /\ AttemptsCounted(g)' = AttemptsCounted(g)
    <3> HIDE DEF e
    <3> QED BY <1>1, <2>2, <2>4, TrackingGrows
  <2> HIDE DEF r
  <2>7. imgJob' \in [ImageJobs -> ImageJobType] /\ imgJob'[g] = r
        /\ \A h \in ImageJobs : h # g => imgJob'[h] = imgJob[h]
    BY <1>1, <2>3, <2>5
  <2>8. /\ \A i \in 1..n : i <= t =>
              /\ asked'[g][FailoverOrder[i]] = m
              /\ [client |-> FailoverOrder[i], ok |-> FALSE] \in ToSet(tracked'[g])
        /\ \A i \in 1..n : i > t => asked'[g][FailoverOrder[i]] = 0
    <3>1. ASSUME NEW i \in 1..n, i <= t
          PROVE  /\ asked'[g][FailoverOrder[i]] = m
                 /\ [client |-> FailoverOrder[i], ok |-> FALSE] \in ToSet(tracked'[g])
      <4>1. CASE i = t
        BY <1>8, <2>1, <2>6, <4>1
      <4>2. CASE i < t
        BY <1>9, <2>6, <4>2
      <4> QED
        BY <3>1, <4>1, <4>2
    <3> QED
      BY <1>9, <3>1
  <2> HIDE DEF e
  <2>9. RunIsInOrder(g)'
    <3>1. CASE r.pc = "ask" /\ t < n /\ r.turn = t + 1 /\ r.attempt = 1
      <4>1. /\ \A i \in 1..n : i < t + 1 <=> i <= t
            /\ \A i \in 1..n : i > t + 1 => i > t
            /\ \A i \in 1..n : i = t + 1 => i > t
            /\ t + 1 \in 1..n /\ 1 - 1 = 0 /\ 0 <= m
        BY <3>1
      <4>2. \A i \in 1..n :
            /\ i < t + 1 =>
                 /\ asked'[g][FailoverOrder[i]] = MaxAttempts
                 /\ [client |-> FailoverOrder[i], ok |-> FALSE] \in ToSet(tracked'[g])
            /\ i > t + 1 => asked'[g][FailoverOrder[i]] = 0
            /\ i = t + 1 =>
                 /\ asked'[g][FailoverOrder[i]] <= MaxAttempts
                 /\ asked'[g][FailoverOrder[i]] = 1 - 1
        BY <1>7, <2>8, <4>1
      <4>3. r.pc \notin NotYetAsking
        BY <3>1 DEF NotYetAsking
      <4> QED
        BY <1>2, <1>4, <2>7, <3>1, <4>1, <4>2, <4>3 DEF RunIsInOrder
    <3>2. CASE r.pc = "catch" /\ r.turn = t
      <4>1. \A i \in 1..n :
            /\ i < t =>
                 /\ asked'[g][FailoverOrder[i]] = MaxAttempts
                 /\ [client |-> FailoverOrder[i], ok |-> FALSE] \in ToSet(tracked'[g])
            /\ i > t => asked'[g][FailoverOrder[i]] = 0
            /\ i = t => asked'[g][FailoverOrder[i]] <= MaxAttempts
        BY <1>7, <2>8
      <4>2. r.pc \notin NotYetAsking
        BY <3>2 DEF NotYetAsking
      <4> QED
        BY <1>2, <1>4, <2>7, <3>2, <4>1, <4>2 DEF RunIsInOrder
    <3> QED
      BY <2>3, <3>1, <3>2
  <2> QED
    BY <2>3, <2>6, <2>7, <2>9
<1> QED
  BY <1>10, <1>11

\* One job moves.
LEMMA FailoverMoves ==
  ASSUME FailoverInv, NEW g \in ImageJobs, UNCHANGED <<imgEnv, imgRow>>,
         imgJob' \in [ImageJobs -> ImageJobType], asked' \in [ImageJobs -> [ToSet(Clients) -> Nat]],
         made' \in [ImageJobs -> Nat], tracked' \in [ImageJobs -> Seq(TrackedType)],
         \A h \in ImageJobs : h # g => /\ imgJob'[h] = imgJob[h] /\ asked'[h] = asked[h]
                                      /\ made'[h] = made[h] /\ tracked'[h] = tracked[h],
         RunIsInOrder(g)', CountIsMade(g)'
  PROVE  FailoverInv'
<1>1. ImgTypeOK'
  BY DEF FailoverInv, ImgTypeOK
<1>2. \A h \in ImageJobs : h # g => RunIsInOrder(h)' /\ CountIsMade(h)'
  BY OtherJobStays
<1> QED
  BY <1>1, <1>2 DEF FailoverInv

\* The providers fail an attempt, whether or not they had taken it on.
LEMMA FailureKeeps ==
  ASSUME FailoverInv, NEW g \in ImageJobs, UNCHANGED <<imgEnv, imgRow>>,
         Requested(g), MayFail("providers"), AttemptFails(g),
         \/ made' = made
         \/ TakenOn(g)
         \/ ImgAt(g, "poll") /\ made' = [made EXCEPT ![g] = @ - 1]
  PROVE  FailoverInv'
<1>1. CountIsMade(g) /\ made \in [ImageJobs -> Nat] /\ imgJob[g] \in ImageJobType
  BY DEF FailoverInv, ImgTypeOK
<1>2. PICK c \in Nat, m \in Nat, s \in Nat :
        c = AttemptsCounted(g) /\ m = made[g] /\ s = imgJob[g].stalls /\ c <= m /\ c <= s
        /\ (ImgAt(g, "poll") => c + 1 <= m)
  <2>1. MaxImageStalls \in Nat
    BY ClientsAreConfigured
  <2>2. imgJob[g].pc \in {"ask", "poll"}
    BY DEF Requested, ImgAt
  <2>3. imgJob[g].stalls \in Nat
    BY <1>1, <2>1 DEF ImageJobType
  <2> QED
    BY <1>1, <2>2, <2>3 DEF CountIsMade, ImgAt
<1>3. PICK k \in Nat : made' = [made EXCEPT ![g] = k] /\ c <= k
  <2>1. CASE made' = made
    BY <1>1, <1>2, <2>1
  <2>2. CASE TakenOn(g)
    <3>1. made' = [made EXCEPT ![g] = m + 1]
      BY <1>1, <1>2, <2>2 DEF TakenOn
    <3>2. m + 1 \in Nat /\ c <= m + 1
      BY <1>2
    <3> QED
      BY <3>1, <3>2
  <2>3. CASE ImgAt(g, "poll") /\ made' = [made EXCEPT ![g] = @ - 1]
    <3>1. made' = [made EXCEPT ![g] = m - 1]
      BY <1>1, <1>2, <2>3
    <3>2. m - 1 \in Nat /\ c <= m - 1
      BY <1>2, <2>3
    <3> QED
      BY <3>1, <3>2
  <2> QED
    BY <2>1, <2>2, <2>3
<1>4. /\ made' \in [ImageJobs -> Nat] /\ made'[g] = k
      /\ \A h \in ImageJobs : h # g => made'[h] = made[h]
  BY <1>1, <1>3
<1>5. /\ RunIsInOrder(g)' /\ AttemptsCounted(g)' = c /\ imgJob'[g].stalls = s
      /\ imgJob'[g].pc \in {"ask", "catch"}
  BY <1>2, FailureGoesOn
<1>6. MayFail("providers")' /\ c <= s + 1
  BY <1>2 DEF MayFail
<1>7. CountIsMade(g)'
  BY <1>2, <1>3, <1>4, <1>5, <1>6 DEF CountIsMade
<1> QED
  BY <1>4, <1>5, <1>7, FailoverMoves, FailureGoesOn, RequestedNow

\* A provider takes a generation on; or it has made one, which is counted.
LEMMA SuccessKeeps ==
  ASSUME FailoverInv, NEW g \in ImageJobs, UNCHANGED <<imgEnv, imgRow>>, Requested(g),
         \/ ImgAt(g, "ask") /\ ImgGoto(g, "poll") /\ TakenOn(g) /\ tracked' = tracked
         \/ ImgAt(g, "ask") /\ Succeeds(g) /\ TakenOn(g)
         \/ ImgAt(g, "poll") /\ Succeeds(g) /\ made' = made
  PROVE  FailoverInv'
<1>1. /\ CountIsMade(g) /\ made \in [ImageJobs -> Nat] /\ imgJob \in [ImageJobs -> ImageJobType]
      /\ tracked \in [ImageJobs -> Seq(TrackedType)]
  BY DEF FailoverInv, ImgTypeOK
<1>2. PICK c \in Nat, m \in Nat, s \in Nat :
        c = AttemptsCounted(g) /\ m = made[g] /\ s = imgJob[g].stalls /\ c <= m /\ c <= s
        /\ (ImgAt(g, "poll") => c + 1 <= m)
  <2>1. MaxImageStalls \in Nat
    BY ClientsAreConfigured
  <2>2. imgJob[g].pc \in {"ask", "poll"}
    BY DEF Requested, ImgAt
  <2>3. imgJob[g].stalls \in Nat
    BY <1>1, <2>1 DEF ImageJobType
  <2> QED
    BY <1>1, <2>2, <2>3 DEF CountIsMade, ImgAt
<1>3. PICK pc \in {"poll", "store"} : ImgGoto(g, pc)
  BY DEF Succeeds
<1> DEFINE r == [imgJob[g] EXCEPT !.pc = pc]
<1>4. /\ r \in ImageJobType /\ r.pc = pc /\ r.turn = imgJob[g].turn
      /\ r.attempt = imgJob[g].attempt /\ r.stalls = s
  BY <1>1, <1>2 DEF ImageJobType
<1>5. imgJob' = [imgJob EXCEPT ![g] = r]
  BY <1>1, <1>3 DEF ImgGoto
<1> HIDE DEF r
<1>6. /\ imgJob' \in [ImageJobs -> ImageJobType] /\ imgJob'[g] = r
      /\ \A h \in ImageJobs : h # g => imgJob'[h] = imgJob[h]
  BY <1>1, <1>4, <1>5
<1> DEFINE e == [client |-> ClientOf(g), ok |-> TRUE]
<1>7. e \in TrackedType /\ e.ok
  BY RequestedNow DEF TrackedType
<1>8. Succeeds(g) => tracked' = [tracked EXCEPT ![g] = Append(tracked[g], e)]
  BY DEF Succeeds, Entry
<1> HIDE DEF e
<1>9. /\ tracked' \in [ImageJobs -> Seq(TrackedType)]
      /\ \A h \in ImageJobs : h # g => tracked'[h] = tracked[h]
      /\ ToSet(tracked[g]) \subseteq ToSet(tracked'[g])
      /\ Succeeds(g) => AttemptsCounted(g)' = c + 1
      /\ tracked' = tracked => AttemptsCounted(g)' = c
  <2>1. CASE Succeeds(g)
    <3>1. AttemptsCounted(g)' = c + 1
      BY <1>1, <1>2, <1>7, <1>8, <2>1, TrackingGrows
    <3>2. tracked' # tracked
      <4>1. tracked'[g] = Append(tracked[g], e) /\ tracked[g] \in Seq(TrackedType)
        BY <1>1, <1>8, <2>1
      <4>2. Len(Append(tracked[g], e)) = Len(tracked[g]) + 1 /\ Len(tracked[g]) \in Nat
        BY <1>7, <4>1
      <4> QED
        BY <4>1, <4>2
    <3> QED
      BY <1>1, <1>7, <1>8, <2>1, <3>1, <3>2, TrackingGrows
  <2>2. CASE tracked' = tracked
    <3>1. AttemptsCounted(g)' = c
      BY <1>2, <2>2 DEF AttemptsCounted
    <3>2. ~Succeeds(g)
      <4>1. SUFFICES ASSUME Succeeds(g) PROVE FALSE
        OBVIOUS
      <4>2. tracked'[g] = Append(tracked[g], e) /\ tracked[g] \in Seq(TrackedType)
        BY <1>1, <1>8, <4>1
      <4>3. Len(Append(tracked[g], e)) = Len(tracked[g]) + 1 /\ Len(tracked[g]) \in Nat
        BY <1>7, <4>2
      <4> QED
        BY <2>2, <4>2, <4>3
    <3> QED
      BY <1>1, <2>2, <3>1, <3>2
  <2> QED
    BY <2>1, <2>2
<1>10. PICK k \in Nat : /\ made' = [made EXCEPT ![g] = k]
                        /\ ImgAt(g, "ask") => k = m + 1
                        /\ ImgAt(g, "poll") => k = m
  <2>1. CASE TakenOn(g) /\ ImgAt(g, "ask")
    <3>1. made' = [made EXCEPT ![g] = m + 1] /\ m + 1 \in Nat
      BY <1>1, <1>2, <2>1 DEF TakenOn
    <3> QED
      BY <2>1, <3>1 DEF ImgAt
  <2>2. CASE made' = made /\ ImgAt(g, "poll")
    <3>1. made' = [made EXCEPT ![g] = m] /\ m \in Nat
      BY <1>1, <1>2, <2>2
    <3> QED
      BY <2>2, <3>1 DEF ImgAt
  <2> QED
    BY <2>1, <2>2
<1>11. /\ made' \in [ImageJobs -> Nat] /\ made'[g] = k
       /\ \A h \in ImageJobs : h # g => made'[h] = made[h]
  BY <1>1, <1>10
<1>12. RunIsInOrder(g)'
  BY <1>1, <1>2, <1>3, <1>4, <1>5, <1>9, RequestGoesOn
<1>13. /\ pc = "poll" => ImgAt(g, "ask") /\ AttemptsCounted(g)' = c
       /\ pc = "store" => AttemptsCounted(g)' = c + 1
  <2>1. \A p \in {"poll", "store"} : ImgGoto(g, p) => p = pc
    BY <1>1, <1>3 DEF ImgGoto, ImageJobType
  <2> QED
    BY <1>9, <2>1 DEF Succeeds, ImgAt
<1>14. ~MayFail("providers") /\ ~MayFail("worker") => k <= 1
  BY <1>1, <1>2, <1>10 DEF CountIsMade, NotYetAsking, ImgAt
<1>15. ImgAt(g, "ask") \/ ImgAt(g, "poll")
  OBVIOUS
<1>16. /\ AttemptsCounted(g)' \in Nat /\ AttemptsCounted(g)' <= k /\ AttemptsCounted(g)' <= s + 1
       /\ pc = "poll" => AttemptsCounted(g)' + 1 <= k /\ AttemptsCounted(g)' <= s
  BY <1>2, <1>3, <1>10, <1>13, <1>15
<1>17. MayFail("providers")' = MayFail("providers") /\ MayFail("worker")' = MayFail("worker")
  BY DEF MayFail
<1>18. CountIsMade(g)'
  BY <1>4, <1>6, <1>11, <1>14, <1>16, <1>17 DEF CountIsMade, NotYetAsking
<1> QED
  BY <1>6, <1>9, <1>11, <1>12, <1>18, FailoverMoves, RequestedNow

\* A job that stalls starts over with the first client.
LEMMA StallKeepsFailover == \A g \in ImageJobs : FailoverInv /\ StallImageJob(g) => FailoverInv'
<1> SUFFICES ASSUME NEW g \in ImageJobs, FailoverInv, StallImageJob(g) PROVE FailoverInv'
  OBVIOUS
<1>1. /\ imgEnv \in ImageEnvironments /\ CountIsMade(g) /\ imgJob \in [ImageJobs -> ImageJobType]
      /\ asked \in [ImageJobs -> [ToSet(Clients) -> Nat]] /\ made \in [ImageJobs -> Nat]
      /\ tracked \in [ImageJobs -> Seq(TrackedType)]
  BY DEF FailoverInv, ImgTypeOK
<1>2. PICK n \in Nat : n = Cardinality(imgEnv.enabled)
  BY <1>1, FailoverListsClients
<1>3. FailoverOrder \in [1..n -> imgEnv.enabled] /\ imgEnv.enabled \subseteq ToSet(Clients)
  BY <1>1, <1>2, FailoverListsClients
<1>4. MaxAttempts \in Nat \ {0} /\ MaxImageStalls \in Nat
  BY ClientsAreConfigured
<1>5. PICK s \in 0..MaxImageStalls : s = imgJob[g].stalls /\ s + 1 \in 0..MaxImageStalls
  <2>1. imgJob[g].stalls \in 0..MaxImageStalls /\ imgJob[g].stalls < MaxImageStalls
    BY <1>1 DEF ImageJobType, StallImageJob
  <2> QED
    BY <1>4, <2>1
<1> DEFINE r == [imgJob[g] EXCEPT !.pc = "find", !.turn = 1, !.attempt = 1,
                                  !.stalls = imgJob[g].stalls + 1]
<1>6. r \in ImageJobType /\ r.pc = "find" /\ r.turn = 1 /\ r.attempt = 1 /\ r.stalls = s + 1
  <2>1. 1 \in 1..MaxAttempts /\ 1 \in Nat \ {0} /\ imgJob[g] \in ImageJobType
    BY <1>1, <1>4
  <2>2. imgJob[g].stalls + 1 \in 0..MaxImageStalls
    BY <1>5
  <2> QED
    BY <1>5, <2>1, <2>2 DEF ImageJobType
<1>7. imgJob' = [imgJob EXCEPT ![g] = r]
  BY DEF StallImageJob
<1> HIDE DEF r
<1>8. /\ imgJob' \in [ImageJobs -> ImageJobType] /\ imgJob'[g] = r
      /\ \A h \in ImageJobs : h # g => imgJob'[h] = imgJob[h]
  BY <1>1, <1>6, <1>7
<1>9. NoClientAsked \in [ToSet(Clients) -> Nat] /\ \A c \in ToSet(Clients) : NoClientAsked[c] = 0
  BY DEF NoClientAsked
<1>10. /\ asked' \in [ImageJobs -> [ToSet(Clients) -> Nat]] /\ asked'[g] = NoClientAsked
       /\ \A h \in ImageJobs : h # g => asked'[h] = asked[h]
  BY <1>1, <1>9 DEF StallImageJob
<1>11. UNCHANGED <<imgEnv, imgRow, made, tracked>>
  BY DEF StallImageJob
<1>12. /\ FailoverOrder' = FailoverOrder /\ Turns' = Turns /\ NoClientAsked' = NoClientAsked
       /\ AttemptsCounted(g)' = AttemptsCounted(g) /\ MayFail("worker")'
  BY <1>11 DEF FailoverOrder, SortedClients, GoesBefore, Turns, NoClientAsked, AttemptsCounted, MayFail,
               StallImageJob
<1>13. \A i \in 1..n : asked'[g][FailoverOrder[i]] = 0
  BY <1>3, <1>9, <1>10
<1>16. \A i \in 1..n : ~(i < 1) /\ 0 <= MaxAttempts
  BY <1>4
<1>14. RunIsInOrder(g)'
  BY <1>2, <1>6, <1>8, <1>10, <1>12, <1>13, <1>16 DEF RunIsInOrder, Turns
<1>15. CountIsMade(g)'
  <2>1. AttemptsCounted(g) \in Nat /\ AttemptsCounted(g) <= made[g] /\ AttemptsCounted(g) <= s + 1
    BY <1>1, <1>5 DEF CountIsMade
  <2>2. AttemptsCounted(g) <= (s + 1) + 1
    BY <1>5, <2>1
  <2> QED
    BY <1>6, <1>8, <1>11, <1>12, <2>1, <2>2 DEF CountIsMade
<1> QED
  BY <1>1, <1>8, <1>10, <1>11, <1>14, <1>15, FailoverMoves

\* Only the client whose turn it is is asked.
LEMMA AsksKeepFailover ==
  \A g \in ImageJobs : FailoverInv /\ (AskFal(g) \/ AskReplicate(g) \/ AskTogether(g)) => FailoverInv'
<1> SUFFICES ASSUME NEW g \in ImageJobs, FailoverInv, AskFal(g) \/ AskReplicate(g) \/ AskTogether(g)
             PROVE  FailoverInv'
  OBVIOUS
<1>1. Requested(g) /\ ImgAt(g, "ask") /\ UNCHANGED <<imgEnv, imgRow>>
  BY DEF AskFal, AskReplicate, AskTogether, Requested
<1>2. CASE RequestFails(g)
  BY <1>1, <1>2, FailureKeeps DEF RequestFails
<1>3. CASE ImgGoto(g, "poll") /\ TakenOn(g) /\ tracked' = tracked
  BY <1>1, <1>3, SuccessKeeps
<1>4. CASE Succeeds(g) /\ TakenOn(g)
  BY <1>1, <1>4, SuccessKeeps
<1> QED
  BY <1>2, <1>3, <1>4 DEF AskFal, AskReplicate, AskTogether

\* Polling ends an attempt, or goes on with it.
LEMMA PollsKeepFailover ==
  \A g \in ImageJobs : FailoverInv /\ (PollFal(g) \/ PollReplicate(g) \/ PollGivesUp(g)) => FailoverInv'
<1> SUFFICES ASSUME NEW g \in ImageJobs, FailoverInv, PollFal(g) \/ PollReplicate(g) \/ PollGivesUp(g)
             PROVE  FailoverInv'
  OBVIOUS
<1>1. Requested(g) /\ ImgAt(g, "poll") /\ UNCHANGED <<imgEnv, imgRow>>
  BY DEF PollFal, PollReplicate, PollGivesUp, Requested
<1>2. CASE MayFail("providers") /\ AttemptFails(g)
           /\ (made' = made \/ made' = [made EXCEPT ![g] = @ - 1])
  BY <1>1, <1>2, FailureKeeps
<1>3. CASE Succeeds(g) /\ made' = made
  BY <1>1, <1>3, SuccessKeeps
<1> QED
  BY <1>2, <1>3 DEF PollFal, PollReplicate, PollGivesUp, PollEnds

\* The job only goes to another state.
LEMMA GotoKeepsFailover ==
  ASSUME FailoverInv, NEW g \in ImageJobs,
         NEW pc \in {"created", "find", "simulate", "moderate", "ask", "complete", "return", "catch",
                     "completed", "failed"},
         ImgGoto(g, pc), imgRow' \in [ImageJobs -> RowType], UNCHANGED <<imgEnv, asked, made, tracked>>,
         pc \in NotYetAsking \cup {"ask"} => imgJob[g].pc \in NotYetAsking,
         pc = "ask" => Turns # {}
  PROVE  FailoverInv'
<1>1. imgJob \in [ImageJobs -> ImageJobType]
  BY DEF FailoverInv, ImgTypeOK
<1> DEFINE r == [imgJob[g] EXCEPT !.pc = pc]
<1>2. /\ r \in ImageJobType /\ r.pc = pc /\ r.turn = imgJob[g].turn
      /\ r.attempt = imgJob[g].attempt /\ r.stalls = imgJob[g].stalls
  BY <1>1 DEF ImageJobType
<1>3. imgJob' = [imgJob EXCEPT ![g] = r]
  BY <1>1 DEF ImgGoto
<1> HIDE DEF r
<1> QED
  BY <1>2, <1>3, GoesOnInOrder

\* The job finds the row that it will mark.
LEMMA FindKeepsFailover ==
  ASSUME FailoverInv, NEW g \in ImageJobs, NEW pc \in {"mark", "fail"}, NEW k \in ImageJobs,
         imgJob' = [imgJob EXCEPT ![g] = [imgJob[g] EXCEPT !.pc = pc, !.row = k]],
         UNCHANGED <<imgEnv, imgRow, asked, made, tracked>>,
         pc = "mark" => imgJob[g].pc \in NotYetAsking
  PROVE  FailoverInv'
<1>1. imgJob \in [ImageJobs -> ImageJobType] /\ imgRow \in [ImageJobs -> RowType]
  BY DEF FailoverInv, ImgTypeOK
<1> DEFINE r == [imgJob[g] EXCEPT !.pc = pc, !.row = k]
<1>2. /\ r \in ImageJobType /\ r.pc = pc /\ r.turn = imgJob[g].turn
      /\ r.attempt = imgJob[g].attempt /\ r.stalls = imgJob[g].stalls
  BY <1>1 DEF ImageJobType
<1>3. imgJob' = [imgJob EXCEPT ![g] = r]
  OBVIOUS
<1> HIDE DEF r
<1>4. r.pc \in NotYetAsking => imgJob[g].pc \in NotYetAsking
  BY <1>2 DEF NotYetAsking
<1> QED
  BY <1>1, <1>2, <1>3, <1>4, GoesOnInOrder

\* A row is given another status, and perhaps the job's images.
LEMMA RowsKeepType ==
  ASSUME imgRow \in [ImageJobs -> RowType], NEW g \in ImageJobs, NEW r
  PROVE  /\ \A st \in {"pending", "processing", "failed"} :
               [imgRow EXCEPT ![r].status = st] \in [ImageJobs -> RowType]
         /\ [imgRow EXCEPT ![r] = [status |-> "completed", images |-> g]] \in [ImageJobs -> RowType]
<1>1. ASSUME NEW st \in {"pending", "processing", "failed"}
      PROVE  [imgRow EXCEPT ![r].status = st] \in [ImageJobs -> RowType]
  BY DEF RowType, Open
<1>2. [status |-> "completed", images |-> g] \in RowType
  BY DEF RowType
<1> QED
  BY <1>1, <1>2

\* Every step of the image jobs keeps the clients in order.
LEMMA FailoverInvStep == RowsPresent /\ FailoverInv /\ [ImgNext]_imgVars => FailoverInv'
<1> SUFFICES ASSUME RowsPresent, FailoverInv, [ImgNext]_imgVars PROVE FailoverInv'
  OBVIOUS
<1>1. imgRow \in [ImageJobs -> RowType] /\ imgEnv \in ImageEnvironments
  BY DEF FailoverInv, ImgTypeOK
<1>2. CASE UNCHANGED imgVars
  <2>1. ImgTypeOK'
    BY <1>2 DEF FailoverInv, ImgTypeOK, imgVars
  <2>2. \A h \in ImageJobs : RunIsInOrder(h)' /\ CountIsMade(h)'
    BY <1>2, OtherJobStays DEF imgVars
  <2> QED
    BY <2>1, <2>2 DEF FailoverInv
<1>3. CASE ImgNext
  <2> PICK g \in ImageJobs :
        \/ CreateImageRow(g) \/ TakeImageJob(g) \/ StallImageJob(g)
        \/ FindRow(g) \/ MarkProcessing(g) \/ SimulateImages(g)
        \/ ModeratePrompt(g) \/ AskFal(g) \/ AskReplicate(g) \/ AskTogether(g)
        \/ PollFal(g) \/ PollReplicate(g) \/ PollGivesUp(g)
        \/ StoreImages(g) \/ CompleteRow(g) \/ ReturnResult(g)
        \/ FindFailed(g) \/ MarkRowFailed(g)
    BY <1>3 DEF ImgNext
  <2>1. CASE CreateImageRow(g)
    <3>1. imgRow' \in [ImageJobs -> RowType] /\ ImgGoto(g, "created")
      BY <1>1, <2>1, RowsKeepType DEF CreateImageRow
    <3>2. imgJob[g].pc \in NotYetAsking
      BY <2>1 DEF RowsPresent, CreateImageRow, NotYetAsking
    <3> QED
      BY <2>1, <3>1, <3>2, GotoKeepsFailover DEF CreateImageRow
  <2>2. CASE TakeImageJob(g)
    <3>1. imgJob[g].pc \in NotYetAsking /\ ImgGoto(g, "find")
      BY <2>2 DEF TakeImageJob, ImgAt, NotYetAsking
    <3> QED
      BY <1>1, <2>2, <3>1, GotoKeepsFailover DEF TakeImageJob
  <2>3. CASE StallImageJob(g)
    BY <2>3, StallKeepsFailover
  <2>4. CASE FindRow(g)
    <3>1. imgJob[g].pc \in NotYetAsking /\ "catch" \notin NotYetAsking \cup {"ask"}
      BY <2>4 DEF FindRow, ImgAt, NotYetAsking
    <3>2. UNCHANGED <<imgEnv, imgRow, asked, made, tracked>>
      BY <2>4 DEF FindRow
    <3>3. CASE ImgGoto(g, "catch")
      BY <1>1, <3>1, <3>2, <3>3, GotoKeepsFailover
    <3>4. CASE \E k \in NewestOpen :
                 imgJob' = [imgJob EXCEPT ![g] = [imgJob[g] EXCEPT !.pc = "mark", !.row = k]]
      BY <3>1, <3>2, <3>4, FindKeepsFailover DEF NewestOpen
    <3> QED
      BY <2>4, <3>3, <3>4 DEF FindRow
  <2>5. CASE MarkProcessing(g)
    <3>1. imgRow' \in [ImageJobs -> RowType]
      BY <1>1, <2>5, RowsKeepType DEF MarkProcessing
    <3>2. imgJob[g].pc \in NotYetAsking
      BY <2>5 DEF MarkProcessing, ImgAt, NotYetAsking
    <3>3. \E pc \in {"simulate", "moderate"} : ImgGoto(g, pc)
      BY <2>5 DEF MarkProcessing
    <3> QED
      BY <2>5, <3>1, <3>2, <3>3, GotoKeepsFailover DEF MarkProcessing
  <2>6. CASE SimulateImages(g)
    <3>1. "complete" \notin NotYetAsking \cup {"ask"}
      BY DEF NotYetAsking
    <3> QED
      BY <1>1, <2>6, <3>1, GotoKeepsFailover DEF SimulateImages
  <2>7. CASE ModeratePrompt(g)
    <3>1. imgJob[g].pc \in NotYetAsking /\ "catch" \notin NotYetAsking \cup {"ask"}
      BY <2>7 DEF ModeratePrompt, ImgAt, NotYetAsking
    <3>2. UNCHANGED <<imgEnv, imgRow, asked, made, tracked>>
      BY <2>7 DEF ModeratePrompt
    <3>3. CASE ImgGoto(g, "catch")
      BY <1>1, <3>1, <3>2, <3>3, GotoKeepsFailover
    <3>4. CASE FailoverOrder # <<>> /\ ImgGoto(g, "ask")
      <4>1. PICK n \in Nat : n = Cardinality(imgEnv.enabled)
        BY <1>1, FailoverListsClients
      <4>2. FailoverOrder \in [1..n -> imgEnv.enabled]
        BY <1>1, <4>1, FailoverListsClients
      <4>3. n # 0
        <5>1. SUFFICES ASSUME n = 0 PROVE FailoverOrder = <<>>
          BY <3>4
        <5>2. FailoverOrder \in Seq(imgEnv.enabled) /\ DOMAIN FailoverOrder = 1..n
          BY <4>2
        <5> QED
          BY <5>1, <5>2, LenProperties, EmptySeq
      <4>4. 1 \in Turns
        BY <4>1, <4>3 DEF Turns
      <4> QED
        BY <1>1, <3>1, <3>2, <3>4, <4>4, GotoKeepsFailover
    <3> QED
      BY <2>7, <3>3, <3>4 DEF ModeratePrompt
  <2>8. CASE AskFal(g) \/ AskReplicate(g) \/ AskTogether(g)
    BY <2>8, AsksKeepFailover
  <2>9. CASE PollFal(g) \/ PollReplicate(g) \/ PollGivesUp(g)
    BY <2>9, PollsKeepFailover
  <2>10. CASE StoreImages(g)
    <3>1. \A pc \in {"complete", "catch"} : pc \notin NotYetAsking \cup {"ask"}
      BY DEF NotYetAsking
    <3>2. \E pc \in {"complete", "catch"} : ImgGoto(g, pc)
      BY <2>10 DEF StoreImages
    <3> QED
      BY <1>1, <2>10, <3>1, <3>2, GotoKeepsFailover DEF StoreImages
  <2>11. CASE CompleteRow(g)
    <3>1. \A pc \in {"return", "catch"} : pc \notin NotYetAsking \cup {"ask"}
      BY DEF NotYetAsking
    <3>2. \E pc \in {"return", "catch"} : ImgGoto(g, pc)
      BY <2>11 DEF CompleteRow
    <3>3. imgRow' \in [ImageJobs -> RowType]
      <4>1. \A k : [imgRow EXCEPT ![k] = [status |-> "completed", images |-> g]] \in [ImageJobs -> RowType]
        BY <1>1, RowsKeepType
      <4> QED
        BY <1>1, <2>11, <4>1 DEF CompleteRow
    <3> QED
      BY <2>11, <3>1, <3>2, <3>3, GotoKeepsFailover DEF CompleteRow
  <2>12. CASE ReturnResult(g)
    <3>1. "completed" \notin NotYetAsking \cup {"ask"}
      BY DEF NotYetAsking
    <3> QED
      BY <1>1, <2>12, <3>1, GotoKeepsFailover DEF ReturnResult
  <2>13. CASE FindFailed(g)
    <3>1. "failed" \notin NotYetAsking \cup {"ask"}
      BY DEF NotYetAsking
    <3>2. UNCHANGED <<imgEnv, imgRow, asked, made, tracked>>
      BY <2>13 DEF FindFailed
    <3>3. CASE ImgGoto(g, "failed")
      BY <1>1, <3>1, <3>2, <3>3, GotoKeepsFailover
    <3>4. CASE \E k \in NewestOpen :
                 imgJob' = [imgJob EXCEPT ![g] = [imgJob[g] EXCEPT !.pc = "fail", !.row = k]]
      BY <3>2, <3>4, FindKeepsFailover DEF NewestOpen
    <3> QED
      BY <2>13, <3>3, <3>4 DEF FindFailed
  <2>14. CASE MarkRowFailed(g)
    <3>1. "failed" \notin NotYetAsking \cup {"ask"}
      BY DEF NotYetAsking
    <3>2. imgRow' \in [ImageJobs -> RowType]
      <4>1. \A k : [imgRow EXCEPT ![k].status = "failed"] \in [ImageJobs -> RowType]
        BY <1>1, RowsKeepType
      <4> QED
        BY <1>1, <2>14, <4>1 DEF MarkRowFailed
    <3> QED
      BY <2>14, <3>1, <3>2, GotoKeepsFailover DEF MarkRowFailed
  <2> QED
    BY <2>1, <2>2, <2>3, <2>4, <2>5, <2>6, <2>7, <2>8, <2>9, <2>10, <2>11, <2>12, <2>13, <2>14
<1> QED
  BY <1>2, <1>3

-----------------------------------------------------------------------------
(* One job after the other. *)

ImagesSerial == ~imgEnv.overlap /\ ~MayFail("database")

WithProviders == {"simulate", "moderate", "ask", "poll", "store", "complete"}

\* What the row of a job says while the job is under way.
RowSays(g) ==
    /\ imgJob[g].pc = "absent" => imgRow[g].status = "absent"
    /\ imgRow[g].images \in {0, g} /\ (imgRow[g].status = "completed" => imgRow[g].images = g)
    /\ imgJob[g].pc = "created" => imgRow[g].status = "pending"
    /\ imgJob[g].pc \in {"find", "catch"} => imgRow[g].status \in Open \cup {"completed"}
    /\ imgJob[g].pc \in {"mark", "fail"} => imgJob[g].row = g /\ imgRow[g].status \in Open
    /\ imgJob[g].pc \in WithProviders => imgJob[g].row = g /\ imgRow[g].status = "processing"
    /\ imgJob[g].pc \in {"return", "completed"} => imgRow[g].status = "completed"
    /\ imgJob[g].pc = "failed" => imgRow[g].status \in {"failed", "completed"}

OneByOne == \A g, h \in ImageJobs : h < g /\ imgJob[g].pc # "absent" => Ended(h)

SerialInv == ImagesSerial => OneByOne /\ \A g \in ImageJobs : RowSays(g)

\* The invariant contains the property.
LEMMA SerialInvHolds == SerialInv => SerialJobEndsItsRow
<1> SUFFICES ASSUME SerialInv PROVE SerialJobEndsItsRow
  OBVIOUS
<1> QED
  BY DEF SerialInv, ImagesSerial, RowSays, SerialJobEndsItsRow, ImgAt

\* At first no job has begun.
LEMMA SerialInvStarts == ImgInit => SerialInv
  BY DEF ImgInit, SerialInv, OneByOne, RowSays, WithProviders

\* The newest open row, while a job is under way, is the job's own.
LEMMA NewestIsOwn ==
  ASSUME SerialInv, ImagesSerial, NEW g \in ImageJobs, imgJob[g].pc # "absent", ~Ended(g)
  PROVE  /\ NewestOpen \subseteq {g}
         /\ imgRow[g].status \in Open => NewestOpen # {}
<1>1. ImageJobs \subseteq Nat
  BY ClientsAreConfigured
<1>2. ASSUME NEW h \in ImageJobs, h # g PROVE imgRow[h].status \notin Open
  <2>1. CASE h < g
    <3>1. Ended(h) /\ RowSays(h)
      BY <2>1 DEF SerialInv, OneByOne
    <3> QED
      BY <3>1 DEF Ended, RowSays, Open
  <2>2. CASE g < h
    <3>1. imgJob[h].pc = "absent" /\ RowSays(h)
      BY <2>2 DEF SerialInv, OneByOne
    <3> QED
      BY <3>1 DEF RowSays, Open
  <2> QED
    BY <1>1, <1>2, <2>1, <2>2
<1>3. NewestOpen \subseteq {g}
  BY <1>2 DEF NewestOpen
<1>4. imgRow[g].status \in Open => g \in NewestOpen
  BY <1>1, <1>2 DEF NewestOpen
<1> QED
  BY <1>3, <1>4

\* A job that has not ended moves, alone.
LEMMA SerialMovesOnly ==
  ASSUME SerialInv, ImagesSerial, imgEnv' = imgEnv, NEW g \in ImageJobs, ~Ended(g),
         imgJob[g].pc = "absent" => \A h \in ImageJobs : h < g => Ended(h),
         \A h \in ImageJobs : h # g => imgJob'[h] = imgJob[h] /\ imgRow'[h] = imgRow[h],
         RowSays(g)'
  PROVE  SerialInv'
<1>1. ImageJobs \subseteq Nat
  BY ClientsAreConfigured
<1>3. \A h \in ImageJobs : h # g => RowSays(h)'
  BY DEF SerialInv, RowSays
<1>4. ASSUME NEW k \in ImageJobs, NEW h \in ImageJobs, h < k, imgJob'[k].pc # "absent"
      PROVE  Ended(h)'
  <2>1. h # k
    BY <1>1, <1>4
  <2>2. CASE k = g
    <3>1. Ended(h)
      BY <1>4, <2>2 DEF SerialInv, OneByOne
    <3> QED
      BY <2>1, <2>2, <3>1 DEF Ended
  <2>3. CASE k # g
    <3>1. Ended(h)
      BY <1>4, <2>3 DEF SerialInv, OneByOne
    <3>2. h # g
      BY <3>1
    <3> QED
      BY <3>1, <3>2 DEF Ended
  <2> QED
    BY <2>2, <2>3
<1>5. OneByOne'
  BY <1>4 DEF OneByOne
<1> QED
  BY <1>3, <1>5 DEF SerialInv

\* A job that moves while all earlier ones have ended leaves the others as they are.
LEMMA SerialMoves ==
  ASSUME ImgTypeOK, SerialInv, ImagesSerial, imgEnv' = imgEnv, NEW g \in ImageJobs, ~Ended(g),
         imgJob[g].pc = "absent" => \A h \in ImageJobs : h < g => Ended(h),
         NEW j \in ImageJobType, imgJob' = [imgJob EXCEPT ![g] = j],
         \A h \in ImageJobs : h # g => imgRow'[h] = imgRow[h],
         RowSays(g)'
  PROVE  SerialInv'
<1>1. \A h \in ImageJobs : h # g => imgJob'[h] = imgJob[h]
  BY DEF ImgTypeOK
<1> QED
  BY <1>1, SerialMovesOnly

\* The job goes to another state.
LEMMA SerialGoto ==
  ASSUME ImgTypeOK, SerialInv, ImagesSerial, imgEnv' = imgEnv, NEW g \in ImageJobs,
         imgJob[g].pc # "absent", ~Ended(g),
         NEW pc \in {"find", "simulate", "moderate", "ask", "poll", "store", "complete", "return",
                     "catch", "completed", "failed"},
         ImgGoto(g, pc), \A h \in ImageJobs : h # g => imgRow'[h] = imgRow[h],
         imgRow'[g].images \in {0, g}, imgRow'[g].status = "completed" => imgRow'[g].images = g,
         pc \in {"find", "catch"} => imgRow'[g].status \in Open \cup {"completed"},
         pc \in WithProviders => imgJob[g].row = g /\ imgRow'[g].status = "processing",
         pc \in {"return", "completed"} => imgRow'[g].status = "completed",
         pc = "failed" => imgRow'[g].status \in {"failed", "completed"}
  PROVE  SerialInv'
<1>1. imgJob \in [ImageJobs -> ImageJobType]
  BY DEF ImgTypeOK
<1> DEFINE r == [imgJob[g] EXCEPT !.pc = pc]
<1>2. r \in ImageJobType /\ r.pc = pc /\ r.row = imgJob[g].row
  BY <1>1 DEF ImageJobType
<1>3. imgJob' = [imgJob EXCEPT ![g] = r]
  BY <1>1 DEF ImgGoto
<1> HIDE DEF r
<1>4. imgJob'[g] = r
  BY <1>1, <1>3
<1>5. RowSays(g)'
  BY <1>2, <1>4 DEF RowSays
<1> QED
  BY <1>2, <1>3, <1>5, SerialMoves

\* The job looks for a row, to mark it.
LEMMA SerialFinds ==
  ASSUME ImgTypeOK, SerialInv, ImagesSerial, imgEnv' = imgEnv, imgRow' = imgRow, NEW g \in ImageJobs,
         imgJob[g].pc # "absent", ~Ended(g), NEW pc \in {"mark", "fail"}, NEW k \in NewestOpen,
         imgJob' = [imgJob EXCEPT ![g] = [imgJob[g] EXCEPT !.pc = pc, !.row = k]]
  PROVE  SerialInv'
<1>1. imgJob \in [ImageJobs -> ImageJobType] /\ RowSays(g)
  BY DEF ImgTypeOK, SerialInv
<1>2. k = g /\ imgRow[g].status \in Open
  BY NewestIsOwn DEF NewestOpen
<1> DEFINE r == [imgJob[g] EXCEPT !.pc = pc, !.row = k]
<1>3. r \in ImageJobType /\ r.pc = pc /\ r.row = g
  BY <1>1, <1>2 DEF ImageJobType
<1>4. imgJob' = [imgJob EXCEPT ![g] = r]
  OBVIOUS
<1> HIDE DEF r
<1>5. imgJob'[g] = r
  BY <1>1, <1>4
<1>6. RowSays(g)'
  BY <1>1, <1>2, <1>3, <1>5 DEF RowSays, WithProviders
<1> QED
  BY <1>3, <1>4, <1>6, SerialMoves

\* A step with the providers leaves the row as it is.
LEMMA SerialAsks ==
  ASSUME ImgTypeOK, SerialInv, ImagesSerial, imgEnv' = imgEnv, imgRow' = imgRow, NEW g \in ImageJobs,
         imgJob[g].pc \in WithProviders, Requested(g),
         AttemptFails(g) \/ (\E pc \in {"ask", "poll", "store", "complete", "catch"} : ImgGoto(g, pc))
  PROVE  SerialInv'
<1>1. imgJob \in [ImageJobs -> ImageJobType] /\ RowSays(g)
  BY DEF ImgTypeOK, SerialInv
<1>2. /\ imgJob[g].pc # "absent" /\ ~Ended(g) /\ imgJob[g].row = g /\ imgRow[g].status = "processing"
      /\ imgRow[g].images \in {0, g}
  BY <1>1 DEF RowSays, WithProviders, Ended
<1>3. CASE \E pc \in {"ask", "poll", "store", "complete", "catch"} : ImgGoto(g, pc)
  BY <1>2, <1>3, SerialGoto DEF Open
<1>4. CASE AttemptFails(g)
  <2>1. PICK j : /\ imgJob' = [imgJob EXCEPT ![g] = j] /\ j.row = imgJob[g].row
                 /\ j.pc \in {"ask", "catch"}
    <3> DEFINE r == [imgJob[g] EXCEPT !.pc = "ask", !.attempt = imgJob[g].attempt + 1]
               t == [imgJob[g] EXCEPT !.pc = "ask", !.turn = imgJob[g].turn + 1, !.attempt = 1]
               q == [imgJob[g] EXCEPT !.pc = "catch"]
    <3>1. /\ r.row = imgJob[g].row /\ t.row = imgJob[g].row /\ q.row = imgJob[g].row
          /\ r.pc = "ask" /\ t.pc = "ask" /\ q.pc = "catch"
      BY <1>1 DEF ImageJobType
    <3>2. \/ imgJob' = [imgJob EXCEPT ![g] = r]
          \/ imgJob' = [imgJob EXCEPT ![g] = t]
          \/ imgJob' = [imgJob EXCEPT ![g] = q]
      BY <1>4 DEF AttemptFails
    <3> HIDE DEF r, t, q
    <3> QED
      BY <3>1, <3>2
  <2>2. imgJob'[g] = j
    BY <1>1, <2>1
  <2>3. RowSays(g)'
    BY <1>2, <2>1, <2>2 DEF RowSays, WithProviders, Open
  <2>4. \A h \in ImageJobs : h # g => imgJob'[h] = imgJob[h]
    BY <1>1, <2>1
  <2>5. j.pc # "absent" /\ ~Ended(g)'
    BY <2>1, <2>2 DEF Ended
  <2> QED
    BY <1>2, <2>2, <2>3, <2>4, <2>5, SerialMovesOnly
<1> QED
  BY <1>3, <1>4

\* Every step keeps what the row says of the one job under way.
LEMMA SerialInvStep == ImgTypeOK /\ RowsPresent /\ SerialInv /\ [ImgNext]_imgVars => SerialInv'
<1> SUFFICES ASSUME ImgTypeOK, RowsPresent, SerialInv, [ImgNext]_imgVars PROVE SerialInv'
  OBVIOUS
<1>1. imgEnv' = imgEnv
  BY DEF ImgNext, imgVars, CreateImageRow, TakeImageJob, StallImageJob, FindRow, MarkProcessing,
         SimulateImages, ModeratePrompt, AskFal, AskReplicate, AskTogether, PollFal, PollReplicate,
         PollGivesUp, StoreImages, CompleteRow, ReturnResult, FindFailed, MarkRowFailed
<1>2. CASE UNCHANGED imgVars
  BY <1>2 DEF imgVars, SerialInv, ImagesSerial, MayFail, OneByOne, Ended, RowSays
<1>3. CASE ~ImagesSerial
  BY <1>1, <1>3 DEF SerialInv, ImagesSerial, MayFail
<1>4. CASE ImgNext /\ ImagesSerial
  <2> PICK g \in ImageJobs :
        \/ CreateImageRow(g) \/ TakeImageJob(g) \/ StallImageJob(g)
        \/ FindRow(g) \/ MarkProcessing(g) \/ SimulateImages(g)
        \/ ModeratePrompt(g) \/ AskFal(g) \/ AskReplicate(g) \/ AskTogether(g)
        \/ PollFal(g) \/ PollReplicate(g) \/ PollGivesUp(g)
        \/ StoreImages(g) \/ CompleteRow(g) \/ ReturnResult(g)
        \/ FindFailed(g) \/ MarkRowFailed(g)
    BY <1>4 DEF ImgNext
  <2>0. /\ RowSays(g) /\ imgRow \in [ImageJobs -> RowType] /\ imgJob \in [ImageJobs -> ImageJobType]
        /\ ~MayFail("database") /\ ~imgEnv.overlap /\ ImageJobs \subseteq Nat
    BY <1>4, ClientsAreConfigured DEF SerialInv, ImagesSerial, ImgTypeOK
  <2>1. CASE CreateImageRow(g)
    <3>1. /\ imgRow[g].status = "absent" /\ imgRow' = [imgRow EXCEPT ![g].status = "pending"]
          /\ ImgGoto(g, "created") /\ \A h \in 1..(g - 1) : Ended(h)
      BY <2>0, <2>1 DEF CreateImageRow
    <3>2. imgJob[g].pc = "absent"
      BY <3>1 DEF RowsPresent
    <3>3. \A h \in ImageJobs : h < g => Ended(h)
      <4>1. \A h \in ImageJobs : h # 0
        BY ClientsAreConfigured
      <4> QED
        BY <2>0, <3>1, <4>1
    <3> DEFINE r == [imgJob[g] EXCEPT !.pc = "created"]
    <3>4. r \in ImageJobType /\ r.pc = "created"
      BY <2>0 DEF ImageJobType
    <3>5. imgJob' = [imgJob EXCEPT ![g] = r]
      BY <2>0, <3>1 DEF ImgGoto
    <3> HIDE DEF r
    <3>6. imgJob'[g] = r
      BY <2>0, <3>5
    <3>7. /\ imgRow'[g].status = "pending" /\ imgRow'[g].images = imgRow[g].images
          /\ \A h \in ImageJobs : h # g => imgRow'[h] = imgRow[h]
      BY <2>0, <3>1 DEF RowType
    <3>8. RowSays(g)'
      BY <2>0, <3>4, <3>6, <3>7 DEF RowSays, WithProviders
    <3>9. ~Ended(g)
      BY <3>2 DEF Ended
    <3> QED
      BY <1>1, <1>4, <3>3, <3>4, <3>5, <3>7, <3>8, <3>9, SerialMoves
  <2>2. CASE TakeImageJob(g)
    <3>1. /\ imgJob[g].pc = "created" /\ ~Ended(g) /\ ImgGoto(g, "find") /\ imgRow' = imgRow
      BY <2>2 DEF TakeImageJob, ImgAt, Ended
    <3> QED
      BY <1>1, <1>4, <2>0, <3>1, SerialGoto DEF RowSays, Open, WithProviders
  <2>3. CASE StallImageJob(g)
    <3>1. imgJob[g].pc \notin {"absent", "created"} /\ ~Ended(g) /\ imgRow' = imgRow
      BY <2>3 DEF StallImageJob
    <3>2. imgRow[g].status \in Open \cup {"completed"}
      <4>1. imgJob[g].pc \in {"find", "catch", "mark", "fail", "return"} \cup WithProviders
        BY <2>0, <3>1 DEF ImageJobType, WithProviders, Ended
      <4> QED
        BY <2>0, <4>1 DEF RowSays, Open
    <3>3. PICK j : imgJob' = [imgJob EXCEPT ![g] = j] /\ j.pc = "find"
      <4> DEFINE r == [imgJob[g] EXCEPT !.pc = "find", !.turn = 1, !.attempt = 1,
                                        !.stalls = imgJob[g].stalls + 1]
      <4>1. r.pc = "find"
        BY <2>0 DEF ImageJobType
      <4>2. imgJob' = [imgJob EXCEPT ![g] = r]
        BY <2>3 DEF StallImageJob
      <4> HIDE DEF r
      <4> QED
        BY <4>1, <4>2
    <3>4. imgJob'[g] = j /\ \A h \in ImageJobs : h # g => imgJob'[h] = imgJob[h]
      BY <2>0, <3>3
    <3>5. RowSays(g)'
      BY <2>0, <3>1, <3>2, <3>3, <3>4 DEF RowSays, WithProviders
    <3>6. imgJob[g].pc # "absent" /\ ~Ended(g)'
      BY <3>1, <3>3, <3>4 DEF Ended
    <3> QED
      BY <1>1, <1>4, <3>1, <3>4, <3>5, <3>6, SerialMovesOnly
  <2>4. CASE FindRow(g)
    <3>1. imgJob[g].pc = "find" /\ ~Ended(g) /\ imgRow' = imgRow
      BY <2>4 DEF FindRow, ImgAt, Ended
    <3>2. imgRow[g].status \in Open \cup {"completed"} /\ imgRow[g].images \in {0, g}
          /\ (imgRow[g].status = "completed" => imgRow[g].images = g)
      BY <2>0, <3>1 DEF RowSays
    <3>3. CASE ImgGoto(g, "catch")
      BY <1>1, <1>4, <3>1, <3>2, <3>3, SerialGoto DEF WithProviders
    <3>4. CASE \E k \in NewestOpen :
                 imgJob' = [imgJob EXCEPT ![g] = [imgJob[g] EXCEPT !.pc = "mark", !.row = k]]
      BY <1>1, <1>4, <3>1, <3>4, SerialFinds
    <3> QED
      BY <2>4, <3>3, <3>4 DEF FindRow
  <2>5. CASE MarkProcessing(g)
    <3>1. /\ imgJob[g].pc = "mark" /\ ~Ended(g) /\ imgJob[g].row = g
          /\ imgRow[g].images \in {0, g}
      BY <2>0, <2>5 DEF MarkProcessing, ImgAt, Ended, RowSays
    <3>2. imgRow' = [imgRow EXCEPT ![g].status = "processing"]
      BY <2>5, <3>1 DEF MarkProcessing
    <3>3. /\ imgRow'[g].status = "processing" /\ imgRow'[g].images = imgRow[g].images
          /\ \A h \in ImageJobs : h # g => imgRow'[h] = imgRow[h]
      BY <2>0, <3>2 DEF RowType
    <3>4. \E pc \in {"simulate", "moderate"} : ImgGoto(g, pc)
      BY <2>5 DEF MarkProcessing
    <3> QED
      BY <1>1, <1>4, <3>1, <3>3, <3>4, SerialGoto
  <2>6. CASE SimulateImages(g) \/ ModeratePrompt(g) \/ StoreImages(g)
    <3>1. /\ imgJob[g].pc \in {"simulate", "moderate", "store"} /\ imgRow' = imgRow
      BY <2>6 DEF SimulateImages, ModeratePrompt, StoreImages, ImgAt
    <3>2. /\ imgJob[g].pc # "absent" /\ ~Ended(g) /\ imgJob[g].row = g
          /\ imgRow[g].status = "processing" /\ imgRow[g].images \in {0, g}
      BY <2>0, <3>1 DEF RowSays, WithProviders, Ended
    <3>3. \E pc \in {"complete", "ask", "catch"} : ImgGoto(g, pc)
      BY <2>6 DEF SimulateImages, ModeratePrompt, StoreImages
    <3> QED
      BY <1>1, <1>4, <3>1, <3>2, <3>3, SerialGoto DEF Open
  <2>7. CASE AskFal(g) \/ AskReplicate(g) \/ AskTogether(g) \/ PollFal(g) \/ PollReplicate(g)
             \/ PollGivesUp(g)
    <3>1. imgJob[g].pc \in WithProviders /\ imgRow' = imgRow /\ Requested(g)
      BY <2>7 DEF AskFal, AskReplicate, AskTogether, PollFal, PollReplicate, PollGivesUp, ImgAt,
                  WithProviders, Requested
    <3>2. AttemptFails(g) \/ \E pc \in {"ask", "poll", "store", "complete", "catch"} : ImgGoto(g, pc)
      BY <2>7 DEF AskFal, AskReplicate, AskTogether, PollFal, PollReplicate, PollGivesUp,
                  PollEnds, RequestFails, Succeeds
    <3> QED
      BY <1>1, <1>4, <3>1, <3>2, SerialAsks
  <2>8. CASE CompleteRow(g)
    <3>1. /\ imgJob[g].pc = "complete" /\ ~Ended(g) /\ imgJob[g].row = g
          /\ imgRow[g].status = "processing" /\ imgRow[g].images \in {0, g}
      BY <2>0, <2>8 DEF CompleteRow, ImgAt, Ended, RowSays, WithProviders
    <3>2. /\ imgRow' = [imgRow EXCEPT ![g] = [status |-> "completed", images |-> g]]
          /\ ImgGoto(g, "return")
      BY <2>0, <2>8, <3>1 DEF CompleteRow
    <3>3. /\ imgRow'[g].status = "completed" /\ imgRow'[g].images = g
          /\ \A h \in ImageJobs : h # g => imgRow'[h] = imgRow[h]
      BY <2>0, <3>2
    <3> QED
      BY <1>1, <1>4, <3>1, <3>2, <3>3, SerialGoto DEF WithProviders
  <2>9. CASE ReturnResult(g)
    <3>1. /\ imgJob[g].pc = "return" /\ ~Ended(g) /\ imgRow' = imgRow /\ ImgGoto(g, "completed")
          /\ imgRow[g].status = "completed" /\ imgRow[g].images = g
      BY <2>0, <2>9 DEF ReturnResult, ImgAt, Ended, RowSays
    <3> QED
      BY <1>1, <1>4, <3>1, SerialGoto DEF WithProviders
  <2>10. CASE FindFailed(g)
    <3>1. imgJob[g].pc = "catch" /\ ~Ended(g) /\ imgRow' = imgRow
      BY <2>10 DEF FindFailed, ImgAt, Ended
    <3>2. imgRow[g].status \in Open \cup {"completed"} /\ imgRow[g].images \in {0, g}
          /\ (imgRow[g].status = "completed" => imgRow[g].images = g)
      BY <2>0, <3>1 DEF RowSays
    <3>3. CASE NewestOpen = {} /\ ImgGoto(g, "failed")
      <4>1. imgRow[g].status = "completed"
        BY <1>4, <3>1, <3>2, <3>3, NewestIsOwn
      <4> QED
        BY <1>1, <1>4, <3>1, <3>2, <3>3, <4>1, SerialGoto DEF WithProviders
    <3>4. CASE \E k \in NewestOpen :
                 imgJob' = [imgJob EXCEPT ![g] = [imgJob[g] EXCEPT !.pc = "fail", !.row = k]]
      BY <1>1, <1>4, <3>1, <3>4, SerialFinds
    <3> QED
      BY <2>0, <2>10, <3>3, <3>4 DEF FindFailed
  <2>11. CASE MarkRowFailed(g)
    <3>1. /\ imgJob[g].pc = "fail" /\ ~Ended(g) /\ imgJob[g].row = g
          /\ imgRow[g].images \in {0, g}
      BY <2>0, <2>11 DEF MarkRowFailed, ImgAt, Ended, RowSays
    <3>2. imgRow' = [imgRow EXCEPT ![g].status = "failed"] /\ ImgGoto(g, "failed")
      BY <2>0, <2>11, <3>1 DEF MarkRowFailed
    <3>3. /\ imgRow'[g].status = "failed" /\ imgRow'[g].images = imgRow[g].images
          /\ \A h \in ImageJobs : h # g => imgRow'[h] = imgRow[h]
      BY <2>0, <3>2 DEF RowType
    <3> QED
      BY <1>1, <1>4, <3>1, <3>2, <3>3, SerialGoto DEF WithProviders
  <2> QED
    BY <2>1, <2>2, <2>3, <2>4, <2>5, <2>6, <2>7, <2>8, <2>9, <2>10, <2>11
<1> QED
  BY <1>2, <1>3, <1>4

-----------------------------------------------------------------------------
(* Theorems. *)

ImgInv == RowsPresent /\ FailoverInv /\ SerialInv

\* The invariant of the image jobs holds at first.
LEMMA ImgInvStarts == ImgInit => ImgInv
<1>1. ImgInit => RowsPresent
  BY DEF ImgInit, RowsPresent
<1> QED
  BY <1>1, FailoverInvStarts, SerialInvStarts DEF ImgInv

\* Every step of the image jobs keeps their invariant.
LEMMA ImgInvStep == ImgInv /\ [ImgNext]_imgVars => ImgInv'
<1> SUFFICES ASSUME ImgInv, [ImgNext]_imgVars PROVE ImgInv'
  OBVIOUS
<1>1. RowsPresent /\ FailoverInv /\ SerialInv /\ ImgTypeOK
  BY DEF ImgInv, FailoverInv
<1> QED
  BY <1>1, RowsPresentStep, FailoverInvStep, SerialInvStep DEF ImgInv

\* Every variable keeps its type.
THEOREM ImageTypesHold == ImgSpec => []ImgTypeOK
<1>1. ImgInv => ImgTypeOK
  BY DEF ImgInv, FailoverInv
<1> QED
  BY ImgInvStarts, ImgInvStep, <1>1, PTL DEF ImgSpec

\* However many clients, attempts and stalls: a client is asked only after the one before it
\* has failed all its attempts, and no generation is counted that was not made.
THEOREM FailoverStaysOrderly == ImgSpec => []FailoverIsOrderly
<1>1. ImgInv => FailoverIsOrderly
  BY FailoverInvHolds DEF ImgInv
<1> QED
  BY ImgInvStarts, ImgInvStep, <1>1, PTL DEF ImgSpec

\* For every number of jobs, one after the other: the newest open row is the job's own, shows
\* no other job's images and says how the job ended.
THEOREM SerialJobsEndTheirRows == ImgSpec => []SerialJobEndsItsRow
<1>1. ImgInv => SerialJobEndsItsRow
  BY SerialInvHolds DEF ImgInv
<1> QED
  BY ImgInvStarts, ImgInvStep, <1>1, PTL DEF ImgSpec

-----------------------------------------------------------------------------
(***************************************************************************)
(* ChatCompletions: a client known to be dead is not called, and the log   *)
(* matches the charges.                                                    *)
(***************************************************************************)

ChatNames == ToSet(ChatClients)
Stations ==
    {"idle", "moderate", "health", "call", "charge", "logQuestion", "logAnswer", "done", "error"}
CompletionType ==
    [pc : Stations,
     rich : BOOLEAN, began : Nat, healthy : Seq(ChatNames), next : Nat \ {0},
     client : ChatNames \cup {"none"}]

ChatTyped ==
    /\ chatEnv \in ChatEnvironments
    /\ chatTokens \in 0..TokensAtStart
    /\ completion \in [Completions -> CompletionType]
    /\ health \in [ChatNames -> [up : BOOLEAN, at : Int]]
    /\ clientUp \in [ChatNames -> [up : BOOLEAN, since : Nat]]
    /\ roundRobin \in Nat
    /\ tick \in 0..LastTick
    /\ paidFor \subseteq Completions
    /\ called \subseteq [request : Completions, rich : BOOLEAN]
    /\ logged \in Seq([request : Completions, role : {"user", "assistant"}])

\* The configured chat clients are the two that exist, with their prices.
LEMMA ChatClientsAreNamed ==
    /\ ChatNames \subseteq {"groq", "openrouter"}
    /\ ChatClients \in Seq(ChatNames)
    /\ PromptCost \in [ChatNames -> Nat]
    /\ \A i \in 1..Len(ChatClients) : ChatClients[i] \in ChatNames
  BY ChatCostsAreNatural DEF ChatNames, ToSet

\* The cheapest of the healthy clients is one of them.
LEMMA LowestCostIsHealthy ==
  ASSUME NEW clients \in Seq(ChatNames), clients # <<>>
  PROVE  LowestCost(clients) \in ToSet(clients)
<1> DEFINE cost(i) == PromptCost[clients[i]]
           Costs == {cost(i) : i \in DOMAIN clients}
           Cheapest == {i \in DOMAIN clients : \A j \in DOMAIN clients : cost(i) <= cost(j)}
<1>1. \A i \in DOMAIN clients : cost(i) \in Nat /\ i \in Nat
  <2>1. \A i \in DOMAIN clients : clients[i] \in ChatNames /\ i \in Nat
    OBVIOUS
  <2> QED
    BY <2>1, ChatClientsAreNamed
<1>2. 1 \in DOMAIN clients
  OBVIOUS
<1>3. PICK least \in Costs : \A n \in Costs : least <= n
  <2>1. Costs \subseteq Nat /\ Costs # {}
    BY <1>1, <1>2
  <2> HIDE DEF Costs
  <2> QED BY <2>1, SmallestNat
<1>4. PICK k \in DOMAIN clients : cost(k) = least
  BY <1>3
<1>5. k \in Cheapest
  BY <1>3, <1>4
<1>6. PICK first \in Cheapest : \A n \in Cheapest : first <= n
  <2>1. Cheapest \subseteq Nat /\ Cheapest # {}
    BY <1>1, <1>5
  <2> HIDE DEF Cheapest
  <2> QED BY <2>1, SmallestNat
<1>7. \A j \in 1..(first - 1) : cost(first) < cost(j)
  <2> SUFFICES ASSUME NEW j \in 1..(first - 1), ~(cost(first) < cost(j)) PROVE FALSE
    OBVIOUS
  <2>1. j \in DOMAIN clients /\ first \in DOMAIN clients /\ j < first
    BY <1>1, <1>6
  <2>2. j \in Cheapest
    BY <1>1, <1>6, <2>1
  <2> QED
    BY <1>1, <1>6, <2>1, <2>2
<1>8. \E i \in DOMAIN clients :
        /\ \A j \in DOMAIN clients : PromptCost[clients[i]] <= PromptCost[clients[j]]
        /\ \A j \in 1..(i - 1) : PromptCost[clients[i]] < PromptCost[clients[j]]
  BY <1>6, <1>7
<1> QED
  BY <1>8 DEF LowestCost, ToSet

\* Whatever the strategy, the client chosen is a healthy one.
LEMMA HighestPriorityIsHealthy ==
  ASSUME NEW clients \in Seq(ChatNames), clients # <<>>
  PROVE  HighestPriority(clients) \in ToSet(clients)
<1>1. 1 \in DOMAIN clients /\ clients[1] \in ToSet(clients)
  BY DEF ToSet
<1>2. ToSet(clients) \subseteq {"groq", "openrouter"}
  BY ChatClientsAreNamed, InToSet
<1> QED
  BY <1>1, <1>2 DEF HighestPriority

\* Round robin selects one of the healthy clients.
LEMMA RoundRobinIsHealthy ==
  ASSUME NEW clients \in Seq(ChatNames), clients # <<>>, roundRobin \in Nat
  PROVE  RoundRobinClient(clients) \in ToSet(clients)
<1>1. Len(clients) \in Nat /\ Len(clients) > 0
  OBVIOUS
<1>2. roundRobin % Len(clients) \in 0..(Len(clients) - 1)
  BY <1>1
<1>3. (roundRobin % Len(clients)) + 1 \in DOMAIN clients
  BY <1>1, <1>2
<1> QED
  BY <1>3 DEF RoundRobinClient, ToSet

\* Every strategy selects one of the healthy clients.
LEMMA SelectedIsHealthy ==
  ASSUME ChatTyped, NEW clients \in Seq(ChatNames), clients # <<>>
  PROVE  Selected(clients) \in ToSet(clients)
<1>1. chatEnv.strategy \in {"lowest_cost", "highest_priority", "round_robin"}
  BY ChatEnvironmentsAreRecords DEF ChatTyped
<1>2. roundRobin \in Nat
  BY DEF ChatTyped
<1>3. CASE chatEnv.strategy = "lowest_cost"
  BY <1>3, LowestCostIsHealthy DEF Selected
<1>4. CASE chatEnv.strategy = "highest_priority"
  BY <1>4, HighestPriorityIsHealthy DEF Selected
<1>5. CASE chatEnv.strategy = "round_robin"
  BY <1>2, <1>5, RoundRobinIsHealthy DEF Selected
<1> QED
  BY <1>1, <1>3, <1>4, <1>5

-----------------------------------------------------------------------------
(* Types. *)

\* A step of one request leaves the others as they are.
LEMMA RequestMoves ==
  ASSUME ChatTyped, NEW c \in Completions, NEW r \in CompletionType,
         completion' = [completion EXCEPT ![c] = r]
  PROVE  /\ completion' \in [Completions -> CompletionType]
         /\ completion'[c] = r
         /\ \A d \in Completions : d # c => completion'[d] = completion[d]
  BY DEF ChatTyped

\* A request that goes on keeps its fields, and the others stay.
LEMMA RequestGoes ==
  ASSUME ChatTyped, NEW c \in Completions, NEW pc \in Stations, ChatGoto(c, pc)
  PROVE  /\ completion' \in [Completions -> CompletionType]
         /\ completion'[c] = [completion[c] EXCEPT !.pc = pc]
         /\ completion'[c].pc = pc
         /\ completion'[c].client = completion[c].client
         /\ completion'[c].healthy = completion[c].healthy
         /\ completion'[c].began = completion[c].began
         /\ \A d \in Completions : d # c => completion'[d] = completion[d]
<1> DEFINE r == [completion[c] EXCEPT !.pc = pc]
<1>1. completion[c] \in CompletionType
  BY DEF ChatTyped
<1>2. /\ r \in CompletionType /\ r.pc = pc /\ r.client = completion[c].client
      /\ r.healthy = completion[c].healthy /\ r.began = completion[c].began
  BY <1>1 DEF CompletionType
<1>3. completion' = [completion EXCEPT ![c] = r]
  BY DEF ChatGoto
<1> HIDE DEF r
<1>4. completion'[c] = r
  BY <1>2, <1>3, RequestMoves
<1> QED
  BY <1>2, <1>3, <1>4, RequestMoves DEF r

\* Every step of the chat keeps the types.
LEMMA ChatTypesStep == ChatTyped /\ [ChatNext]_chatVars => ChatTyped'
<1> SUFFICES ASSUME ChatTyped, [ChatNext]_chatVars PROVE ChatTyped'
  OBVIOUS
<1> USE DEF ChatTyped
<1>1. CASE UNCHANGED chatVars
  BY <1>1 DEF chatVars
<1>2. CASE ClockTicks
  BY <1>2, ChatTimesAreNatural DEF ClockTicks
<1>3. ASSUME NEW p \in ToSet(ChatClients), ProviderTurns(p) PROVE ChatTyped'
  BY <1>3, ChatTimesAreNatural DEF ProviderTurns, ChatNames
<1>4. ASSUME NEW c \in Completions, CheckAffordable(c) PROVE ChatTyped'
  <2> DEFINE rich == chatTokens >= MessageCost
             r == [completion[c] EXCEPT !.pc = "moderate", !.rich = rich, !.began = tick]
  <2>1. completion[c] \in CompletionType /\ rich \in BOOLEAN /\ tick \in Nat
    BY <1>4, ChatTimesAreNatural
  <2>3. completion' = [completion EXCEPT ![c] = r]
    BY <1>4 DEF CheckAffordable
  <2> HIDE DEF rich
  <2>2. r \in CompletionType
    BY <2>1 DEF CompletionType, Stations
  <2> HIDE DEF r
  <2>4. completion' \in [Completions -> CompletionType]
    BY <1>4, <2>2, <2>3, RequestMoves
  <2> QED
    BY <1>4, <2>4 DEF CheckAffordable
<1>5. ASSUME NEW c \in Completions, ModerateMessage(c) PROVE ChatTyped'
  <2>1. PICK pc \in {"health", "error"} : ChatGoto(c, pc)
    BY <1>5 DEF ModerateMessage
  <2>2. completion' \in [Completions -> CompletionType]
    BY <1>5, <2>1, RequestGoes DEF Stations
  <2> QED
    BY <1>5, <2>2 DEF ModerateMessage
<1>6. ASSUME NEW c \in Completions, CheckHealth(c) PROVE ChatTyped'
  <2> DEFINE p == ChatClients[completion[c].next]
             up == IF Believed(p) THEN health[p].up ELSE clientUp[p].up
             r == [completion[c] EXCEPT !.next = @ + 1, !.healthy = IF up THEN Append(@, p) ELSE @]
  <2>1. completion[c] \in CompletionType /\ completion[c].next \in 1..Len(ChatClients)
    <3>1. completion[c] \in CompletionType /\ Len(ChatClients) \in Nat
      BY <1>6, ChatClientsAreNamed
    <3>2. completion[c].next \in Nat \ {0}
      BY <3>1 DEF CompletionType
    <3> QED
      BY <1>6, <3>1, <3>2 DEF CheckHealth
  <2>2. p \in ChatNames
    BY <2>1, ChatClientsAreNamed
  <2>4. up \in BOOLEAN
    <3> HIDE DEF p
    <3>1. health[p] \in [up : BOOLEAN, at : Int] /\ clientUp[p] \in [up : BOOLEAN, since : Nat]
      BY <2>2
    <3> QED
      BY <3>1
  <2>5. health' = IF Believed(p) THEN health ELSE [health EXCEPT ![p] = [up |-> up, at |-> tick]]
    <3> HIDE DEF ChatTyped
    <3> QED BY <1>6 DEF CheckHealth
  <2>6. completion' = [completion EXCEPT ![c] = r]
    BY <1>6 DEF CheckHealth
  <2>7. r \in CompletionType
    <3>1. completion[c].healthy \in Seq(ChatNames)
      BY <2>1 DEF CompletionType
    <3>2. Append(completion[c].healthy, p) \in Seq(ChatNames)
      BY <2>2, <3>1, AppendAddsLast
    <3> DEFINE healthy == IF up THEN Append(completion[c].healthy, p) ELSE completion[c].healthy
    <3>3. healthy \in Seq(ChatNames)
      BY <3>1, <3>2
    <3>4. r = [completion[c] EXCEPT !.next = completion[c].next + 1, !.healthy = healthy]
      OBVIOUS
    <3>5. completion[c].next + 1 \in Nat \ {0}
      BY <2>1 DEF CompletionType
    <3> HIDE DEF healthy, r
    <3> QED
      BY <2>1, <3>3, <3>4, <3>5 DEF CompletionType
  <2> HIDE DEF p, up, r
  <2>8. completion' \in [Completions -> CompletionType]
    BY <1>6, <2>6, <2>7, RequestMoves
  <2>9. health' \in [ChatNames -> [up : BOOLEAN, at : Int]]
    BY <2>2, <2>4, <2>5, ChatTimesAreNatural
  <2> QED
    BY <1>6, <2>8, <2>9 DEF CheckHealth
<1>7. ASSUME NEW c \in Completions, SelectProvider(c) PROVE ChatTyped'
  <2>1. completion[c] \in CompletionType
    BY <1>7
  <2>2. CASE completion[c].healthy = <<>>
    <3>1. ChatGoto(c, "error")
      BY <1>7, <2>2 DEF SelectProvider
    <3>2. completion' \in [Completions -> CompletionType]
      BY <1>7, <3>1, RequestGoes DEF Stations
    <3> QED
      BY <1>7, <2>2, <3>2 DEF SelectProvider
  <2>3. CASE completion[c].healthy # <<>>
    <3> DEFINE r == [completion[c] EXCEPT !.pc = "call", !.client = Selected(completion[c].healthy)]
    <3>1. completion[c].healthy \in Seq(ChatNames)
      BY <2>1 DEF CompletionType
    <3>2. Selected(completion[c].healthy) \in ChatNames
      BY <2>3, <3>1, SelectedIsHealthy, InToSet
    <3>3. r \in CompletionType
      BY <2>1, <3>2 DEF CompletionType, Stations
    <3>4. completion' = [completion EXCEPT ![c] = r]
      BY <1>7, <2>3 DEF SelectProvider
    <3> HIDE DEF r
    <3>5. completion' \in [Completions -> CompletionType]
      BY <1>7, <3>3, <3>4, RequestMoves
    <3>6. roundRobin' \in Nat
      BY <1>7, <2>3 DEF SelectProvider
    <3> QED
      BY <1>7, <3>5, <3>6 DEF SelectProvider
  <2> QED
    BY <2>2, <2>3
<1>8. ASSUME NEW c \in Completions, AskClient(c) PROVE ChatTyped'
  <2>1. PICK pc \in {"charge", "error"} : ChatGoto(c, pc)
    BY <1>8 DEF AskClient
  <2>2. completion' \in [Completions -> CompletionType]
    BY <1>8, <2>1, RequestGoes DEF Stations
  <2>3. completion[c].rich \in BOOLEAN
    BY <1>8 DEF CompletionType
  <2> QED
    BY <1>8, <2>2, <2>3 DEF AskClient, Called
<1>9. ASSUME NEW c \in Completions, ChargeMessage(c) PROVE ChatTyped'
  <2>1. PICK pc \in {"logQuestion", "error"} : ChatGoto(c, pc)
    BY <1>9 DEF ChargeMessage
  <2>2. completion' \in [Completions -> CompletionType]
    BY <1>9, <2>1, RequestGoes DEF Stations
  <2> QED
    BY <1>9, <2>2, ChatCostsAreNatural DEF ChargeMessage
<1>10. ASSUME NEW c \in Completions, NEW role \in {"user", "assistant"},
              NEW next \in {"logAnswer", "done"}, Logs(c, role, next)
       PROVE  ChatTyped'
  <2>1. PICK pc \in {next, "error"} : ChatGoto(c, pc)
    BY <1>10 DEF Logs
  <2>2. completion' \in [Completions -> CompletionType]
    BY <1>10, <2>1, RequestGoes DEF Stations
  <2>3. logged' \in Seq([request : Completions, role : {"user", "assistant"}])
    <3>1. [request |-> c, role |-> role] \in [request : Completions, role : {"user", "assistant"}]
      BY <1>10
    <3>2. Append(logged, [request |-> c, role |-> role])
             \in Seq([request : Completions, role : {"user", "assistant"}])
      BY <3>1, AppendAddsLast
    <3> QED
      BY <1>10, <3>2 DEF Logs
  <2> QED
    BY <1>10, <2>2, <2>3 DEF Logs
<1> QED
  BY <1>1, <1>2, <1>3, <1>4, <1>5, <1>6, <1>7, <1>8, <1>9, <1>10
  DEF ChatNext, CallOpenRouter, CallGroqChat, StreamOpenRouter, StreamGroqChat, LogQuestion,
      LogCompletion, LogStreamQuestion, LogStream

-----------------------------------------------------------------------------
(* No dead client is called. *)

\* The client was up when the request began, or it went down less than an interval before.
AliveFor(c, p) ==
    clientUp[p].up \/ completion[c].began < clientUp[p].since + HealthInterval

\* A check in the cache that found the client up was made before the client went down.
ChecksAreTrue ==
    /\ \A p \in ChatNames :
         /\ health[p].at <= tick
         /\ health[p].up /\ ~clientUp[p].up => health[p].at <= clientUp[p].since
    /\ \A c \in Completions :
         /\ completion[c].began <= tick
         /\ completion[c].pc \in {"idle", "moderate"} => completion[c].healthy = <<>>
         /\ completion[c].pc = "health" =>
              \A p \in ToSet(completion[c].healthy) : AliveFor(c, p)
         /\ completion[c].pc = "call" =>
              completion[c].client \in ChatNames /\ AliveFor(c, completion[c].client)

\* A request that goes on, and a check that may be entered in the cache.
LEMMA RequestStaysAlive ==
  ASSUME ChecksAreTrue, NEW c \in Completions, UNCHANGED <<clientUp, tick>>,
         \A p \in ChatNames :
            /\ health'[p].at <= tick
            /\ health'[p].up /\ ~clientUp[p].up => health'[p].at <= clientUp[p].since,
         completion'[c].began <= tick,
         completion'[c].pc \in {"idle", "moderate"} => completion'[c].healthy = <<>>,
         completion'[c].pc = "health" =>
            \A p \in ToSet(completion'[c].healthy) : AliveFor(c, p)',
         completion'[c].pc = "call" =>
            completion'[c].client \in ChatNames /\ AliveFor(c, completion[c].client)',
         \A d \in Completions : d # c => completion'[d] = completion[d]
  PROVE  ChecksAreTrue'
<1>1. ASSUME NEW d \in Completions, d # c
      PROVE  /\ completion'[d] = completion[d]
             /\ \A p : AliveFor(d, p)' <=> AliveFor(d, p)
  BY <1>1 DEF AliveFor
<1>2. ASSUME NEW d \in Completions, d # c
      PROVE  /\ completion'[d].began <= tick
             /\ completion'[d].pc \in {"idle", "moderate"} => completion'[d].healthy = <<>>
             /\ completion'[d].pc = "health" =>
                  \A p \in ToSet(completion'[d].healthy) : AliveFor(d, p)'
             /\ completion'[d].pc = "call" =>
                  completion'[d].client \in ChatNames /\ AliveFor(d, completion[d].client)'
  BY <1>1, <1>2 DEF ChecksAreTrue
<1> QED
  BY <1>2 DEF ChecksAreTrue

\* Steps that are not about health keep what the checks are worth.
LEMMA RequestGoesAlive ==
  ASSUME ChatTyped, ChecksAreTrue, NEW c \in Completions,
         NEW pc \in Stations \ {"idle", "moderate", "health", "call"}, ChatGoto(c, pc),
         UNCHANGED <<clientUp, health, tick>>
  PROVE  ChecksAreTrue'
<1>1. /\ completion'[c].pc = pc /\ completion'[c].began = completion[c].began
      /\ \A d \in Completions : d # c => completion'[d] = completion[d]
  BY RequestGoes
<1>2. /\ completion'[c].began <= tick
      /\ \A p \in ChatNames :
            /\ health'[p].at <= tick
            /\ health'[p].up /\ ~clientUp[p].up => health'[p].at <= clientUp[p].since
  BY <1>1 DEF ChecksAreTrue
<1> QED
  BY <1>1, <1>2, RequestStaysAlive DEF Stations

\* A check that found a client up was made before the client went down.
LEMMA ChecksStep == ChatTyped /\ ChecksAreTrue /\ [ChatNext]_chatVars => ChecksAreTrue'
<1> SUFFICES ASSUME ChatTyped, ChecksAreTrue, [ChatNext]_chatVars PROVE ChecksAreTrue'
  OBVIOUS
<1>0. /\ \A c \in Completions : completion[c] \in CompletionType
      /\ \A p \in ChatNames : /\ health[p] \in [up : BOOLEAN, at : Int]
                              /\ clientUp[p] \in [up : BOOLEAN, since : Nat]
      /\ tick \in Nat /\ HealthInterval \in Nat /\ HealthInterval > 0
  BY ChatTimesAreNatural DEF ChatTyped
<1>00. \A c \in Completions : completion[c].began \in Nat /\ completion[c].healthy \in Seq(ChatNames)
  BY <1>0 DEF CompletionType
<1>1. CASE UNCHANGED chatVars
  BY <1>1 DEF chatVars, ChecksAreTrue, AliveFor
<1>2. CASE ClockTicks
  <2>1. /\ \A c \in Completions : completion[c].began <= tick + 1
        /\ \A p \in ChatNames : health[p].at <= tick + 1
    BY <1>0, <1>00 DEF ChecksAreTrue
  <2>2. \A c, p : AliveFor(c, p)' <=> AliveFor(c, p)
    BY <1>2 DEF ClockTicks, AliveFor
  <2> QED
    BY <1>2, <2>1, <2>2 DEF ClockTicks, ChecksAreTrue
<1>3. ASSUME NEW p \in ToSet(ChatClients), ProviderTurns(p) PROVE ChecksAreTrue'
  <2>1. p \in ChatNames
    BY DEF ChatNames
  <2>2. /\ clientUp'[p].since = tick
        /\ \A q \in ChatNames : q # p => clientUp'[q] = clientUp[q]
        /\ UNCHANGED <<completion, health, tick>>
    BY <1>3, <2>1 DEF ProviderTurns, ChatTyped
  <2>3. \A q \in ChatNames :
          /\ health[q].at <= tick
          /\ health[q].up /\ ~clientUp'[q].up => health[q].at <= clientUp'[q].since
    BY <2>2 DEF ChecksAreTrue
  <2>4. \A c \in Completions : AliveFor(c, p)'
    <3>1. \A c \in Completions : completion[c].began < tick + HealthInterval
      BY <1>0, <1>00 DEF ChecksAreTrue
    <3> QED
      BY <2>2, <3>1 DEF AliveFor
  <2>5. \A c \in Completions : \A q \in ChatNames : AliveFor(c, q) => AliveFor(c, q)'
    BY <2>2, <2>4 DEF AliveFor
  <2>6. \A c \in Completions : ToSet(completion[c].healthy) \subseteq ChatNames
    BY <1>00, InToSet
  <2> QED
    BY <2>2, <2>3, <2>5, <2>6 DEF ChecksAreTrue
<1>4. ASSUME NEW c \in Completions, CheckAffordable(c) PROVE ChecksAreTrue'
  <2> DEFINE rich == chatTokens >= MessageCost
             r == [completion[c] EXCEPT !.pc = "moderate", !.rich = rich, !.began = tick]
  <2>1. completion'[c] = r /\ \A d \in Completions : d # c => completion'[d] = completion[d]
    BY <1>4 DEF CheckAffordable, ChatTyped
  <2> HIDE DEF rich
  <2>2. r.pc = "moderate" /\ r.began = tick /\ r.healthy = completion[c].healthy
    BY <1>0 DEF CompletionType
  <2> HIDE DEF r
  <2>3. r.healthy = <<>>
    BY <1>4, <2>2 DEF CheckAffordable, ChatAt, ChecksAreTrue
  <2>4. \A p \in ChatNames :
          /\ health'[p].at <= tick
          /\ health'[p].up /\ ~clientUp[p].up => health'[p].at <= clientUp[p].since
    BY <1>4 DEF CheckAffordable, ChecksAreTrue
  <2>5. /\ completion'[c].pc = "moderate" /\ completion'[c].healthy = <<>>
        /\ completion'[c].began <= tick /\ UNCHANGED <<clientUp, tick>>
    <3> HIDE <1>4
    <3>1. UNCHANGED <<clientUp, tick>>
      BY <1>4 DEF CheckAffordable
    <3> QED
      BY <1>0, <2>1, <2>2, <2>3, <3>1
  <2> QED
    BY <2>1, <2>4, <2>5, RequestStaysAlive
<1>5. ASSUME NEW c \in Completions, ModerateMessage(c) PROVE ChecksAreTrue'
  <2>1. CASE ChatGoto(c, "error")
    BY <1>5, <2>1, RequestGoesAlive DEF ModerateMessage, Stations
  <2>2. CASE ChatGoto(c, "health")
    <3>1. /\ completion'[c].pc = "health" /\ completion'[c].began = completion[c].began
          /\ completion'[c].healthy = completion[c].healthy
          /\ \A d \in Completions : d # c => completion'[d] = completion[d]
      BY <2>2, RequestGoes DEF Stations
    <3>2. completion[c].healthy = <<>> /\ completion[c].began <= tick
      BY <1>5 DEF ModerateMessage, ChatAt, ChecksAreTrue
    <3>3. ToSet(completion'[c].healthy) = {}
      BY <3>1, <3>2 DEF ToSet
    <3>4. \A p \in ChatNames :
            /\ health'[p].at <= tick
            /\ health'[p].up /\ ~clientUp[p].up => health'[p].at <= clientUp[p].since
      BY <1>5 DEF ModerateMessage, ChecksAreTrue
    <3> QED
      BY <1>5, <3>1, <3>2, <3>3, <3>4, RequestStaysAlive DEF ModerateMessage
  <2> QED
    BY <1>5, <2>1, <2>2 DEF ModerateMessage
<1>6. ASSUME NEW c \in Completions, CheckHealth(c) PROVE ChecksAreTrue'
  <2> DEFINE p == ChatClients[completion[c].next]
             up == IF Believed(p) THEN health[p].up ELSE clientUp[p].up
             healthy == IF up THEN Append(completion[c].healthy, p) ELSE completion[c].healthy
             r == [completion[c] EXCEPT !.next = @ + 1, !.healthy = healthy]
  <2>1. p \in ChatNames
    <3>1. completion[c].next \in Nat \ {0} /\ Len(ChatClients) \in Nat
      BY <1>0, ChatClientsAreNamed DEF CompletionType
    <3> QED
      BY <1>6, <3>1, ChatClientsAreNamed DEF CheckHealth
  <2>2. health' = IF Believed(p) THEN health ELSE [health EXCEPT ![p] = [up |-> up, at |-> tick]]
    BY <1>6 DEF CheckHealth
  <2>3. completion' = [completion EXCEPT ![c] = r]
    BY <1>6 DEF CheckHealth
  <2>4. completion[c].pc = "health" /\ UNCHANGED <<clientUp, tick>>
    BY <1>6 DEF CheckHealth, ChatAt
  <2> HIDE DEF p
  <2>5. up => AliveFor(c, p)
    <3>1. CASE Believed(p)
      <4>1. health[p].at > tick - HealthInterval /\ completion[c].began <= tick
        BY <1>0, <2>1, <3>1 DEF Believed, ChecksAreTrue
      <4>2. health[p].up /\ ~clientUp[p].up => health[p].at <= clientUp[p].since
        BY <2>1 DEF ChecksAreTrue
      <4> QED
        BY <1>0, <1>00, <2>1, <3>1, <4>1, <4>2 DEF AliveFor
    <3>2. CASE ~Believed(p)
      BY <3>2 DEF AliveFor
    <3> QED
      BY <3>1, <3>2
  <2>6. \A q \in ChatNames :
          /\ health'[q].at <= tick
          /\ health'[q].up /\ ~clientUp[q].up => health'[q].at <= clientUp[q].since
    <3>1. CASE Believed(p)
      BY <2>2, <3>1 DEF ChecksAreTrue
    <3>2. CASE ~Believed(p)
      <4>1. health'[p] = [up |-> clientUp[p].up, at |-> tick]
            /\ \A q \in ChatNames : q # p => health'[q] = health[q]
        BY <2>1, <2>2, <3>2 DEF ChatTyped
      <4> QED
        BY <1>0, <4>1 DEF ChecksAreTrue
    <3> QED
      BY <3>1, <3>2
  <2> HIDE DEF up
  <2>7. \A q \in ToSet(healthy) : AliveFor(c, q)
    <3>1. \A q \in ToSet(completion[c].healthy) : AliveFor(c, q)
      BY <2>4 DEF ChecksAreTrue
    <3>2. ToSet(Append(completion[c].healthy, p)) = ToSet(completion[c].healthy) \cup {p}
      BY <1>00, <2>1, AppendAddsLast
    <3> QED
      BY <2>5, <3>1, <3>2
  <2> HIDE DEF healthy
  <2>8. r.pc = "health" /\ r.began = completion[c].began /\ r.healthy = healthy
    BY <1>0, <2>4 DEF CompletionType
  <2> HIDE DEF r
  <2>9. completion'[c] = r /\ \A d \in Completions : d # c => completion'[d] = completion[d]
    BY <2>3 DEF ChatTyped
  <2>10. \A q \in ToSet(completion'[c].healthy) : AliveFor(c, q)'
    BY <2>4, <2>7, <2>8, <2>9 DEF AliveFor
  <2>11. completion'[c].began <= tick
    BY <2>8, <2>9 DEF ChecksAreTrue
  <2> QED
    BY <2>4, <2>6, <2>8, <2>9, <2>10, <2>11, RequestStaysAlive
<1>7. ASSUME NEW c \in Completions, SelectProvider(c) PROVE ChecksAreTrue'
  <2>1. CASE completion[c].healthy = <<>>
    BY <1>7, <2>1, RequestGoesAlive DEF SelectProvider, Stations
  <2>2. CASE completion[c].healthy # <<>>
    <3> DEFINE client == Selected(completion[c].healthy)
               r == [completion[c] EXCEPT !.pc = "call", !.client = client]
    <3>1. client \in ToSet(completion[c].healthy) /\ client \in ChatNames
      BY <1>00, <2>2, SelectedIsHealthy, InToSet
    <3>2. completion' = [completion EXCEPT ![c] = r]
      BY <1>7, <2>2 DEF SelectProvider
    <3>3. completion[c].pc = "health" /\ UNCHANGED <<clientUp, tick, health>>
      BY <1>7 DEF SelectProvider, ChatAt
    <3>4. AliveFor(c, client) /\ completion[c].began <= tick
      BY <3>1, <3>3 DEF ChecksAreTrue
    <3> HIDE DEF client
    <3>5. r.pc = "call" /\ r.client = client /\ r.began = completion[c].began
      BY <1>0 DEF CompletionType
    <3> HIDE DEF r
    <3>6. completion'[c] = r /\ \A d \in Completions : d # c => completion'[d] = completion[d]
      BY <3>2 DEF ChatTyped
    <3>7. AliveFor(c, completion[c].client)'
      BY <3>3, <3>4, <3>5, <3>6 DEF AliveFor
    <3>8. \A q \in ChatNames :
            /\ health'[q].at <= tick
            /\ health'[q].up /\ ~clientUp[q].up => health'[q].at <= clientUp[q].since
      BY <3>3 DEF ChecksAreTrue
    <3> QED
      BY <3>1, <3>3, <3>4, <3>5, <3>6, <3>7, <3>8, RequestStaysAlive
  <2> QED
    BY <2>1, <2>2
<1>8. ASSUME NEW c \in Completions, AskClient(c) PROVE ChecksAreTrue'
  <2>1. PICK pc \in {"charge", "error"} : ChatGoto(c, pc)
    BY <1>8 DEF AskClient
  <2> QED
    BY <1>8, <2>1, RequestGoesAlive DEF AskClient, Stations
<1>9. ASSUME NEW c \in Completions, ChargeMessage(c) PROVE ChecksAreTrue'
  <2>1. PICK pc \in {"logQuestion", "error"} : ChatGoto(c, pc)
    BY <1>9 DEF ChargeMessage
  <2> QED
    BY <1>9, <2>1, RequestGoesAlive DEF ChargeMessage, Stations
<1>10. ASSUME NEW c \in Completions, NEW role, NEW next \in {"logAnswer", "done"}, Logs(c, role, next)
       PROVE  ChecksAreTrue'
  <2>1. PICK pc \in {next, "error"} : ChatGoto(c, pc)
    BY <1>10 DEF Logs
  <2> QED
    BY <1>10, <2>1, RequestGoesAlive DEF Logs, Stations
<1> QED
  BY <1>1, <1>2, <1>3, <1>4, <1>5, <1>6, <1>7, <1>8, <1>9, <1>10
  DEF ChatNext, CallOpenRouter, CallGroqChat, StreamOpenRouter, StreamGroqChat, LogQuestion,
      LogCompletion, LogStreamQuestion, LogStream

-----------------------------------------------------------------------------
(* The log and the charges. *)

Question(c) == [request |-> c, role |-> "user"]
Answer(c) == [request |-> c, role |-> "assistant"]

\* Only a request that was charged writes to the log, its question first.
ChargedFirst ==
    /\ \A c \in Completions :
         /\ completion[c].pc \in {"logQuestion", "logAnswer", "done"} => c \in paidFor
         /\ c \in paidFor => completion[c].pc \in {"logQuestion", "logAnswer", "done", "error"}
         /\ completion[c].pc = "logAnswer" => Question(c) \in ToSet(logged)
         /\ ~ChatMayFail("database") =>
              /\ completion[c].pc = "done" => Answer(c) \in ToSet(logged)
              /\ c \in paidFor => completion[c].pc # "error"
    /\ \A i \in DOMAIN logged :
         /\ logged[i].request \in paidFor
         /\ logged[i].role = "assistant" =>
              \E j \in 1..(i - 1) : logged[j] = Question(logged[i].request)

\* A request that has not paid stays where nothing is to be paid for.
LEMMA UnpaidGoes ==
  ASSUME ChatTyped, ChargedFirst, NEW c \in Completions,
         completion[c].pc \in {"idle", "moderate", "health", "call", "charge"},
         completion'[c].pc \in {"moderate", "health", "call", "charge", "error"},
         \A d \in Completions : d # c => completion'[d] = completion[d],
         UNCHANGED <<chatEnv, paidFor, logged>>
  PROVE  ChargedFirst'
<1>1. c \notin paidFor
  BY DEF ChargedFirst
<1>2. ChatMayFail("database")' <=> ChatMayFail("database")
  BY DEF ChatMayFail
<1> QED
  BY <1>1, <1>2 DEF ChargedFirst

\* Only a request that was charged writes to the log.
LEMMA ChargesStep == ChatTyped /\ ChargedFirst /\ [ChatNext]_chatVars => ChargedFirst'
<1> SUFFICES ASSUME ChatTyped, ChargedFirst, [ChatNext]_chatVars PROVE ChargedFirst'
  OBVIOUS
<1>0. /\ \A c \in Completions : completion[c] \in CompletionType
      /\ logged \in Seq([request : Completions, role : {"user", "assistant"}])
  BY DEF ChatTyped
<1>1. CASE UNCHANGED <<chatEnv, completion, paidFor, logged>>
  BY <1>1 DEF ChargedFirst, ChatMayFail
<1>2. ASSUME NEW c \in Completions, NEW pc \in Stations, ChatGoto(c, pc)
      PROVE  completion'[c].pc = pc /\ \A d \in Completions : d # c => completion'[d] = completion[d]
  BY <1>2, RequestGoes
<1>3. ASSUME NEW c \in Completions, CheckAffordable(c) PROVE ChargedFirst'
  <2> DEFINE rich == chatTokens >= MessageCost
             r == [completion[c] EXCEPT !.pc = "moderate", !.rich = rich, !.began = tick]
  <2>1. completion'[c] = r /\ \A d \in Completions : d # c => completion'[d] = completion[d]
    BY <1>3 DEF CheckAffordable, ChatTyped
  <2> HIDE DEF rich
  <2>2. r.pc = "moderate"
    BY <1>0 DEF CompletionType
  <2> HIDE DEF r
  <2>3. completion[c].pc = "idle" /\ UNCHANGED <<chatEnv, paidFor, logged>>
    BY <1>3 DEF CheckAffordable, ChatAt
  <2> QED
    BY <2>1, <2>2, <2>3, UnpaidGoes
<1>4. ASSUME NEW c \in Completions, ModerateMessage(c) PROVE ChargedFirst'
  <2>1. PICK pc \in {"health", "error"} : ChatGoto(c, pc)
    BY <1>4 DEF ModerateMessage
  <2>2. completion[c].pc = "moderate" /\ UNCHANGED <<chatEnv, paidFor, logged>>
    BY <1>4 DEF ModerateMessage, ChatAt
  <2> QED
    BY <1>2, <2>1, <2>2, UnpaidGoes DEF Stations
<1>5. ASSUME NEW c \in Completions, CheckHealth(c) PROVE ChargedFirst'
  <2>1. PICK h : completion' = [completion EXCEPT
                   ![c] = [completion[c] EXCEPT !.next = @ + 1, !.healthy = h]]
    BY <1>5 DEF CheckHealth
  <2>2. /\ completion'[c].pc = completion[c].pc
        /\ \A d \in Completions : d # c => completion'[d] = completion[d]
    BY <1>0, <2>1 DEF CompletionType, ChatTyped
  <2>3. completion[c].pc = "health" /\ UNCHANGED <<chatEnv, paidFor, logged>>
    BY <1>5 DEF CheckHealth, ChatAt
  <2> QED
    BY <2>2, <2>3, UnpaidGoes
<1>6. ASSUME NEW c \in Completions, SelectProvider(c) PROVE ChargedFirst'
  <2>1. completion[c].pc = "health" /\ UNCHANGED <<chatEnv, paidFor, logged>>
    BY <1>6 DEF SelectProvider, ChatAt
  <2>2. CASE ChatGoto(c, "error")
    BY <1>2, <2>1, <2>2, UnpaidGoes DEF Stations
  <2>3. CASE completion' = [completion EXCEPT
               ![c] = [@ EXCEPT !.pc = "call", !.client = Selected(completion[c].healthy)]]
    <3> DEFINE client == Selected(completion[c].healthy)
    <3> HIDE DEF client
    <3>1. completion' = [completion EXCEPT ![c] = [@ EXCEPT !.pc = "call", !.client = client]]
      BY <2>3 DEF client
    <3>2. /\ completion'[c].pc = "call"
          /\ \A d \in Completions : d # c => completion'[d] = completion[d]
      BY <1>0, <3>1 DEF CompletionType, ChatTyped
    <3> QED
      BY <2>1, <3>2, UnpaidGoes
  <2> QED
    BY <1>6, <2>2, <2>3 DEF SelectProvider
<1>7. ASSUME NEW c \in Completions, ChatAt(c, "call"), AskClient(c) PROVE ChargedFirst'
  <2>1. PICK pc \in {"charge", "error"} : ChatGoto(c, pc)
    BY <1>7 DEF AskClient
  <2>2. completion[c].pc = "call" /\ UNCHANGED <<chatEnv, paidFor, logged>>
    BY <1>7 DEF AskClient, ChatAt
  <2> QED
    BY <1>2, <2>1, <2>2, UnpaidGoes DEF Stations
<1>8. ASSUME NEW c \in Completions, ChargeMessage(c) PROVE ChargedFirst'
  <2>1. completion[c].pc = "charge" /\ UNCHANGED <<chatEnv, logged>>
    BY <1>8 DEF ChargeMessage, ChatAt
  <2>2. CASE ChatGoto(c, "error") /\ UNCHANGED paidFor
    BY <1>2, <2>1, <2>2, UnpaidGoes DEF Stations
  <2>3. CASE ChatGoto(c, "logQuestion") /\ paidFor' = paidFor \cup {c}
    <3>1. /\ completion'[c].pc = "logQuestion"
          /\ \A d \in Completions : d # c => completion'[d] = completion[d]
      BY <1>2, <2>3 DEF Stations
    <3>2. ChatMayFail("database")' <=> ChatMayFail("database")
      BY <2>1 DEF ChatMayFail
    <3> QED
      BY <2>1, <2>3, <3>1, <3>2 DEF ChargedFirst
  <2> QED
    BY <1>8, <2>2, <2>3 DEF ChargeMessage
<1>9. ASSUME NEW c \in Completions,
             \/ ChatAt(c, "logQuestion") /\ Logs(c, "user", "logAnswer")
             \/ ChatAt(c, "logAnswer") /\ Logs(c, "assistant", "done")
      PROVE  ChargedFirst'
  <2>1. /\ c \in paidFor /\ completion[c].pc \in {"logQuestion", "logAnswer"}
        /\ UNCHANGED <<chatEnv, paidFor>>
    BY <1>9 DEF ChatAt, ChargedFirst, Logs
  <2>2. ChatMayFail("database")' <=> ChatMayFail("database")
    BY <2>1 DEF ChatMayFail
  <2>3. CASE ChatMayFail("database") /\ ChatGoto(c, "error") /\ UNCHANGED logged
    <3>1. /\ completion'[c].pc = "error"
          /\ \A d \in Completions : d # c => completion'[d] = completion[d]
      BY <1>2, <2>3 DEF Stations
    <3> QED
      BY <2>1, <2>2, <2>3, <3>1 DEF ChargedFirst
  <2>4. CASE ChatAt(c, "logQuestion") /\ logged' = Append(logged, Question(c)) /\ ChatGoto(c, "logAnswer")
    <3>1. /\ completion'[c].pc = "logAnswer"
          /\ \A d \in Completions : d # c => completion'[d] = completion[d]
      BY <1>2, <2>4 DEF Stations
    <3>2. /\ Question(c) \in [request : Completions, role : {"user", "assistant"}]
          /\ Question(c).role = "user" /\ Question(c).request = c
      BY DEF Question
    <3>3. /\ Len(logged') = Len(logged) + 1 /\ logged'[Len(logged) + 1] = Question(c)
          /\ \A i \in 1..Len(logged) : logged'[i] = logged[i]
          /\ ToSet(logged') = ToSet(logged) \cup {Question(c)}
          /\ logged' \in Seq([request : Completions, role : {"user", "assistant"}])
      <4> DEFINE e == Question(c)
                 new == Append(logged, e)
                 S == [request : Completions, role : {"user", "assistant"}]
      <4>1. logged \in Seq(S) /\ e \in S
        BY <1>0, <3>2
      <4> HIDE DEF e, S
      <4>2. /\ Len(new) = Len(logged) + 1 /\ new[Len(logged) + 1] = e
            /\ \A i \in 1..Len(logged) : new[i] = logged[i]
            /\ ToSet(new) = ToSet(logged) \cup {e} /\ new \in Seq(S)
        BY <4>1, AppendAddsLast
      <4>3. logged' = new
        BY <2>4 DEF e
      <4> QED
        BY <4>2, <4>3 DEF e, S
    <3>4. /\ DOMAIN logged = 1..Len(logged) /\ DOMAIN logged' = 1..(Len(logged) + 1)
          /\ Len(logged) \in Nat
      BY <1>0, <3>3
    <3>5. ASSUME NEW i \in 1..(Len(logged) + 1)
          PROVE /\ logged'[i].request \in paidFor
                /\ logged'[i].role = "assistant" =>
                     \E j \in 1..(i - 1) : logged'[j] = Question(logged'[i].request)
      <4>1. CASE i = Len(logged) + 1
        BY <2>1, <3>2, <3>3, <4>1
      <4>2. CASE i \in 1..Len(logged)
        <5>1. \A j \in 1..(i - 1) : j \in 1..Len(logged)
          BY <3>4, <4>2
        <5> QED
          BY <3>3, <3>4, <4>2, <5>1 DEF ChargedFirst
      <4> QED
        BY <3>4, <4>1, <4>2
    <3>6. ASSUME NEW d \in Completions
          PROVE /\ completion'[d].pc \in {"logQuestion", "logAnswer", "done"} => d \in paidFor
                /\ d \in paidFor =>
                     completion'[d].pc \in {"logQuestion", "logAnswer", "done", "error"}
                /\ completion'[d].pc = "logAnswer" => Question(d) \in ToSet(logged')
                /\ ~ChatMayFail("database") =>
                     /\ completion'[d].pc = "done" => Answer(d) \in ToSet(logged')
                     /\ d \in paidFor => completion'[d].pc # "error"
      <4>1. CASE d = c
        BY <2>1, <3>1, <3>3, <4>1
      <4>2. CASE d # c
        BY <3>1, <3>3, <4>2 DEF ChargedFirst
      <4> QED
        BY <4>1, <4>2
    <3> QED
      BY <2>1, <2>2, <3>4, <3>5, <3>6 DEF ChargedFirst
  <2>5. CASE ChatAt(c, "logAnswer") /\ logged' = Append(logged, Answer(c)) /\ ChatGoto(c, "done")
    <3>1. /\ completion'[c].pc = "done"
          /\ \A d \in Completions : d # c => completion'[d] = completion[d]
      BY <1>2, <2>5 DEF Stations
    <3>2. /\ Answer(c) \in [request : Completions, role : {"user", "assistant"}]
          /\ Answer(c).request = c
      BY DEF Answer
    <3>3. /\ Len(logged') = Len(logged) + 1 /\ logged'[Len(logged) + 1] = Answer(c)
          /\ \A i \in 1..Len(logged) : logged'[i] = logged[i]
          /\ ToSet(logged') = ToSet(logged) \cup {Answer(c)}
          /\ logged' \in Seq([request : Completions, role : {"user", "assistant"}])
      <4> DEFINE e == Answer(c)
                 new == Append(logged, e)
                 S == [request : Completions, role : {"user", "assistant"}]
      <4>1. logged \in Seq(S) /\ e \in S
        BY <1>0, <3>2
      <4> HIDE DEF e, S
      <4>2. /\ Len(new) = Len(logged) + 1 /\ new[Len(logged) + 1] = e
            /\ \A i \in 1..Len(logged) : new[i] = logged[i]
            /\ ToSet(new) = ToSet(logged) \cup {e} /\ new \in Seq(S)
        BY <4>1, AppendAddsLast
      <4>3. logged' = new
        BY <2>5 DEF e
      <4> QED
        BY <4>2, <4>3 DEF e, S
    <3>4. /\ DOMAIN logged = 1..Len(logged) /\ DOMAIN logged' = 1..(Len(logged) + 1)
          /\ Len(logged) \in Nat
      BY <1>0, <3>3
    <3>5. PICK q \in 1..Len(logged) : logged[q] = Question(c)
      <4>1. Question(c) \in ToSet(logged)
        BY <2>5 DEF ChatAt, ChargedFirst
      <4> QED
        BY <1>0, <4>1, InToSet
    <3>6. ASSUME NEW i \in 1..(Len(logged) + 1)
          PROVE /\ logged'[i].request \in paidFor
                /\ logged'[i].role = "assistant" =>
                     \E j \in 1..(i - 1) : logged'[j] = Question(logged'[i].request)
      <4>1. CASE i = Len(logged) + 1
        <5>1. q \in 1..(i - 1)
          BY <3>4, <4>1
        <5> QED
          BY <2>1, <3>2, <3>3, <3>5, <4>1, <5>1
      <4>2. CASE i \in 1..Len(logged)
        <5>1. \A j \in 1..(i - 1) : j \in 1..Len(logged)
          BY <3>4, <4>2
        <5> QED
          BY <3>3, <3>4, <4>2, <5>1 DEF ChargedFirst
      <4> QED
        BY <3>4, <4>1, <4>2
    <3>7. ASSUME NEW d \in Completions
          PROVE /\ completion'[d].pc \in {"logQuestion", "logAnswer", "done"} => d \in paidFor
                /\ d \in paidFor =>
                     completion'[d].pc \in {"logQuestion", "logAnswer", "done", "error"}
                /\ completion'[d].pc = "logAnswer" => Question(d) \in ToSet(logged')
                /\ ~ChatMayFail("database") =>
                     /\ completion'[d].pc = "done" => Answer(d) \in ToSet(logged')
                     /\ d \in paidFor => completion'[d].pc # "error"
      <4>1. CASE d = c
        BY <2>1, <3>1, <3>3, <4>1
      <4>2. CASE d # c
        BY <3>1, <3>3, <4>2 DEF ChargedFirst
      <4> QED
        BY <4>1, <4>2
    <3> QED
      BY <2>1, <2>2, <3>4, <3>6, <3>7 DEF ChargedFirst
  <2> QED
    BY <1>9, <2>3, <2>4, <2>5 DEF Logs, Question, Answer
<1>10. ASSUME NEW p \in ToSet(ChatClients), ProviderTurns(p) PROVE ChargedFirst'
  BY <1>1, <1>10 DEF ProviderTurns
<1> QED
  BY <1>1, <1>3, <1>4, <1>5, <1>6, <1>7, <1>8, <1>9, <1>10
  DEF ChatNext, chatVars, ClockTicks, CallOpenRouter, CallGroqChat, StreamOpenRouter,
      StreamGroqChat, LogQuestion, LogCompletion, LogStreamQuestion, LogStream

-----------------------------------------------------------------------------
(* The round-robin index. *)

\* Each request moves it on at most once, when its client is chosen.
Chosen == {c \in Completions : completion[c].client # "none"}
OneTurnEach ==
    /\ \A c \in Completions :
         completion[c].pc \in {"idle", "moderate", "health"} => completion[c].client = "none"
    /\ roundRobin <= Cardinality(Chosen)

\* The round-robin index stays within the requests that have chosen.
LEMMA ChosenStays ==
  ASSUME OneTurnEach, UNCHANGED roundRobin,
         \A d \in Completions :
            \/ completion'[d] = completion[d]
            \/ /\ completion'[d].client = completion[d].client
               /\ completion'[d].pc \in {"idle", "moderate", "health"} =>
                     completion[d].pc \in {"idle", "moderate", "health"}
  PROVE  OneTurnEach'
<1>1. Chosen' = Chosen
  BY DEF Chosen
<1> QED
  BY <1>1 DEF OneTurnEach

\* Every request that chooses moves the index by at most one.
LEMMA TurnsStep == ChatTyped /\ OneTurnEach /\ [ChatNext]_chatVars => OneTurnEach'
<1> SUFFICES ASSUME ChatTyped, OneTurnEach, [ChatNext]_chatVars PROVE OneTurnEach'
  OBVIOUS
<1>0. \A c \in Completions : completion[c] \in CompletionType
  BY DEF ChatTyped
<1>1. CASE UNCHANGED <<completion, roundRobin>>
  BY <1>1, ChosenStays
<1>2. ASSUME NEW c \in Completions, NEW pc \in Stations \ {"idle", "moderate", "health"},
             ChatGoto(c, pc), UNCHANGED roundRobin
      PROVE  OneTurnEach'
  <2>1. /\ completion'[c].pc = pc /\ completion'[c].client = completion[c].client
        /\ \A d \in Completions : d # c => completion'[d] = completion[d]
    BY <1>2, RequestGoes
  <2> QED
    BY <1>2, <2>1, ChosenStays
<1>3. ASSUME NEW c \in Completions, CheckAffordable(c) PROVE OneTurnEach'
  <2> DEFINE rich == chatTokens >= MessageCost
             r == [completion[c] EXCEPT !.pc = "moderate", !.rich = rich, !.began = tick]
  <2>1. completion'[c] = r /\ \A d \in Completions : d # c => completion'[d] = completion[d]
    BY <1>3 DEF CheckAffordable, ChatTyped
  <2> HIDE DEF rich
  <2>2. r.client = completion[c].client
    BY <1>0 DEF CompletionType
  <2> HIDE DEF r
  <2>3. completion[c].pc = "idle" /\ UNCHANGED roundRobin
    BY <1>3 DEF CheckAffordable, ChatAt
  <2> QED
    BY <2>1, <2>2, <2>3, ChosenStays
<1>4. ASSUME NEW c \in Completions, ModerateMessage(c) PROVE OneTurnEach'
  <2>1. PICK pc \in {"health", "error"} : ChatGoto(c, pc)
    BY <1>4 DEF ModerateMessage
  <2>2. completion[c].pc = "moderate" /\ UNCHANGED roundRobin
    BY <1>4 DEF ModerateMessage, ChatAt
  <2>3. /\ completion'[c].client = completion[c].client
        /\ \A d \in Completions : d # c => completion'[d] = completion[d]
    BY <2>1, RequestGoes DEF Stations
  <2> QED
    BY <2>2, <2>3, ChosenStays
<1>5. ASSUME NEW c \in Completions, CheckHealth(c) PROVE OneTurnEach'
  <2>1. PICK h : completion' = [completion EXCEPT
                   ![c] = [completion[c] EXCEPT !.next = @ + 1, !.healthy = h]]
    BY <1>5 DEF CheckHealth
  <2>2. /\ completion'[c].pc = completion[c].pc /\ completion'[c].client = completion[c].client
        /\ \A d \in Completions : d # c => completion'[d] = completion[d]
    BY <1>0, <2>1 DEF CompletionType, ChatTyped
  <2>3. UNCHANGED roundRobin
    BY <1>5 DEF CheckHealth
  <2> QED
    BY <2>2, <2>3, ChosenStays
<1>6. ASSUME NEW c \in Completions, SelectProvider(c) PROVE OneTurnEach'
  <2>1. CASE completion[c].healthy = <<>>
    BY <1>2, <1>6, <2>1 DEF SelectProvider, Stations
  <2>2. CASE completion[c].healthy # <<>>
    <3> DEFINE client == Selected(completion[c].healthy)
    <3>1. client \in ChatNames
      <4>1. completion[c].healthy \in Seq(ChatNames)
        BY <1>0 DEF CompletionType
      <4> QED
        BY <2>2, <4>1, SelectedIsHealthy, InToSet
    <3>2. completion' = [completion EXCEPT ![c] = [@ EXCEPT !.pc = "call", !.client = client]]
      BY <1>6, <2>2 DEF SelectProvider
    <3> HIDE DEF client
    <3>3. /\ completion'[c].pc = "call" /\ completion'[c].client = client
          /\ \A d \in Completions : d # c => completion'[d] = completion[d]
      BY <1>0, <3>2 DEF CompletionType, ChatTyped
    <3>4. completion[c].client = "none" /\ client # "none"
      BY <1>6, <3>1, ChatClientsAreNamed DEF SelectProvider, ChatAt, OneTurnEach
    <3>5. Chosen' = Chosen \cup {c} /\ c \notin Chosen
      BY <3>3, <3>4 DEF Chosen
    <3>6. IsFiniteSet(Chosen)
      BY CompletionsAreFinite, FS_Subset DEF Chosen
    <3>7. Cardinality(Chosen') = Cardinality(Chosen) + 1 /\ Cardinality(Chosen) \in Nat
      BY <3>5, <3>6, FS_AddElement, FS_CardinalityType
    <3>8. roundRobin' <= roundRobin + 1 /\ roundRobin' \in Nat /\ roundRobin \in Nat
      BY <1>6, <2>2 DEF SelectProvider, ChatTyped
    <3>9. roundRobin' <= Cardinality(Chosen')
      BY <3>7, <3>8 DEF OneTurnEach
    <3> QED
      BY <3>3, <3>9 DEF OneTurnEach
  <2> QED
    BY <2>1, <2>2
<1>7. ASSUME NEW c \in Completions, AskClient(c) PROVE OneTurnEach'
  BY <1>2, <1>7 DEF AskClient, Stations
<1>8. ASSUME NEW c \in Completions, ChargeMessage(c) PROVE OneTurnEach'
  BY <1>2, <1>8 DEF ChargeMessage, Stations
<1>9. ASSUME NEW c \in Completions, NEW role, NEW next \in {"logAnswer", "done"}, Logs(c, role, next)
      PROVE  OneTurnEach'
  BY <1>2, <1>9 DEF Logs, Stations
<1>10. ASSUME NEW p \in ToSet(ChatClients), ProviderTurns(p) PROVE OneTurnEach'
  BY <1>1, <1>10 DEF ProviderTurns
<1> QED
  BY <1>1, <1>3, <1>4, <1>5, <1>6, <1>7, <1>8, <1>9, <1>10
  DEF ChatNext, chatVars, ClockTicks, CallOpenRouter, CallGroqChat, StreamOpenRouter,
      StreamGroqChat, LogQuestion, LogCompletion, LogStreamQuestion, LogStream

-----------------------------------------------------------------------------

\* At first nothing was asked, charged or chosen.
LEMMA ChatStarts == ChatInit => ChatTyped /\ ChecksAreTrue /\ ChargedFirst /\ OneTurnEach
<1> SUFFICES ASSUME ChatInit PROVE ChatTyped /\ ChecksAreTrue /\ ChargedFirst /\ OneTurnEach
  OBVIOUS
<1> DEFINE r == [pc |-> "idle", rich |-> FALSE, began |-> 0, healthy |-> <<>>, next |-> 1,
                 client |-> "none"]
<1>1. r \in CompletionType
  BY DEF CompletionType, Stations
<1>2. /\ completion \in [Completions -> CompletionType]
      /\ \A c \in Completions : completion[c] = r
  BY <1>1 DEF ChatInit
<1>3. NoCheck \in [up : BOOLEAN, at : Int] /\ NoCheck.at <= 0 /\ ~NoCheck.up
  BY ChatTimesAreNatural DEF NoCheck
<1>4. ChatTyped
  BY <1>2, <1>3, ChatCostsAreNatural, ChatTimesAreNatural DEF ChatInit, ChatTyped, ChatNames
<1>5. /\ \A c \in Completions : /\ completion[c].pc = "idle" /\ completion[c].client = "none"
                               /\ completion[c].healthy = <<>> /\ completion[c].began = 0
      /\ logged = <<>> /\ paidFor = {} /\ tick = 0 /\ roundRobin = 0
      /\ \A p \in ChatNames : health[p] = NoCheck
  BY <1>2 DEF ChatInit, ChatNames
<1>6. ChecksAreTrue
  BY <1>3, <1>5 DEF ChecksAreTrue
<1>7. ChargedFirst
  BY <1>5 DEF ChargedFirst
<1>8. OneTurnEach
  <2>1. Chosen = {}
    BY <1>5 DEF Chosen
  <2> QED
    BY <1>5, <2>1, FS_EmptySet DEF OneTurnEach
<1> QED
  BY <1>4, <1>6, <1>7, <1>8

ChatInv == ChatTyped /\ ChecksAreTrue /\ ChargedFirst /\ OneTurnEach

\* The invariant of the chat holds at first.
LEMMA ChatInvStarts == ChatInit => ChatInv
BY ChatStarts DEF ChatInv

\* Every step of the chat keeps its invariant.
LEMMA ChatInvStep == ChatInv /\ [ChatNext]_chatVars => ChatInv'
BY ChatTypesStep, ChecksStep, ChargesStep, TurnsStep DEF ChatInv

\* The invariant contains the types.
LEMMA ChatInvTypes == ChatInv => ChatTypeOK
<1> SUFFICES ASSUME ChatTyped, OneTurnEach PROVE ChatTypeOK
  BY DEF ChatInv
<1>1. Chosen \subseteq Completions
  BY DEF Chosen
<1>2. Cardinality(Chosen) <= Cardinality(Completions) /\ Cardinality(Completions) \in Nat
      /\ Cardinality(Chosen) \in Nat
  BY <1>1, CompletionsAreFinite, FS_Subset, FS_CardinalityType
<1>3. roundRobin \in 0..Cardinality(Completions)
  BY <1>2 DEF OneTurnEach, ChatTyped
<1> QED
  BY <1>3 DEF ChatTyped, ChatTypeOK

\* The invariant contains that log and charges match.
LEMMA ChatInvLogs == ChatInv => LogMatchesCharges
<1> SUFFICES ASSUME ChatTyped, ChargedFirst PROVE LogMatchesCharges
  BY DEF ChatInv
<1>1. \A i \in DOMAIN logged :
        /\ logged[i].request \in paidFor
        /\ logged[i].role = "assistant" =>
             \E j \in 1..(i - 1) : logged[j] = [request |-> logged[i].request, role |-> "user"]
  BY DEF ChargedFirst, Question
<1>2. ~ChatMayFail("database") => \A c \in paidFor : completion[c].pc \in {"done", "error"} =>
        [request |-> c, role |-> "assistant"] \in ToSet(logged)
  BY DEF ChargedFirst, ChatTyped, Answer
<1> QED
  BY <1>1, <1>2 DEF LogMatchesCharges

\* A chat never has a negative balance, an unknown client or a round-robin index beyond the
\* requests made.
THEOREM ChatTypesHold == ChatSpec => []ChatTypeOK
  BY ChatInvStarts, ChatInvStep, ChatInvTypes, PTL DEF ChatSpec

\* createCompletion never calls a provider that had been down for a whole health-check
\* interval when the request began.
THEOREM NoDeadClientIsCalled == ChatSpec => []DeadClientIsNotCalled
<1>1. ChatInv => DeadClientIsNotCalled
  <2> SUFFICES ASSUME ChatTyped, ChecksAreTrue, NEW c \in Completions, ChatAt(c, "call")
               PROVE  LET p == clientUp[completion[c].client]
                      IN  ~(~p.up /\ p.since + HealthInterval <= completion[c].began)
    BY DEF ChatInv, DeadClientIsNotCalled
  <2>1. completion[c].client \in ChatNames /\ AliveFor(c, completion[c].client)
    BY DEF ChatAt, ChecksAreTrue
  <2>2. clientUp[completion[c].client].since \in Nat /\ completion[c].began \in Nat
        /\ HealthInterval \in Nat
    BY <2>1, ChatTimesAreNatural DEF ChatTyped, CompletionType
  <2> QED
    BY <2>1, <2>2 DEF AliveFor
<1> QED
  BY <1>1, ChatInvStarts, ChatInvStep, PTL DEF ChatSpec

\* What is in the chat log was paid for, and asked before it was answered.
THEOREM ChatLogMatchesCharges == ChatSpec => []LogMatchesCharges
  BY ChatInvStarts, ChatInvStep, ChatInvLogs, PTL DEF ChatSpec
=============================================================================
