--------------------------- MODULE ServicesProofs ---------------------------
(***************************************************************************)
(* Proofs about the parts beside the ledger: the phone, SmsIngest,         *)
(* ConnPool, UserKey and Investment, each on its own, for every value of   *)
(* its constants.                                                          *)
(***************************************************************************)
EXTENDS MobileSms, SmsIngest, ConnPool, UserKey, Investment, SumLemmas,
        SequenceTheorems, TLAPS

-----------------------------------------------------------------------------
(* The phone: every set of messages, any number of requests and upsets.      *)

USE BoundsAssumption DEF BoundsAssumption

(***************************************************************************)
(* The inductive invariant.  A request is spent once nothing can come of   *)
(* it any more and no log has; of an id that is not excused at most one    *)
(* request is not, and none when the id may be submitted.  The list is     *)
(* complete on every screen behind which the permission is granted.        *)
(***************************************************************************)
StatusValues == {"none", "sending", "sent", "error"}

Post == [id : Ids, sms : Messages, key : Nat,
         pc : {"key", "sent", "ok", "refused", "done"},
         waiting : BOOLEAN, logged : BOOLEAN]

PostTypes ==
    /\ posts \in Seq(Post) /\ Len(posts) <= MaxPosts
    /\ statusMap \in [Ids -> StatusValues] /\ excused \subseteq Ids
    /\ key \in 1 .. (MaxUpsets + 1) /\ stored \in 0 .. key /\ kills \in 0 .. MaxUpsets
    /\ kills + key - 1 <= MaxUpsets

ScreenTypes ==
    /\ air \subseteq Messages /\ inbox \subseteq Messages
    /\ store \subseteq Messages /\ smsList \subseteq Messages
    /\ alive \in BOOLEAN /\ loading \in BOOLEAN /\ error \in BOOLEAN
    /\ permission \in {"pending", "granted", "denied"}
    /\ keyReady \in {"unknown", "no", "yes"}
    /\ qr \in {"camera", "scanning", "error", "saved", "savedUngranted"}
    /\ unread \in BOOLEAN
    /\ display \subseteq Ids \X Messages
    /\ fetches \in Seq(SUBSET Messages)

LoggedIfOk ==
    \A n \in DOMAIN posts :
        /\ posts[n].pc = "ok" => posts[n].logged
        /\ posts[n].pc \in {"key", "sent", "refused"} => ~posts[n].logged

Spent(n) == posts[n].pc = "done" /\ ~posts[n].waiting /\ ~posts[n].logged

OneOpen ==
    /\ \A n \in DOMAIN posts :
          posts[n].id \notin excused /\ statusMap[posts[n].id] \in {"none", "error"}
             => Spent(n)
    /\ \A i, j \in DOMAIN posts :
          posts[i].id = posts[j].id /\ posts[i].id \notin excused
             => i = j \/ Spent(i) \/ Spent(j)

Complete ==
    permission = "granted" /\ ~error /\ fetches = <<>> /\ ~unread =>
        smsList \subseteq {e[2] : e \in display}

SubmitInv == PostTypes /\ LoggedIfOk /\ OneOpen /\ SentMeansStored
ScreenInv == ScreenTypes /\ Complete
LEMMA PostFields ==
    ASSUME posts \in Seq(Post), NEW n \in DOMAIN posts
    PROVE  /\ posts[n] \in Post /\ posts[n].id \in Ids /\ posts[n].sms \in Messages
           /\ posts[n].key \in Nat
           /\ posts[n].pc \in {"key", "sent", "ok", "refused", "done"}
           /\ posts[n].waiting \in BOOLEAN /\ posts[n].logged \in BOOLEAN
<1>1. posts[n] \in Post
  BY ElementOfSeq, LenProperties
<1>. QED
  BY <1>1 DEF Post

LEMMA PostWrite ==
    ASSUME posts \in Seq(Post), NEW n \in DOMAIN posts, NEW new \in Post,
           posts' = [posts EXCEPT ![n] = new]
    PROVE  /\ posts' \in Seq(Post) /\ Len(posts') = Len(posts)
           /\ DOMAIN posts' = DOMAIN posts /\ posts'[n] = new
           /\ \A k \in DOMAIN posts : k # n => posts'[k] = posts[k]
BY ExceptSeq, LenProperties

(***************************************************************************)
(* A step of one request, with what it may write of its id's status.       *)
(***************************************************************************)
LEMMA PostMoves ==
    ASSUME SubmitInv, NEW n \in DOMAIN posts, NEW new \in Post,
           posts' = [posts EXCEPT ![n] = new], new.id = posts[n].id,
           UNCHANGED <<key, stored, kills>>,
           excused \subseteq excused', excused' \subseteq Ids,
           NEW s \in StatusValues, statusMap' = [statusMap EXCEPT ![new.id] = s],
           new.pc = "ok" => new.logged,
           new.pc \in {"key", "sent", "refused"} => ~new.logged,
           posts[n].logged => new.logged,
           s = "sent" => statusMap[new.id] = "sent" \/ new.logged,
           \/ new.id \in excused'
           \/ /\ ~Spent(n)
              /\ s \in {"none", "error"} =>
                    /\ new.pc = "done" /\ ~new.waiting /\ ~new.logged
    PROVE  SubmitInv'
<1>0. posts \in Seq(Post) /\ new.id \in Ids
  BY PostFields DEF SubmitInv, PostTypes
<1>1. /\ posts' \in Seq(Post) /\ Len(posts') = Len(posts)
      /\ DOMAIN posts' = DOMAIN posts /\ posts'[n] = new
      /\ \A k \in DOMAIN posts : k # n => posts'[k] = posts[k]
  BY <1>0, PostWrite
<1>2. /\ statusMap' \in [Ids -> StatusValues] /\ statusMap'[new.id] = s
      /\ \A id \in Ids : id # new.id => statusMap'[id] = statusMap[id]
  BY <1>0 DEF SubmitInv, PostTypes
<1>3. PostTypes'
  BY <1>1, <1>2 DEF SubmitInv, PostTypes
<1>4. LoggedIfOk'
  BY <1>1 DEF SubmitInv, LoggedIfOk
<1>5. \A k \in DOMAIN posts : posts'[k].id = posts[k].id /\ posts[k].id \in Ids
  BY <1>0, <1>1, PostFields
<1>6. \A k \in DOMAIN posts : k # n => Spent(k)' = Spent(k)
  BY <1>1 DEF Spent
<1>7. new.id \notin excused' =>
         \A k \in DOMAIN posts : k # n /\ posts[k].id = new.id => Spent(k)
  BY DEF SubmitInv, OneOpen
<1>8. OneOpen'
  <2>1. ASSUME NEW k \in DOMAIN posts, posts[k].id \notin excused',
               statusMap'[posts[k].id] \in {"none", "error"}
        PROVE  Spent(k)'
    <3>1. CASE posts[k].id # new.id
      <4>1. statusMap'[posts[k].id] = statusMap[posts[k].id]
        BY <1>2, <1>5, <3>1
      <4>2. Spent(k)
        BY <2>1, <4>1 DEF SubmitInv, OneOpen
      <4>. QED
        BY <1>6, <3>1, <4>2
    <3>2. CASE posts[k].id = new.id /\ k # n
      BY <1>6, <1>7, <2>1, <3>2
    <3>3. CASE k = n
      BY <1>1, <1>2, <2>1, <3>3 DEF Spent
    <3>. QED
      BY <3>1, <3>2, <3>3
  <2>2. ASSUME NEW i \in DOMAIN posts, NEW j \in DOMAIN posts,
               posts[i].id = posts[j].id, posts[i].id \notin excused', i # j
        PROVE  Spent(i)' \/ Spent(j)'
    <3>1. CASE i # n /\ j # n
      BY <1>6, <2>2, <3>1 DEF SubmitInv, OneOpen
    <3>2. CASE i = n \/ j = n
      BY <1>6, <1>7, <2>2, <3>2
    <3>. QED
      BY <3>1, <3>2
  <2>. QED
    BY <1>1, <1>5, <2>1, <2>2 DEF OneOpen
<1>9. SentMeansStored'
  <2>1. ASSUME NEW id \in Ids, statusMap'[id] = "sent"
        PROVE  \E k \in DOMAIN posts : posts'[k].id = id /\ posts'[k].logged
    <3>1. CASE id = new.id /\ new.logged
      BY <1>1, <3>1
    <3>2. CASE statusMap[id] = "sent"
      <4>1. PICK k \in DOMAIN posts : posts[k].id = id /\ posts[k].logged
        BY <3>2 DEF SubmitInv, SentMeansStored
      <4>. QED
        BY <1>1, <1>5, <4>1
    <3>. QED
      BY <1>2, <2>1, <3>1, <3>2
  <2>. QED
    BY <1>1, <2>1 DEF SentMeansStored
<1>. QED
  BY <1>3, <1>4, <1>8, <1>9 DEF SubmitInv

LEMMA SubmitFrame ==
    ASSUME SubmitInv, UNCHANGED <<statusMap, posts, excused, kills>>,
           key' \in 1 .. (MaxUpsets + 1), stored' \in 0 .. key',
           kills + key' - 1 <= MaxUpsets
    PROVE  SubmitInv'
<1>1. PostTypes'
  BY DEF SubmitInv, PostTypes
<1>2. LoggedIfOk' /\ SentMeansStored'
  BY DEF SubmitInv, LoggedIfOk, SentMeansStored
<1>3. \A k : Spent(k)' = Spent(k)
  BY DEF Spent
<1>4. OneOpen'
  BY <1>3 DEF SubmitInv, OneOpen
<1>. QED
  BY <1>1, <1>2, <1>4 DEF SubmitInv
(***************************************************************************)
(* A new request is made of an id that none is open of.                    *)
(***************************************************************************)
LEMMA SubmitKeeps ==
    ASSUME SubmitInv, NEW id \in Ids, NEW m \in Messages, Submit(id, m),
           UNCHANGED <<excused, key, stored, kills>>
    PROVE  SubmitInv'
<1>1. CASE statusMap[id] \in {"sending", "sent"}
  <2>1. UNCHANGED <<statusMap, posts>>
    BY <1>1 DEF Submit
  <2>. QED
    BY <2>1, SubmitFrame DEF SubmitInv, PostTypes
<1>2. CASE statusMap[id] \notin {"sending", "sent"}
  <2>. DEFINE new == [id |-> id, sms |-> m, key |-> 0, pc |-> "key", waiting |-> TRUE,
                      logged |-> FALSE]
              e == Len(posts) + 1
  <2>1. /\ Len(posts) < MaxPosts /\ statusMap' = [statusMap EXCEPT ![id] = "sending"]
        /\ posts' = Append(posts, new)
    BY <1>2 DEF Submit
  <2>2. new \in Post
    BY DEF Post
  <2>3. posts \in Seq(Post)
    BY DEF SubmitInv, PostTypes
  <2>4. new.id = id /\ new.pc = "key" /\ new.waiting /\ ~new.logged
    OBVIOUS
  <2>. HIDE DEF new
  <2>5. /\ posts' \in Seq(Post) /\ Len(posts') = Len(posts) + 1
        /\ \A k \in 1 .. Len(posts) : posts'[k] = posts[k]
        /\ posts'[e] = new
    BY <2>1, <2>2, <2>3, AppendProperties
  <2>6. /\ DOMAIN posts = 1 .. Len(posts) /\ DOMAIN posts' = 1 .. e /\ Len(posts) \in Nat
    BY <2>3, <2>5, LenProperties
  <2>7. \A k \in DOMAIN posts' : k = e \/ (k \in DOMAIN posts /\ posts'[k] = posts[k])
    BY <2>5, <2>6
  <2>8. DOMAIN posts \subseteq DOMAIN posts' /\ e \in DOMAIN posts' /\ e \notin DOMAIN posts
    BY <2>6
  <2>. HIDE DEF e
  <2>9. /\ statusMap' \in [Ids -> StatusValues] /\ statusMap'[id] = "sending"
        /\ \A i \in Ids : i # id => statusMap'[i] = statusMap[i]
    BY <2>1 DEF SubmitInv, PostTypes, StatusValues
  <2>10. PostTypes'
    BY <2>1, <2>3, <2>5, <2>6, <2>9 DEF SubmitInv, PostTypes
  <2>11. LoggedIfOk'
    BY <2>4, <2>5, <2>7 DEF SubmitInv, LoggedIfOk
  <2>12. SentMeansStored'
    <3>1. ASSUME NEW i \in Ids, statusMap'[i] = "sent"
          PROVE  \E k \in DOMAIN posts' : posts'[k].id = i /\ posts'[k].logged
      <4>1. statusMap[i] = "sent"
        BY <2>9, <3>1
      <4>2. PICK k \in DOMAIN posts : posts[k].id = i /\ posts[k].logged
        BY <4>1 DEF SubmitInv, SentMeansStored
      <4>. QED
        BY <2>5, <2>6, <2>8, <4>2
    <3>. QED
      BY <3>1 DEF SentMeansStored
  <2>13. \A k \in DOMAIN posts : posts'[k] = posts[k] /\ posts[k].id \in Ids
    BY <2>3, <2>5, <2>6, PostFields
  <2>14. \A k \in DOMAIN posts : Spent(k)' = Spent(k)
    BY <2>13 DEF Spent
  <2>15. statusMap[id] \in {"none", "error"}
    BY <1>2 DEF SubmitInv, PostTypes, StatusValues
  <2>16. \A k \in DOMAIN posts : posts[k].id = id /\ id \notin excused => Spent(k)
    BY <2>15 DEF SubmitInv, OneOpen
  <2>17. OneOpen'
    <3>1. ASSUME NEW k \in DOMAIN posts', posts'[k].id \notin excused,
                 statusMap'[posts'[k].id] \in {"none", "error"}
          PROVE  Spent(k)'
      <4>1. k \in DOMAIN posts /\ posts[k].id # id
        BY <2>4, <2>5, <2>7, <2>9, <2>13, <3>1
      <4>2. Spent(k)
        BY <2>9, <2>13, <3>1, <4>1 DEF SubmitInv, OneOpen
      <4>. QED
        BY <2>14, <4>1, <4>2
    <3>2. ASSUME NEW i \in DOMAIN posts', NEW j \in DOMAIN posts',
                 posts'[i].id = posts'[j].id, posts'[i].id \notin excused, i # j
          PROVE  Spent(i)' \/ Spent(j)'
      <4>1. CASE i = e
        <5>1. j \in DOMAIN posts /\ posts[j].id = id
          BY <2>4, <2>5, <2>7, <2>13, <3>2, <4>1
        <5>. QED
          BY <2>13, <2>14, <2>16, <3>2, <5>1
      <4>2. CASE j = e
        <5>1. i \in DOMAIN posts /\ posts[i].id = id
          BY <2>4, <2>5, <2>7, <2>13, <3>2, <4>2
        <5>. QED
          BY <2>13, <2>14, <2>16, <3>2, <5>1
      <4>3. CASE i # e /\ j # e
        <5>1. i \in DOMAIN posts /\ j \in DOMAIN posts
          BY <2>7, <4>3
        <5>2. Spent(i) \/ Spent(j)
          BY <2>13, <3>2, <5>1 DEF SubmitInv, OneOpen
        <5>. QED
          BY <2>14, <5>1, <5>2
      <4>. QED
        BY <4>1, <4>2, <4>3
    <3>. QED
      BY <3>1, <3>2 DEF OneOpen
  <2>. QED
    BY <2>10, <2>11, <2>12, <2>17 DEF SubmitInv
<1>. QED
  BY <1>1, <1>2

(***************************************************************************)
(* The steps of a request: its key, what the server makes of it, its       *)
(* answer and its timer.                                                   *)
(***************************************************************************)
LEMMA QuietMove ==
    ASSUME SubmitInv, NEW n \in DOMAIN posts, NEW new \in Post,
           posts' = [posts EXCEPT ![n] = new], new.id = posts[n].id, ~Spent(n),
           UNCHANGED <<statusMap, excused, key, stored, kills>>,
           new.pc = "ok" => new.logged,
           new.pc \in {"key", "sent", "refused"} => ~new.logged,
           posts[n].logged => new.logged
    PROVE  SubmitInv'
<1>. DEFINE s == statusMap[new.id]
<1>1. new.id \in Ids
  BY DEF Post
<1>2. s \in StatusValues /\ s = statusMap[new.id] /\ statusMap' = [statusMap EXCEPT ![new.id] = s]
  BY <1>1 DEF SubmitInv, PostTypes
<1>3. new.id \notin excused => s \notin {"none", "error"}
  BY DEF SubmitInv, OneOpen
<1>4. excused \subseteq excused' /\ excused' \subseteq Ids
  BY DEF SubmitInv, PostTypes
<1>. HIDE DEF s
<1>. QED
  BY <1>2, <1>3, <1>4, PostMoves

LEMMA ReadKeyInv ==
    ASSUME SubmitInv, NEW n \in DOMAIN posts, ReadKey(n)
    PROVE  SubmitInv'
<1>. DEFINE new == [posts[n] EXCEPT !.key = stored, !.pc = "sent"]
<1>0. /\ posts[n].pc = "key" /\ posts' = [posts EXCEPT ![n] = new]
      /\ UNCHANGED <<statusMap, excused, key, stored, kills>>
  BY DEF ReadKey, At, screen, phone
<1>1. posts \in Seq(Post) /\ stored \in Nat
  BY DEF SubmitInv, PostTypes
<1>2. posts[n] \in Post /\ ~posts[n].logged
  BY <1>0, <1>1, PostFields DEF SubmitInv, LoggedIfOk
<1>3. new \in Post /\ new.id = posts[n].id /\ new.pc = "sent" /\ ~new.logged
  BY <1>1, <1>2 DEF Post
<1>4. ~Spent(n)
  BY <1>0 DEF Spent
<1>. HIDE DEF new
<1>. QED
  BY <1>0, <1>2, <1>3, <1>4, QuietMove

LEMMA ReceiveInv ==
    ASSUME SubmitInv, NEW n \in DOMAIN posts, Receive(n)
    PROVE  SubmitInv'
<1>. DEFINE no  == [posts[n] EXCEPT !.pc = "refused"]
            yes == [posts[n] EXCEPT !.logged = TRUE, !.pc = "ok"]
<1>0. /\ posts[n].pc = "sent"
      /\ posts' = [posts EXCEPT ![n] = no] \/ posts' = [posts EXCEPT ![n] = yes]
      /\ UNCHANGED <<statusMap, excused, key, stored, kills>>
  BY DEF Receive, At, ServerOnly, screen, phone
<1>1. posts[n] \in Post /\ ~posts[n].logged
  BY <1>0, PostFields DEF SubmitInv, PostTypes, LoggedIfOk
<1>2. /\ no \in Post /\ no.id = posts[n].id /\ no.pc = "refused" /\ ~no.logged
      /\ yes \in Post /\ yes.id = posts[n].id /\ yes.pc = "ok" /\ yes.logged
  BY <1>1 DEF Post
<1>3. ~Spent(n)
  BY <1>0 DEF Spent
<1>. HIDE DEF no, yes
<1>. QED
  BY <1>0, <1>1, <1>2, <1>3, QuietMove

LEMMA LoseInv ==
    ASSUME SubmitInv, NEW n \in DOMAIN posts, Lose(n)
    PROVE  SubmitInv'
<1>. DEFINE new == [posts[n] EXCEPT !.pc = "done"]
<1>0. /\ posts[n].pc \in {"sent", "ok", "refused"} /\ posts' = [posts EXCEPT ![n] = new]
      /\ UNCHANGED <<statusMap, excused, key, stored, kills>>
  BY DEF Lose, ServerOnly, screen, phone
<1>1. posts[n] \in Post
  BY PostFields DEF SubmitInv, PostTypes
<1>2. /\ new \in Post /\ new.id = posts[n].id /\ new.pc = "done"
      /\ new.logged = posts[n].logged
  BY <1>1 DEF Post
<1>3. ~Spent(n)
  BY <1>0 DEF Spent
<1>. HIDE DEF new
<1>. QED
  BY <1>0, <1>2, <1>3, QuietMove

LEMMA AnsweredInv ==
    ASSUME SubmitInv, NEW n \in DOMAIN posts, Answered(n)
    PROVE  SubmitInv'
<1>. DEFINE new == [posts[n] EXCEPT !.pc = "done", !.waiting = FALSE]
<1>0. /\ posts[n].pc \in {"ok", "refused"} /\ posts[n].waiting
      /\ posts' = [posts EXCEPT ![n] = new]
      /\ statusMap' = [statusMap EXCEPT ![posts[n].id] =
                          IF posts[n].pc = "ok" THEN "sent" ELSE "error"]
      /\ UNCHANGED <<excused, key, stored, kills>>
  BY DEF Answered, Hear, At, screen, phone
<1>1. posts[n] \in Post
  BY PostFields DEF SubmitInv, PostTypes
<1>2. /\ new \in Post /\ new.id = posts[n].id /\ new.pc = "done" /\ ~new.waiting
      /\ new.logged = posts[n].logged
  BY <1>1 DEF Post
<1>3. ~Spent(n)
  BY <1>0 DEF Spent
<1>4. /\ posts[n].pc = "ok" => posts[n].logged
      /\ posts[n].pc = "refused" => ~posts[n].logged
  BY DEF SubmitInv, LoggedIfOk
<1>5. excused \subseteq excused' /\ excused' \subseteq Ids
  BY <1>0 DEF SubmitInv, PostTypes
<1>. HIDE DEF new
<1>6. CASE posts[n].pc = "ok"
  <2>0. PICK s \in StatusValues : s = "sent"
    BY DEF StatusValues
  <2>1. statusMap' = [statusMap EXCEPT ![new.id] = s] /\ s \notin {"none", "error"}
    BY <1>0, <1>2, <1>6, <2>0
  <2>2. new.logged /\ new.pc = "done"
    BY <1>2, <1>4, <1>6
  <2>3. posts' = [posts EXCEPT ![n] = new] /\ UNCHANGED <<key, stored, kills>>
    BY <1>0
  <2>4. new \in Post /\ new.id = posts[n].id
    BY <1>2
  <2>. QED
    BY <1>3, <1>5, <2>1, <2>2, <2>3, <2>4, PostMoves
<1>7. CASE posts[n].pc = "refused"
  <2>0. PICK s \in StatusValues : s = "error"
    BY DEF StatusValues
  <2>1. statusMap' = [statusMap EXCEPT ![new.id] = s] /\ s # "sent"
    BY <1>0, <1>2, <1>7, <2>0
  <2>2. ~new.logged /\ ~posts[n].logged
    BY <1>2, <1>4, <1>7
  <2>. QED
    BY <1>0, <1>2, <1>3, <1>5, <2>1, <2>2, PostMoves
<1>. QED
  BY <1>0, <1>6, <1>7

LEMMA TimeOutInv ==
    ASSUME SubmitInv, NEW n \in DOMAIN posts, TimeOut(n)
    PROVE  SubmitInv'
<1>. DEFINE new == [posts[n] EXCEPT !.waiting = FALSE]
<1>0. /\ posts[n].pc # "key" /\ posts' = [posts EXCEPT ![n] = new]
      /\ statusMap' = [statusMap EXCEPT ![posts[n].id] = "error"]
      /\ excused' = excused \cup {posts[n].id}
      /\ UNCHANGED <<key, stored, kills>>
  BY DEF TimeOut, Hear, At, screen, phone
<1>1. posts[n] \in Post /\ posts[n].id \in Ids
  BY PostFields DEF SubmitInv, PostTypes
<1>2. /\ new \in Post /\ new.id = posts[n].id /\ new.pc = posts[n].pc
      /\ new.logged = posts[n].logged
  BY <1>1 DEF Post
<1>3. /\ posts[n].pc = "ok" => posts[n].logged
      /\ posts[n].pc \in {"key", "sent", "refused"} => ~posts[n].logged
  BY DEF SubmitInv, LoggedIfOk
<1>4. excused \subseteq excused' /\ excused' \subseteq Ids /\ new.id \in excused'
  BY <1>0, <1>1, <1>2 DEF SubmitInv, PostTypes
<1>5. PICK s \in StatusValues : s = "error"
  BY DEF StatusValues
<1>6. statusMap' = [statusMap EXCEPT ![new.id] = s] /\ s # "sent"
  BY <1>0, <1>2, <1>5
<1>. HIDE DEF new
<1>. QED
  <2>1. posts' = [posts EXCEPT ![n] = new] /\ UNCHANGED <<key, stored, kills>>
    BY <1>0
  <2>2. /\ new \in Post /\ new.id = posts[n].id
        /\ new.pc = "ok" => new.logged
        /\ new.pc \in {"key", "sent", "refused"} => ~new.logged
        /\ posts[n].logged => new.logged
    BY <1>2, <1>3
  <2>. QED
    BY <1>4, <1>6, <2>1, <2>2, PostMoves

(***************************************************************************)
(* The end of the process, and a pairing, forget the statuses.             *)
(***************************************************************************)
LEMMA KillInv ==
    ASSUME SubmitInv, Kill
    PROVE  SubmitInv'
<1>0. /\ kills + key - 1 < MaxUpsets /\ kills' = kills + 1 /\ statusMap' = Blank
      /\ posts' = [n \in DOMAIN posts |->
                     [posts[n] EXCEPT !.waiting = FALSE,
                                      !.pc = IF @ = "key" THEN "done" ELSE @]]
      /\ excused' = Ids /\ UNCHANGED <<stored, key>>
  BY DEF Kill
<1>1. posts \in Seq(Post)
  BY DEF SubmitInv, PostTypes
<1>2. ASSUME NEW n \in DOMAIN posts
      PROVE  /\ posts'[n] \in Post /\ posts'[n].id = posts[n].id
             /\ posts'[n].logged = posts[n].logged
             /\ posts'[n].pc = IF posts[n].pc = "key" THEN "done" ELSE posts[n].pc
  <2>1. posts[n] \in Post
    BY <1>1, PostFields
  <2>2. posts'[n] = [posts[n] EXCEPT !.waiting = FALSE,
                                     !.pc = IF @ = "key" THEN "done" ELSE @]
    BY <1>0
  <2>. QED
    BY <2>1, <2>2 DEF Post
<1>3. DOMAIN posts' = 1 .. Len(posts) /\ Len(posts) \in Nat
  BY <1>0, <1>1, LenProperties
<1>4. DOMAIN posts' = DOMAIN posts
  BY <1>0
<1>5. posts' \in Seq(Post) /\ Len(posts') = Len(posts)
  <2>1. posts' \in [1 .. Len(posts) -> Post]
    BY <1>0, <1>2, <1>3, <1>4
  <2>2. posts' \in Seq(Post)
    BY <1>3, <2>1, SeqDef
  <2>. QED
    BY <1>3, <2>2, LenProperties
<1>6. PostTypes'
  <2>1. statusMap' \in [Ids -> StatusValues]
    BY <1>0 DEF Blank, StatusValues
  <2>2. kills' \in 0 .. MaxUpsets /\ kills' + key - 1 <= MaxUpsets
    <3>1. kills + key - 1 < MaxUpsets /\ kills' = kills + 1
      BY <1>0
    <3>2. kills \in Nat /\ key \in Nat /\ key >= 1
      BY DEF SubmitInv, PostTypes
    <3>. QED
      BY <3>1, <3>2
  <2>. QED
    BY <1>0, <1>5, <2>1, <2>2 DEF SubmitInv, PostTypes
<1>7. LoggedIfOk'
  BY <1>2, <1>4 DEF SubmitInv, LoggedIfOk
<1>8. OneOpen'
  <2>1. \A n \in DOMAIN posts : posts'[n].id = posts[n].id /\ posts[n].id \in Ids
    BY <1>1, <1>2, PostFields
  <2>2. excused' = Ids
    BY <1>0
  <2>. QED
    BY <1>4, <2>1, <2>2 DEF OneOpen
<1>9. SentMeansStored'
  BY <1>0 DEF SentMeansStored, Blank
<1>. QED
  BY <1>6, <1>7, <1>8, <1>9 DEF SubmitInv

LEMMA PairedInv ==
    ASSUME SubmitInv, Paired
    PROVE  SubmitInv'
<1>0. /\ statusMap' = Blank
      /\ excused' = excused \cup {id \in Ids : statusMap[id] # "none"}
      /\ UNCHANGED <<posts, stored, key, kills>>
  BY DEF Paired, phone
<1>1. PostTypes'
  BY <1>0 DEF SubmitInv, PostTypes, Blank, StatusValues
<1>2. LoggedIfOk' /\ SentMeansStored'
  BY <1>0 DEF SubmitInv, LoggedIfOk, SentMeansStored, Blank
<1>3. \A n : Spent(n)' = Spent(n)
  BY <1>0 DEF Spent
<1>4. \A n \in DOMAIN posts : posts[n].id \in Ids
  BY PostFields DEF SubmitInv, PostTypes
<1>5. \A n \in DOMAIN posts : posts[n].id \notin excused' =>
         posts[n].id \notin excused /\ statusMap[posts[n].id] = "none"
  BY <1>0, <1>4
<1>6. OneOpen'
  BY <1>0, <1>3, <1>5 DEF SubmitInv, OneOpen
<1>. QED
  BY <1>1, <1>2, <1>6 DEF SubmitInv
(***************************************************************************)
(* The screen.  A read that starts leaves the list to be replaced; one     *)
(* that ends replaces it, or shows an error in its place.                  *)
(***************************************************************************)
LEMMA StartFetchKeeps ==
    ASSUME ScreenInv, StartFetch, UNCHANGED <<air, inbox, store, alive, smsList>>,
           permission' \in {"pending", "granted", "denied"},
           keyReady' \in {"unknown", "no", "yes"},
           qr' \in {"camera", "scanning", "error", "saved", "savedUngranted"},
           display' \subseteq Ids \X Messages, unread' \in BOOLEAN
    PROVE  ScreenInv'
<1>1. fetches' = Append(fetches, inbox) /\ loading' = TRUE /\ error' = FALSE
  BY DEF StartFetch
<1>2. fetches' \in Seq(SUBSET Messages) /\ Len(fetches') = Len(fetches) + 1
      /\ Len(fetches) \in Nat
  BY <1>1, AppendProperties, LenProperties DEF ScreenInv, ScreenTypes
<1>3. fetches' # <<>>
  BY <1>2, EmptySeq
<1>4. ScreenTypes'
  BY <1>1, <1>2 DEF ScreenInv, ScreenTypes
<1>. QED
  BY <1>3, <1>4 DEF ScreenInv, Complete

LEMMA ListedInv ==
    ASSUME ScreenInv, Listed
    PROVE  ScreenInv'
<1>0. /\ fetches # <<>> /\ fetches' = Tail(fetches) /\ loading' = FALSE
      /\ UNCHANGED <<air, inbox, store, alive, permission, keyReady, qr>>
  BY DEF Listed, phone
<1>1. /\ fetches' \in Seq(SUBSET Messages) /\ Head(fetches) \subseteq Messages
  BY <1>0, HeadTailProperties DEF ScreenInv, ScreenTypes
<1>2. CASE /\ smsList' = Head(fetches) /\ error' = error /\ unread' = FALSE
           /\ display' = {<<InboxId(m), m>> : m \in Head(fetches)}
  <2>1. display' \subseteq Ids \X Messages
    BY <1>1, <1>2 DEF Ids
  <2>2. smsList' \subseteq {e[2] : e \in display'}
    <3>1. ASSUME NEW m \in Head(fetches) PROVE m \in {e[2] : e \in display'}
      <4>1. <<InboxId(m), m>> \in display' /\ <<InboxId(m), m>>[2] = m
        BY <1>2
      <4>. QED
        BY <4>1
    <3>. QED
      BY <1>2, <3>1
  <2>3. ScreenTypes'
    BY <1>0, <1>1, <1>2, <2>1 DEF ScreenInv, ScreenTypes
  <2>. QED
    BY <2>2, <2>3 DEF ScreenInv, Complete
<1>3. CASE error' = TRUE /\ UNCHANGED <<smsList, display, unread>>
  BY <1>0, <1>1, <1>3 DEF ScreenInv, ScreenTypes, Complete
<1>. QED
  BY <1>2, <1>3 DEF Listed

LEMMA BroadcastKeeps ==
    ASSUME ScreenInv, NEW m \in Messages, Broadcast(m)
    PROVE  ScreenInv'
<1>0. /\ air' = air \ {m} /\ LiveId(m) \in Ids
      /\ UNCHANGED <<inbox, alive, permission, keyReady, qr, smsList, loading, error,
                     fetches, unread>>
  BY DEF Broadcast, Ids
<1>1. store' = store \/ store' = store \cup {m}
  BY DEF Broadcast
<1>2. display' = display \/ display' = display \cup {<<LiveId(m), m>>}
  BY DEF Broadcast
<1>3. ScreenTypes'
  BY <1>0, <1>1, <1>2 DEF ScreenInv, ScreenTypes
<1>4. display \subseteq display'
  BY <1>2
<1>5. Complete'
  <2>1. {e[2] : e \in display} \subseteq {e[2] : e \in display'}
    BY <1>4
  <2>. QED
    BY <1>0, <2>1 DEF ScreenInv, Complete
<1>. QED
  BY <1>3, <1>5 DEF ScreenInv

\* The rest of the app: what the list is made of stays, or goes as a whole.
LEMMA ScreenFrame ==
    ASSUME ScreenInv, UNCHANGED screen, ScreenTypes'
    PROVE  ScreenInv'
BY DEF ScreenInv, Complete, screen

LEMMA SameScreen ==
    ASSUME ScreenInv, UNCHANGED <<phone, screen>>
    PROVE  ScreenInv'
BY DEF ScreenInv, ScreenTypes, Complete, screen, phone

LEMMA OtherScreenSteps ==
    ASSUME ScreenInv,
           \/ Refresh \/ Drain \/ Launch \/ Kill \/ AskPermission \/ CheckKey \/ QrStep
           \/ Paired \/ \E m \in Messages : Filed(m)
    PROVE  ScreenInv'
<1>1. CASE Refresh
  <2>1. StartFetch /\ UNCHANGED <<air, inbox, store, alive, smsList, permission, keyReady,
                                  qr, display, unread>>
    BY <1>1 DEF Refresh, phone
  <2>. QED
    BY <2>1, StartFetchKeeps DEF ScreenInv, ScreenTypes
<1>2. CASE Drain
  BY <1>2, ScreenFrame DEF Drain, ScreenInv, ScreenTypes, screen
<1>3. CASE Launch
  BY <1>3, ScreenFrame DEF Launch, ScreenInv, ScreenTypes, screen
<1>4. CASE Kill
  <2>1. /\ alive' = FALSE /\ permission' = "pending" /\ keyReady' = "unknown"
        /\ qr' = "camera" /\ smsList' = {} /\ loading' = FALSE /\ error' = FALSE
        /\ fetches' = <<>> /\ display' = {} /\ UNCHANGED <<air, inbox, store>>
    BY <1>4, Zenon DEF Kill
  <2>2. unread' = FALSE
    BY <1>4, Zenon DEF Kill
  <2>3. fetches' \in Seq(SUBSET Messages)
    BY <2>1, EmptySeq
  <2>. QED
    BY <2>1, <2>2, <2>3 DEF ScreenInv, ScreenTypes, Complete
<1>5. CASE AskPermission
  <2>0. UNCHANGED <<air, inbox, store, alive, keyReady, qr, smsList, display, unread>>
    BY <1>5 DEF AskPermission, phone
  <2>1. CASE permission' = "granted" /\ StartFetch
    BY <2>0, <2>1, StartFetchKeeps DEF ScreenInv, ScreenTypes
  <2>2. CASE permission' = "denied" /\ UNCHANGED <<loading, error, fetches>>
    BY <2>0, <2>2 DEF ScreenInv, ScreenTypes, Complete
  <2>. QED
    BY <1>5, <2>1, <2>2 DEF AskPermission
<1>6. CASE CheckKey
  BY <1>6 DEF CheckKey, ScreenInv, ScreenTypes, Complete, phone
<1>7. CASE QrStep
  BY <1>7 DEF QrStep, SavedSeeing, ScreenInv, ScreenTypes, Complete, phone
<1>8. CASE Paired
  <2>0. /\ qr' = "camera" /\ keyReady' = "yes" /\ display' = {}
        /\ unread' = (qr = "savedUngranted" /\ permission = "granted")
        /\ UNCHANGED <<air, inbox, store, alive, permission, smsList>>
    BY <1>8 DEF Paired, phone
  <2>1. CASE StartFetch
    BY <2>0, <2>1, StartFetchKeeps DEF ScreenInv, ScreenTypes
  <2>2. CASE qr = "savedUngranted" /\ UNCHANGED <<loading, error, fetches>>
    BY <2>0, <2>2 DEF ScreenInv, ScreenTypes, Complete
  <2>. QED
    BY <1>8, <2>1, <2>2 DEF Paired
<1>9. ASSUME NEW m \in Messages, Filed(m) PROVE ScreenInv'
  BY <1>9, ScreenFrame DEF Filed, ScreenInv, ScreenTypes, screen
<1>. QED
  BY <1>1, <1>2, <1>3, <1>4, <1>5, <1>6, <1>7, <1>8, <1>9
(***************************************************************************)
(* Both halves at every step.                                              *)
(***************************************************************************)
LEMMA MobileInitInv == Init => SubmitInv /\ ScreenInv
<1>. SUFFICES ASSUME Init PROVE SubmitInv /\ ScreenInv
  OBVIOUS
<1>1. /\ posts = <<>> /\ fetches = <<>> /\ Len(posts) = 0 /\ DOMAIN posts = {}
      /\ posts \in Seq(Post) /\ fetches \in Seq(SUBSET Messages)
  BY EmptySeq DEF Init
<1>2. PostTypes
  BY <1>1 DEF Init, PostTypes, Blank, StatusValues
<1>3. LoggedIfOk /\ OneOpen /\ SentMeansStored
  BY <1>1 DEF Init, LoggedIfOk, OneOpen, SentMeansStored, Blank
<1>4. ScreenTypes /\ Complete
  BY <1>1, OldAssumption DEF Init, ScreenTypes, Complete
<1>. QED
  BY <1>2, <1>3, <1>4 DEF SubmitInv, ScreenInv

LEMMA BroadcastInv ==
    ASSUME SubmitInv, NEW m \in Messages, Broadcast(m)
    PROVE  SubmitInv'
<1>1. UNCHANGED <<excused, key, stored, kills>> /\ LiveId(m) \in Ids
  BY DEF Broadcast, Ids
<1>2. CASE Submit(LiveId(m), m)
  BY <1>1, <1>2, SubmitKeeps
<1>3. CASE UNCHANGED <<statusMap, posts>>
  BY <1>1, <1>3, SubmitFrame DEF SubmitInv, PostTypes
<1>. QED
  BY <1>2, <1>3 DEF Broadcast

LEMMA TapInv ==
    ASSUME SubmitInv, ScreenInv, Tap
    PROVE  SubmitInv' /\ ScreenInv'
<1>1. PICK e \in display : Submit(e[1], e[2])
  BY DEF Tap
<1>2. e[1] \in Ids /\ e[2] \in Messages
  BY DEF ScreenInv, ScreenTypes
<1>3. UNCHANGED <<phone, screen>> /\ UNCHANGED <<excused, key, stored, kills>>
  BY DEF Tap, phone, screen
<1>. QED
  BY <1>1, <1>2, <1>3, SubmitKeeps, SameScreen

LEMMA RequestStep ==
    ASSUME SubmitInv, ScreenInv, NEW n \in DOMAIN posts,
           Client(n) \/ Receive(n) \/ Lose(n)
    PROVE  SubmitInv' /\ ScreenInv'
<1>1. SubmitInv'
  BY ReadKeyInv, AnsweredInv, TimeOutInv, ReceiveInv, LoseInv DEF Client
<1>2. UNCHANGED <<phone, screen>>
  BY DEF Client, ReadKey, Answered, TimeOut, Hear, Receive, Lose, ServerOnly
<1>. QED
  BY <1>1, <1>2, SameScreen

LEMMA MobileStep == SubmitInv /\ ScreenInv /\ [Next]_vars => SubmitInv' /\ ScreenInv'
<1>. SUFFICES ASSUME SubmitInv, ScreenInv, [Next]_vars PROVE SubmitInv' /\ ScreenInv'
  OBVIOUS
<1>0. /\ key \in 1 .. (MaxUpsets + 1) /\ stored \in 0 .. key
      /\ kills + key - 1 <= MaxUpsets /\ kills \in Nat
  BY DEF SubmitInv, PostTypes
<1>1. CASE Tap
  BY <1>1, TapInv
<1>2. ASSUME NEW m \in Messages, Broadcast(m) PROVE SubmitInv' /\ ScreenInv'
  BY <1>2, BroadcastInv, BroadcastKeeps
<1>3. ASSUME NEW n \in DOMAIN posts, Client(n) \/ Receive(n) \/ Lose(n)
      PROVE  SubmitInv' /\ ScreenInv'
  BY <1>3, RequestStep
<1>4. CASE \/ Refresh \/ Listed \/ Drain \/ Launch \/ AskPermission \/ CheckKey
           \/ \E m \in Messages : Filed(m)
  <2>1. UNCHANGED <<statusMap, posts, excused, kills, key, stored>>
    BY <1>4 DEF Refresh, Listed, Drain, Launch, AskPermission, CheckKey, Filed, phone, screen
  <2>2. SubmitInv'
    BY <1>0, <2>1, SubmitFrame
  <2>3. ScreenInv'
    BY <1>4, ListedInv, OtherScreenSteps
  <2>. QED
    BY <2>2, <2>3
<1>5. CASE Kill
  BY <1>5, KillInv, OtherScreenSteps
<1>6. CASE Paired
  BY <1>6, PairedInv, OtherScreenSteps
<1>7. CASE QrStep
  <2>1. UNCHANGED <<statusMap, posts, excused, kills, key>> /\ stored' \in {stored, key}
    BY <1>7 DEF QrStep, phone
  <2>2. stored' \in 0 .. key
    BY <1>0, <2>1
  <2>3. SubmitInv'
    BY <1>0, <2>1, <2>2, SubmitFrame
  <2>. QED
    BY <1>7, <2>3, OtherScreenSteps
<1>8. CASE NewKey
  <2>1. /\ UNCHANGED <<statusMap, posts, excused>> /\ UNCHANGED <<phone, screen>>
        /\ UNCHANGED <<kills, stored>> /\ key' = key + 1 /\ kills + key - 1 < MaxUpsets
    BY <1>8 DEF NewKey, phone, screen
  <2>2. /\ key' \in 1 .. (MaxUpsets + 1) /\ stored' \in 0 .. key'
        /\ kills + key' - 1 <= MaxUpsets
    BY <1>0, <2>1
  <2>. QED
    BY <2>1, <2>2, SubmitFrame, SameScreen
<1>9. CASE UNCHANGED vars
  BY <1>0, <1>9, SubmitFrame, SameScreen DEF vars, phone, screen
<1>. QED
  BY <1>1, <1>2, <1>3, <1>4, <1>5, <1>6, <1>7, <1>8, <1>9 DEF Next

LEMMA MobileInvIsSafe == SubmitInv /\ ScreenInv => MobileSafe
<1>. SUFFICES ASSUME SubmitInv, ScreenInv PROVE MobileSafe
  OBVIOUS
<1>1. MobileTypeOK
  BY DEF SubmitInv, PostTypes, ScreenInv, ScreenTypes, MobileTypeOK, StatusValues
<1>2. AcceptedOnce
  BY DEF SubmitInv, OneOpen, AcceptedOnce, Spent
<1>3. ListIsComplete
  <2>1. Screen = "list" => permission = "granted" /\ ~error
    BY DEF Screen, ScreenInv, ScreenTypes
  <2>. QED
    BY <2>1 DEF ScreenInv, Complete, ListIsComplete
<1>. QED
  BY <1>1, <1>2, <1>3 DEF SubmitInv, MobileSafe

(***************************************************************************)
(* Whatever is killed, paired, lost or answered late: a message shown as   *)
(* sent has a log, one logged twice is one whose answer the phone could    *)
(* not know, and the list shows what the last read returned, unless the    *)
(* permission came while a scanned key was being saved (useSubmitSms,      *)
(* useSms, SmsScreen).                                                     *)
(***************************************************************************)
THEOREM MobileIsSafe == Spec => []MobileSafe
<1>1. Init => SubmitInv /\ ScreenInv
  BY MobileInitInv
<1>2. SubmitInv /\ ScreenInv /\ [Next]_vars => SubmitInv' /\ ScreenInv'
  BY MobileStep
<1>3. SubmitInv /\ ScreenInv => MobileSafe
  BY MobileInvIsSafe
<1>. QED
  BY <1>1, <1>2, <1>3, PTL DEF Spec

HIDE BoundsAssumption DEF BoundsAssumption
-----------------------------------------------------------------------------
(* Messages: every set of logs and messages, any number of tries.            *)

USE SmsAssumption DEF SmsAssumption

(***************************************************************************)
(* The inductive invariant, log by log. SmsSafe alone is not inductive: to *)
(* know that a request makes the first transaction of its log, the proof   *)
(* needs that nothing was made of a log before its request, that only a    *)
(* message the phone could not parse ever has a job, and that a job that   *)
(* waits for its answer still has its own try to spend; and that a log     *)
(* says "failed" of a transaction its job made only after a lost write.    *)
(***************************************************************************)
Untouched(l) ==
    status[l] = "none" /\ pc[l] = "done" /\ txns[l] = 0 /\ job[l] = "none" /\ tries[l] = 0

BeforeRequest(l) == sms[l] = "none" => Untouched(l)

AtWork(l) ==
    /\ pc[l] \in {"work", "told"} => txns[l] = 0 /\ job[l] = "none" /\ tries[l] = 0
    /\ pc[l] = "work" => status[l] \in {"failed", "deleted"}
    /\ pc[l] = "told" => sms[l] \in Failed
    /\ pc[l] = "made" =>
          sms[l] \in Parsed /\ txns[l] = 1 /\ status[l] \in {"failed", "deleted"}

Jobless(l) == sms[l] \notin Failed => job[l] = "none" /\ tries[l] = 0

Counted(l) ==
    /\ sms[l] \in Parsed => txns[l] <= 1
    /\ sms[l] \notin Parsed => txns[l] <= tries[l]
    /\ job[l] = "asked" => txns[l] < tries[l]
    /\ linked[l] = IF status[l] = "deleted" THEN 0 ELSE txns[l]

Told(l) ==
    /\ status[l] = "success" => sms[l] \in Parsed /\ txns[l] = 1 /\ pc[l] = "done"
    /\ status[l] = "failed" /\ txns[l] > 0 => pc[l] = "made" \/ l \in lost
    /\ status[l] = "failed" /\ job[l] \in {"asked", "created"} => l \in lost

LogInv(l) == BeforeRequest(l) /\ AtWork(l) /\ Jobless(l) /\ Counted(l) /\ Told(l)

SmsInv == SmsTypeOK /\ \A l \in Logs : LogInv(l)

\* What a step at one log leaves of the others.
Same(k) ==
    /\ sms'[k] = sms[k] /\ pc'[k] = pc[k] /\ status'[k] = status[k]
    /\ txns'[k] = txns[k] /\ linked'[k] = linked[k]
    /\ job'[k] = job[k] /\ tries'[k] = tries[k]
    /\ k \in lost => k \in lost'

(***************************************************************************)
(* A log whose fields a step leaves alone keeps its invariant.             *)
(***************************************************************************)
LEMMA SameKeeps ==
    ASSUME NEW k \in Logs, LogInv(k), Same(k)
    PROVE  LogInv(k)'
BY DEF LogInv, Same, BeforeRequest, Untouched, AtWork, Jobless, Counted, Told

(***************************************************************************)
(* A status write leaves the row with the status written or, lost, with    *)
(* its old one, writes no other row, and brings no deleted row back.       *)
(***************************************************************************)
LEMMA MarkWrites ==
    ASSUME SmsTypeOK, NEW l \in Logs, NEW s \in Statuses, Mark(l, s)
    PROVE  /\ status' \in [Logs -> Statuses]
           /\ \/ status[l] # "deleted" /\ status'[l] = s /\ lost' = lost
              \/ status'[l] = status[l] /\ lost' = lost \cup {l}
           /\ \A k \in Logs \ {l} : status'[k] = status[k]
           /\ lost \subseteq lost' /\ lost' \subseteq Logs
BY DEF Mark, SmsTypeOK

(***************************************************************************)
(* The transaction of a log is one more, and linked, and the row is there. *)
(***************************************************************************)
LEMMA CreateTxnMakes ==
    ASSUME SmsTypeOK, NEW l \in Logs, CreateTxn(l)
    PROVE  /\ txns' \in [Logs -> Nat] /\ linked' \in [Logs -> Nat]
           /\ txns'[l] = txns[l] + 1 /\ linked'[l] = linked[l] + 1
           /\ status[l] # "deleted"
           /\ \A k \in Logs \ {l} : txns'[k] = txns[k] /\ linked'[k] = linked[k]
BY DEF CreateTxn, SmsTypeOK

(***************************************************************************)
(* A step at one log that keeps the types and the invariant of that log    *)
(* keeps the invariant.                                                    *)
(***************************************************************************)
LEMMA OneLog ==
    ASSUME SmsInv, SmsTypeOK', NEW l \in Logs, LogInv(l)',
           \A k \in Logs \ {l} : Same(k)
    PROVE  SmsInv'
<1>1. ASSUME NEW k \in Logs PROVE LogInv(k)'
  <2>1. CASE k = l
    BY <2>1
  <2>2. CASE k # l
    BY <2>2, SameKeeps DEF SmsInv
  <2>. QED
    BY <2>1, <2>2
<1>. QED
  BY <1>1 DEF SmsInv

(***************************************************************************)
(* The initial state.                                                      *)
(***************************************************************************)
LEMMA SmsInitInv == SmsInit => SmsInv
<1>. SUFFICES ASSUME SmsInit PROVE SmsInv
  OBVIOUS
<1>1. SmsTypeOK
  <2>1. useLlm \in BOOLEAN
    BY Zenon DEF SmsInit
  <2>2. 0 \in 0..LlmTries
    OBVIOUS
  <2>. QED
    BY <2>1, <2>2 DEF SmsInit, SmsTypeOK, Statuses
<1>2. ASSUME NEW l \in Logs PROVE LogInv(l)
  BY DEF SmsInit, LogInv, BeforeRequest, Untouched, AtWork, Jobless, Counted, Told
<1>. QED
  BY <1>1, <1>2 DEF SmsInv

(***************************************************************************)
(* The request: one lemma for each action.                                 *)
(***************************************************************************)
LEMMA CreateSmsInv ==
    ASSUME SmsInv, NEW l \in Logs, NEW s \in Sms, CreateSms(l, s)
    PROVE  SmsInv'
<1>1. SmsTypeOK'
  BY DEF SmsInv, SmsTypeOK, CreateSms, Statuses
<1>2. Untouched(l) /\ linked[l] = 0
  BY DEF SmsInv, LogInv, BeforeRequest, Untouched, Counted, CreateSms
<1>3. /\ sms'[l] = s /\ status'[l] = "failed" /\ pc'[l] = "work" /\ lost' = lost
      /\ txns'[l] = 0 /\ linked'[l] = 0 /\ job'[l] = "none" /\ tries'[l] = 0
  BY <1>2 DEF SmsInv, SmsTypeOK, CreateSms, Untouched
<1>4. LogInv(l)'
  BY <1>3 DEF LogInv, BeforeRequest, Untouched, AtWork, Jobless, Counted, Told
<1>5. \A k \in Logs \ {l} : Same(k)
  BY DEF SmsInv, SmsTypeOK, CreateSms, Same
<1>. QED
  BY <1>1, <1>4, <1>5, OneLog

LEMMA MakeTxnInv ==
    ASSUME SmsInv, NEW l \in Logs, MakeTxn(l)
    PROVE  SmsInv'
<1>1. /\ txns[l] = 0 /\ linked[l] = 0 /\ job[l] = "none" /\ tries[l] = 0
      /\ status[l] = "failed" /\ sms[l] # "none" /\ sms[l] \in Parsed
  BY DEF SmsInv, LogInv, AtWork, BeforeRequest, Untouched, Counted, MakeTxn, CreateTxn
<1>2. /\ txns' \in [Logs -> Nat] /\ linked' \in [Logs -> Nat]
      /\ txns'[l] = 1 /\ linked'[l] = 1
      /\ \A k \in Logs \ {l} : txns'[k] = txns[k] /\ linked'[k] = linked[k]
  BY <1>1, CreateTxnMakes DEF SmsInv, MakeTxn
<1>3. /\ pc' \in [Logs -> {"work", "made", "told", "done"}] /\ pc'[l] = "made"
      /\ \A k \in Logs \ {l} : pc'[k] = pc[k]
      /\ UNCHANGED <<sms, status, useLlm, job, tries, lost>>
  BY DEF SmsInv, SmsTypeOK, MakeTxn
<1>4. SmsTypeOK' /\ \A k \in Logs \ {l} : Same(k)
  BY <1>2, <1>3 DEF SmsInv, SmsTypeOK, Same
<1>5. LogInv(l)'
  BY <1>1, <1>2, <1>3 DEF LogInv, BeforeRequest, AtWork, Jobless, Counted, Told
<1>. QED
  BY <1>4, <1>5, OneLog

LEMMA MarkSuccessInv ==
    ASSUME SmsInv, NEW l \in Logs, MarkSuccess(l)
    PROVE  SmsInv'
<1>1. LogInv(l) /\ sms[l] # "none" /\ sms[l] \in Parsed /\ txns[l] = 1
  BY DEF SmsInv, LogInv, AtWork, BeforeRequest, Untouched, MarkSuccess
<1>2. /\ status' \in [Logs -> Statuses]
      /\ \/ status[l] # "deleted" /\ status'[l] = "success" /\ lost' = lost
         \/ status'[l] = status[l] /\ lost' = lost \cup {l}
      /\ \A k \in Logs \ {l} : status'[k] = status[k]
      /\ lost \subseteq lost' /\ lost' \subseteq Logs
  BY MarkWrites DEF SmsInv, MarkSuccess, Statuses
<1>3. /\ pc' \in [Logs -> {"work", "made", "told", "done"}] /\ pc'[l] = "done"
      /\ \A k \in Logs \ {l} : pc'[k] = pc[k]
      /\ UNCHANGED <<sms, txns, linked, useLlm, job, tries>>
  BY DEF SmsInv, SmsTypeOK, MarkSuccess
<1>4. SmsTypeOK' /\ \A k \in Logs \ {l} : Same(k)
  BY <1>2, <1>3 DEF SmsInv, SmsTypeOK, Same
<1>5. LogInv(l)'
  BY <1>1, <1>2, <1>3 DEF LogInv, BeforeRequest, AtWork, Jobless, Counted, Told
<1>. QED
  BY <1>4, <1>5, OneLog

LEMMA MarkFailedInv ==
    ASSUME SmsInv, NEW l \in Logs, MarkFailed(l)
    PROVE  SmsInv'
<1>1. /\ LogInv(l) /\ sms[l] # "none" /\ sms[l] \in Failed
      /\ txns[l] = 0 /\ job[l] = "none" /\ tries[l] = 0
  BY DEF SmsInv, LogInv, AtWork, BeforeRequest, Untouched, MarkFailed
<1>2. /\ status' \in [Logs -> Statuses]
      /\ \/ status[l] # "deleted" /\ status'[l] = "failed" /\ lost' = lost
         \/ status'[l] = status[l] /\ lost' = lost \cup {l}
      /\ \A k \in Logs \ {l} : status'[k] = status[k]
      /\ lost \subseteq lost' /\ lost' \subseteq Logs
  BY MarkWrites DEF SmsInv, MarkFailed, Statuses
<1>3. /\ pc' \in [Logs -> {"work", "made", "told", "done"}] /\ pc'[l] = "told"
      /\ \A k \in Logs \ {l} : pc'[k] = pc[k]
      /\ UNCHANGED <<sms, txns, linked, useLlm, job, tries>>
  BY DEF SmsInv, SmsTypeOK, MarkFailed
<1>4. SmsTypeOK' /\ \A k \in Logs \ {l} : Same(k)
  BY <1>2, <1>3 DEF SmsInv, SmsTypeOK, Same
<1>5. LogInv(l)'
  BY <1>1, <1>2, <1>3 DEF LogInv, BeforeRequest, AtWork, Jobless, Counted, Told
<1>. QED
  BY <1>4, <1>5, OneLog

LEMMA AskLlmInv ==
    ASSUME SmsInv, NEW l \in Logs, AskLlm(l)
    PROVE  SmsInv'
<1>1. /\ LogInv(l) /\ sms[l] # "none" /\ sms[l] \in Failed /\ txns[l] = 0
  BY DEF SmsInv, LogInv, AtWork, BeforeRequest, Untouched, AskLlm
<1>2. /\ job' \in [Logs -> {"none", "queued", "asked", "created"}]
      /\ job'[l] \in {"queued", job[l]} /\ job[l] = "none"
      /\ \A k \in Logs \ {l} : job'[k] = job[k]
  BY <1>1 DEF SmsInv, SmsTypeOK, LogInv, AtWork, AskLlm
<1>3. /\ pc' \in [Logs -> {"work", "made", "told", "done"}] /\ pc'[l] = "done"
      /\ \A k \in Logs \ {l} : pc'[k] = pc[k]
      /\ UNCHANGED <<sms, status, txns, linked, useLlm, tries, lost>>
  BY DEF SmsInv, SmsTypeOK, AskLlm
<1>4. SmsTypeOK' /\ \A k \in Logs \ {l} : Same(k)
  BY <1>2, <1>3 DEF SmsInv, SmsTypeOK, Same
<1>5. LogInv(l)'
  BY <1>1, <1>2, <1>3 DEF LogInv, BeforeRequest, AtWork, Jobless, Counted, Told
<1>. QED
  BY <1>4, <1>5, OneLog

LEMMA EndRequestInv ==
    ASSUME SmsInv, NEW l \in Logs, EndRequest(l)
    PROVE  SmsInv'
<1>1. LogInv(l) /\ sms[l] # "none"
  BY DEF SmsInv, LogInv, BeforeRequest, Untouched, EndRequest
<1>2. /\ lost \subseteq lost' /\ lost' \subseteq Logs /\ (pc[l] = "made" => l \in lost')
  BY DEF SmsInv, SmsTypeOK, EndRequest
<1>3. /\ pc' \in [Logs -> {"work", "made", "told", "done"}] /\ pc'[l] = "done"
      /\ \A k \in Logs \ {l} : pc'[k] = pc[k]
      /\ UNCHANGED <<sms, status, txns, linked, useLlm, job, tries>>
  BY DEF SmsInv, SmsTypeOK, EndRequest
<1>4. SmsTypeOK' /\ \A k \in Logs \ {l} : Same(k)
  BY <1>2, <1>3 DEF SmsInv, SmsTypeOK, Same
<1>5. LogInv(l)'
  BY <1>1, <1>2, <1>3 DEF LogInv, BeforeRequest, AtWork, Jobless, Counted, Told
<1>. QED
  BY <1>4, <1>5, OneLog

LEMMA DeleteSmsInv ==
    ASSUME SmsInv, NEW l \in Logs, DeleteSms(l)
    PROVE  SmsInv'
<1>1. SmsTypeOK' /\ \A k \in Logs \ {l} : Same(k)
  BY DEF SmsInv, SmsTypeOK, DeleteSms, Same, Statuses
<1>2. /\ status'[l] = "deleted" /\ status[l] # "none" /\ linked'[l] = 0
      /\ UNCHANGED <<sms, pc, txns, useLlm, job, tries, lost>>
  BY DEF SmsInv, SmsTypeOK, DeleteSms
<1>3. LogInv(l)'
  BY <1>2 DEF SmsInv, LogInv, BeforeRequest, Untouched, AtWork, Jobless, Counted, Told
<1>. QED
  BY <1>1, <1>3, OneLog

-----------------------------------------------------------------------------
(***************************************************************************)
(* The job: where it is, the log is of a message that was not parsed, and  *)
(* the request is over.                                                    *)
(***************************************************************************)
LEMMA OfJob ==
    ASSUME SmsInv, NEW l \in Logs, job[l] # "none"
    PROVE  /\ sms[l] \in Failed /\ sms[l] \notin Parsed /\ sms[l] # "none"
           /\ pc[l] = "done" /\ LogInv(l)
           /\ txns[l] <= tries[l] /\ txns[l] \in Nat /\ tries[l] \in Nat
           /\ job[l] = "asked" => txns[l] < tries[l]
<1>1. LogInv(l) /\ txns[l] \in Nat /\ tries[l] \in Nat
      /\ pc[l] \in {"work", "made", "told", "done"}
  BY DEF SmsInv, SmsTypeOK
<1>2. sms[l] \in Failed /\ sms[l] \notin Parsed /\ sms[l] # "none"
  BY <1>1 DEF LogInv, Jobless
<1>. QED
  BY <1>1, <1>2 DEF LogInv, AtWork, Counted

LEMMA LlmStartInv ==
    ASSUME SmsInv, NEW l \in Logs, LlmStart(l)
    PROVE  SmsInv'
<1>1. /\ sms[l] \in Failed /\ sms[l] \notin Parsed /\ sms[l] # "none" /\ pc[l] = "done"
      /\ txns[l] <= tries[l] /\ txns[l] \in Nat /\ tries[l] \in Nat /\ LogInv(l)
  BY OfJob DEF LlmStart
<1>2. /\ tries' \in [Logs -> 0..LlmTries] /\ tries'[l] = tries[l] + 1
      /\ \A k \in Logs \ {l} : tries'[k] = tries[k]
      /\ UNCHANGED <<sms, pc, txns, linked, useLlm>>
  BY DEF SmsInv, SmsTypeOK, LlmStart
<1>3. CASE status[l] = "deleted"
  <2>1. UNCHANGED <<status, job, lost>>
    BY <1>3 DEF LlmStart
  <2>2. SmsTypeOK' /\ \A k \in Logs \ {l} : Same(k)
    BY <1>2, <2>1 DEF SmsInv, SmsTypeOK, Same
  <2>3. LogInv(l)'
    <3>1. (BeforeRequest(l) /\ AtWork(l) /\ Jobless(l))'
      BY <1>1, <1>2, <2>1 DEF BeforeRequest, AtWork, Jobless
    <3>2. job[l] = "queued"
      BY DEF LlmStart
    <3>3. (Counted(l) /\ Told(l))'
      BY <1>1, <1>2, <1>3, <2>1, <3>2 DEF LogInv, Counted, Told
    <3>. QED
      BY <3>1, <3>3 DEF LogInv
  <2>. QED
    BY <2>2, <2>3, OneLog
<1>4. CASE status[l] # "deleted"
  <2>1. /\ status' \in [Logs -> Statuses]
        /\ \/ status[l] # "deleted" /\ status'[l] = "llm_processing" /\ lost' = lost
           \/ status'[l] = status[l] /\ lost' = lost \cup {l}
        /\ \A k \in Logs \ {l} : status'[k] = status[k]
        /\ lost \subseteq lost' /\ lost' \subseteq Logs
    BY <1>4, MarkWrites DEF SmsInv, Statuses, LlmStart
  <2>2. /\ job' \in [Logs -> {"none", "queued", "asked", "created"}]
        /\ job'[l] = "asked" /\ \A k \in Logs \ {l} : job'[k] = job[k]
    BY <1>4 DEF SmsInv, SmsTypeOK, LlmStart
  <2>3. SmsTypeOK' /\ \A k \in Logs \ {l} : Same(k)
    BY <1>2, <2>1, <2>2 DEF SmsInv, SmsTypeOK, Same
  <2>4. LogInv(l)'
    <3>1. (BeforeRequest(l) /\ AtWork(l) /\ Jobless(l))'
      BY <1>1, <1>2 DEF BeforeRequest, AtWork, Jobless
    <3>2. Counted(l)'
      BY <1>1, <1>2, <1>4, <2>1, <2>2 DEF LogInv, Counted
    <3>3. Told(l)'
      BY <1>1, <1>2, <1>4, <2>1, <2>2 DEF LogInv, Told
    <3>. QED
      BY <3>1, <3>2, <3>3 DEF LogInv
  <2>. QED
    BY <2>3, <2>4, OneLog
<1>. QED
  BY <1>3, <1>4

LEMMA LlmFailInv ==
    ASSUME SmsInv, NEW l \in Logs, LlmFail(l)
    PROVE  SmsInv'
<1>1. /\ sms[l] \in Failed /\ sms[l] \notin Parsed /\ sms[l] # "none" /\ pc[l] = "done"
      /\ LogInv(l)
  BY OfJob DEF LlmFail
<1>2. /\ status' \in [Logs -> Statuses]
      /\ \/ status[l] # "deleted" /\ status'[l] = "llm_failed" /\ lost' = lost
         \/ status'[l] = status[l] /\ lost' = lost \cup {l}
      /\ \A k \in Logs \ {l} : status'[k] = status[k]
      /\ lost \subseteq lost' /\ lost' \subseteq Logs
  BY MarkWrites DEF SmsInv, Statuses, LlmFail
<1>3. /\ job' \in [Logs -> {"none", "queued", "asked", "created"}]
      /\ job'[l] \in {"queued", "none"} /\ \A k \in Logs \ {l} : job'[k] = job[k]
      /\ UNCHANGED <<sms, pc, txns, linked, useLlm, tries>>
  BY DEF SmsInv, SmsTypeOK, LlmFail
<1>4. SmsTypeOK' /\ \A k \in Logs \ {l} : Same(k)
  BY <1>2, <1>3 DEF SmsInv, SmsTypeOK, Same
<1>5. LogInv(l)'
  BY <1>1, <1>2, <1>3 DEF LogInv, BeforeRequest, AtWork, Jobless, Counted, Told
<1>. QED
  BY <1>4, <1>5, OneLog

LEMMA LlmNoAccountInv ==
    ASSUME SmsInv, NEW l \in Logs, LlmNoAccount(l)
    PROVE  SmsInv'
<1>1. /\ sms[l] \in Failed /\ sms[l] \notin Parsed /\ sms[l] # "none" /\ pc[l] = "done"
      /\ LogInv(l)
  BY OfJob DEF LlmNoAccount
<1>2. /\ job' \in [Logs -> {"none", "queued", "asked", "created"}]
      /\ job'[l] = "none" /\ \A k \in Logs \ {l} : job'[k] = job[k]
      /\ lost' = lost \cup {l} /\ lost' \subseteq Logs
      /\ UNCHANGED <<sms, pc, status, txns, linked, useLlm, tries>>
  BY DEF SmsInv, SmsTypeOK, LlmNoAccount
<1>3. SmsTypeOK' /\ \A k \in Logs \ {l} : Same(k)
  BY <1>2 DEF SmsInv, SmsTypeOK, Same
<1>4. LogInv(l)'
  BY <1>1, <1>2 DEF LogInv, BeforeRequest, AtWork, Jobless, Counted, Told
<1>. QED
  BY <1>3, <1>4, OneLog

LEMMA LlmCreateInv ==
    ASSUME SmsInv, NEW l \in Logs, LlmCreate(l)
    PROVE  SmsInv'
<1>1. /\ sms[l] \in Failed /\ sms[l] \notin Parsed /\ sms[l] # "none" /\ pc[l] = "done"
      /\ txns[l] < tries[l] /\ txns[l] \in Nat /\ tries[l] \in Nat /\ LogInv(l)
      /\ linked[l] \in Nat
  BY OfJob DEF LlmCreate, SmsInv, SmsTypeOK
<1>2. /\ txns' \in [Logs -> Nat] /\ linked' \in [Logs -> Nat]
      /\ \/ /\ txns'[l] = txns[l] + 1 /\ linked'[l] = linked[l] + 1
            /\ status[l] # "deleted"
         \/ txns'[l] = txns[l] /\ linked'[l] = linked[l]
      /\ \A k \in Logs \ {l} : txns'[k] = txns[k] /\ linked'[k] = linked[k]
  <2>1. CASE CreateTxn(l)
    BY <2>1, CreateTxnMakes DEF SmsInv
  <2>2. CASE UNCHANGED <<txns, linked>>
    BY <2>2 DEF SmsInv, SmsTypeOK
  <2>. QED
    BY <2>1, <2>2 DEF LlmCreate
<1>3. /\ job' \in [Logs -> {"none", "queued", "asked", "created"}]
      /\ job'[l] = "created" /\ job[l] = "asked"
      /\ \A k \in Logs \ {l} : job'[k] = job[k]
      /\ UNCHANGED <<sms, pc, status, useLlm, tries, lost>>
  BY DEF SmsInv, SmsTypeOK, LlmCreate
<1>4. SmsTypeOK' /\ \A k \in Logs \ {l} : Same(k)
  BY <1>2, <1>3 DEF SmsInv, SmsTypeOK, Same
<1>5. LogInv(l)'
  <2>1. (BeforeRequest(l) /\ AtWork(l) /\ Jobless(l))'
    BY <1>1, <1>3 DEF BeforeRequest, AtWork, Jobless
  <2>2. Counted(l)'
    BY <1>1, <1>2, <1>3 DEF LogInv, Counted
  <2>3. Told(l)'
    BY <1>1, <1>3 DEF LogInv, Told
  <2>. QED
    BY <2>1, <2>2, <2>3 DEF LogInv
<1>. QED
  BY <1>4, <1>5, OneLog

LEMMA LlmFinishInv ==
    ASSUME SmsInv, NEW l \in Logs, LlmFinish(l)
    PROVE  SmsInv'
<1>1. /\ sms[l] \in Failed /\ sms[l] \notin Parsed /\ sms[l] # "none" /\ pc[l] = "done"
      /\ LogInv(l)
  BY OfJob DEF LlmFinish
<1>2. /\ status' \in [Logs -> Statuses]
      /\ \/ status[l] # "deleted" /\ status'[l] = "llm_success" /\ lost' = lost
         \/ status'[l] = status[l] /\ lost' = lost \cup {l}
      /\ \A k \in Logs \ {l} : status'[k] = status[k]
      /\ lost \subseteq lost' /\ lost' \subseteq Logs
  BY MarkWrites DEF SmsInv, Statuses, LlmFinish
<1>3. /\ job' \in [Logs -> {"none", "queued", "asked", "created"}]
      /\ job'[l] = "none" /\ \A k \in Logs \ {l} : job'[k] = job[k]
      /\ UNCHANGED <<sms, pc, txns, linked, useLlm, tries>>
  BY DEF SmsInv, SmsTypeOK, LlmFinish
<1>4. SmsTypeOK' /\ \A k \in Logs \ {l} : Same(k)
  BY <1>2, <1>3 DEF SmsInv, SmsTypeOK, Same
<1>5. LogInv(l)'
  BY <1>1, <1>2, <1>3 DEF LogInv, BeforeRequest, AtWork, Jobless, Counted, Told
<1>. QED
  BY <1>4, <1>5, OneLog

LEMMA LlmDieInv ==
    ASSUME SmsInv, NEW l \in Logs, LlmDie(l)
    PROVE  SmsInv'
<1>1. /\ sms[l] \in Failed /\ sms[l] \notin Parsed /\ sms[l] # "none" /\ pc[l] = "done"
      /\ LogInv(l)
  BY OfJob DEF LlmDie
<1>2. /\ job' \in [Logs -> {"none", "queued", "asked", "created"}]
      /\ job'[l] = "queued" /\ \A k \in Logs \ {l} : job'[k] = job[k]
      /\ UNCHANGED <<sms, pc, status, txns, linked, useLlm, tries, lost>>
  BY DEF SmsInv, SmsTypeOK, LlmDie
<1>3. SmsTypeOK' /\ \A k \in Logs \ {l} : Same(k)
  BY <1>2 DEF SmsInv, SmsTypeOK, Same
<1>4. LogInv(l)'
  BY <1>1, <1>2 DEF LogInv, BeforeRequest, AtWork, Jobless, Counted, Told
<1>. QED
  BY <1>3, <1>4, OneLog

(***************************************************************************)
(* Every step keeps the invariant: those of the logs by the lemmas above,  *)
(* the switch and a stutter because the invariant does not look at it.     *)
(***************************************************************************)
LEMMA SmsNextInv == SmsInv /\ [SmsNext]_smsVars => SmsInv'
<1>. SUFFICES ASSUME SmsInv, [SmsNext]_smsVars PROVE SmsInv'
  OBVIOUS
<1>1. CASE SetUseLlm
  <2>1. useLlm' \in BOOLEAN
    BY <1>1, Zenon DEF SetUseLlm
  <2>2. UNCHANGED <<sms, pc, status, txns, linked, job, tries, lost>>
    BY <1>1 DEF SetUseLlm
  <2>3. SmsTypeOK'
    BY <2>1, <2>2 DEF SmsInv, SmsTypeOK
  <2>4. \A k \in Logs : Same(k)
    BY <2>2 DEF Same
  <2>. QED
    BY <2>3, <2>4, SameKeeps DEF SmsInv
<1>2. CASE UNCHANGED smsVars
  <2>1. SmsTypeOK' /\ \A k \in Logs : Same(k)
    BY <1>2 DEF smsVars, SmsInv, SmsTypeOK, Same
  <2>. QED
    BY <2>1, SameKeeps DEF SmsInv
<1>3. ASSUME NEW l \in Logs, NEW s \in Sms, CreateSms(l, s) PROVE SmsInv'
  BY <1>3, CreateSmsInv
<1>4. ASSUME NEW l \in Logs,
             \/ MakeTxn(l) \/ MarkSuccess(l) \/ MarkFailed(l) \/ AskLlm(l)
             \/ EndRequest(l) \/ DeleteSms(l)
      PROVE  SmsInv'
  BY <1>4, MakeTxnInv, MarkSuccessInv, MarkFailedInv, AskLlmInv, EndRequestInv, DeleteSmsInv
<1>5. ASSUME NEW l \in Logs, LlmStep(l) \/ LlmDie(l) PROVE SmsInv'
  BY <1>5, LlmStartInv, LlmFailInv, LlmNoAccountInv, LlmCreateInv, LlmFinishInv,
     LlmDieInv DEF LlmStep
<1>. QED
  BY <1>1, <1>2, <1>3, <1>4, <1>5 DEF SmsNext

LEMMA SmsInvIsSafe == SmsInv => SmsSafe
<1>. SUFFICES ASSUME SmsInv PROVE SmsSafe
  OBVIOUS
<1>1. ASSUME NEW l \in Logs
      PROVE  /\ status[l] = "success" => txns[l] = 1
             /\ status[l] = "failed" /\ txns[l] > 0 => pc[l] = "made" \/ l \in lost
             /\ txns[l] <= (IF sms[l] \in Parsed THEN 1 ELSE tries[l])
             /\ linked[l] = IF status[l] = "deleted" THEN 0 ELSE txns[l]
  BY DEF SmsInv, LogInv, Told, Counted
<1>2. StatusTellsTransaction /\ OneTransactionPerRun /\ LinksFollowTheLog
  BY <1>1 DEF StatusTellsTransaction, OneTransactionPerRun, LinksFollowTheLog
<1>. QED
  BY <1>2 DEF SmsSafe, SmsInv

(***************************************************************************)
(* With whatever job types the database knows, and however requests, runs  *)
(* of the LLM job, deaths, lost status writes and deletions interleave:    *)
(* "success" has its one transaction and "failed" none that a status write *)
(* could tell of, a parsed message makes at most one and another at most   *)
(* one for each run of its job, and a transaction names its log for as     *)
(* long as there is one.                                                   *)
(***************************************************************************)
THEOREM SmsIsSafe == SmsSpec => []SmsSafe
<1>. QED
  BY SmsInitInv, SmsNextInv, SmsInvIsSafe, PTL DEF SmsSpec

HIDE SmsAssumption DEF SmsAssumption
-----------------------------------------------------------------------------
(* Connections: every finite set of handlers, any size of the pool.          *)

USE PoolAssumption DEF PoolAssumption

Places == Holding \cup {"away", "want", "post"}

PoolInv == PoolTypeOK /\ NoneIsLost

(***************************************************************************)
(* The handlers that hold one connection, and two, are finitely many.      *)
(***************************************************************************)
LEMMA LentIsNat ==
    /\ IsFiniteSet(Singles) /\ Cardinality(Singles) \in Nat
    /\ IsFiniteSet(Doubles) /\ Cardinality(Doubles) \in Nat
    /\ Lent \in Nat
<1>1. Singles \subseteq Handlers /\ Doubles \subseteq Handlers
  BY DEF Singles, Doubles
<1>2. IsFiniteSet(Singles) /\ IsFiniteSet(Doubles)
  BY <1>1, FS_Subset
<1>. QED
  BY <1>2, FS_CardinalityType DEF Lent

(***************************************************************************)
(* What a handler's move does to the number of connections held: nothing   *)
(* between two places with as many, and one more or less otherwise.        *)
(***************************************************************************)
LEMMA MoveInside ==
    ASSUME PoolTypeOK, NEW h \in Handlers, NEW from, NEW to \in Places, Go(h, from, to),
           \/ from \in Holding /\ to \in Holding
           \/ from \in {"away", "want"} /\ to \in {"away", "want"}
    PROVE  at' \in [Handlers -> Places] /\ Lent' = Lent
<1>1. at' \in [Handlers -> Places] /\ \A k \in Handlers : k # h => at'[k] = at[k]
  BY DEF PoolTypeOK, Go, Places
<1>2. at[h] = from /\ at'[h] = to
  BY DEF PoolTypeOK, Go
<1>3. Singles' = Singles /\ Doubles' = Doubles
  BY <1>1, <1>2 DEF Singles, Doubles, Holding
<1>. QED
  BY <1>1, <1>3 DEF Lent

LEMMA MoveIn ==
    ASSUME PoolTypeOK, NEW h \in Handlers, NEW to \in Holding, Go(h, "want", to)
    PROVE  at' \in [Handlers -> Places] /\ Lent' = Lent + 1
<1>1. at' \in [Handlers -> Places] /\ \A k \in Handlers : k # h => at'[k] = at[k]
  BY DEF PoolTypeOK, Go, Places
<1>2. at[h] = "want" /\ at'[h] = to
  BY DEF PoolTypeOK, Go
<1>3. Singles' = Singles \cup {h} /\ h \notin Singles /\ Doubles' = Doubles
  BY <1>1, <1>2 DEF Singles, Doubles, Holding
<1>4. Cardinality(Singles') = Cardinality(Singles) + 1
  BY <1>3, LentIsNat, FS_AddElement
<1>. QED
  BY <1>1, <1>3, <1>4, LentIsNat DEF Lent

LEMMA MoveOut ==
    ASSUME PoolTypeOK, NEW h \in Handlers, NEW from \in Holding,
           NEW to \in {"away", "want"}, Go(h, from, to)
    PROVE  at' \in [Handlers -> Places] /\ Lent' = Lent - 1
<1>1. at' \in [Handlers -> Places] /\ \A k \in Handlers : k # h => at'[k] = at[k]
  BY DEF PoolTypeOK, Go, Places
<1>2. at[h] = from /\ at'[h] = to
  BY DEF PoolTypeOK, Go
<1>3. Singles' = Singles \ {h} /\ h \in Singles /\ Doubles' = Doubles
  BY <1>1, <1>2 DEF Singles, Doubles, Holding
<1>4. Cardinality(Singles') = Cardinality(Singles) - 1
  BY <1>3, LentIsNat, FS_RemoveElement
<1>. QED
  BY <1>1, <1>3, <1>4, LentIsNat DEF Lent

LEMMA MoveUp ==
    ASSUME PoolTypeOK, NEW h \in Handlers, Go(h, "ask", "post")
    PROVE  at' \in [Handlers -> Places] /\ Lent' = Lent + 1
<1>1. at' \in [Handlers -> Places] /\ \A k \in Handlers : k # h => at'[k] = at[k]
  BY DEF PoolTypeOK, Go, Places, Holding
<1>2. at[h] = "ask" /\ at'[h] = "post"
  BY DEF PoolTypeOK, Go
<1>3. /\ Singles' = Singles \ {h} /\ h \in Singles
      /\ Doubles' = Doubles \cup {h} /\ h \notin Doubles
  BY <1>1, <1>2 DEF Singles, Doubles, Holding
<1>4. /\ Cardinality(Singles') = Cardinality(Singles) - 1
      /\ Cardinality(Doubles') = Cardinality(Doubles) + 1
  BY <1>3, LentIsNat, FS_RemoveElement, FS_AddElement
<1>. QED
  BY <1>1, <1>4, LentIsNat DEF Lent

LEMMA MoveDown ==
    ASSUME PoolTypeOK, NEW h \in Handlers, Go(h, "post", "open")
    PROVE  at' \in [Handlers -> Places] /\ Lent' = Lent - 1
<1>1. at' \in [Handlers -> Places] /\ \A k \in Handlers : k # h => at'[k] = at[k]
  BY DEF PoolTypeOK, Go, Places, Holding
<1>2. at[h] = "post" /\ at'[h] = "open"
  BY DEF PoolTypeOK, Go
<1>3. /\ Singles' = Singles \cup {h} /\ h \notin Singles
      /\ Doubles' = Doubles \ {h} /\ h \in Doubles
  BY <1>1, <1>2 DEF Singles, Doubles, Holding
<1>4. /\ Cardinality(Singles') = Cardinality(Singles) + 1
      /\ Cardinality(Doubles') = Cardinality(Doubles) - 1
  BY <1>3, LentIsNat, FS_RemoveElement, FS_AddElement
<1>. QED
  BY <1>1, <1>4, LentIsNat DEF Lent

(***************************************************************************)
(* A step that takes a connection for one more held, or gives one back for *)
(* one less, keeps the account of them.                                    *)
(***************************************************************************)
LEMMA TakeKeeps ==
    ASSUME PoolInv, Take, at' \in [Handlers -> Places], Lent' = Lent + 1
    PROVE  PoolInv'
BY LentIsNat DEF PoolInv, PoolTypeOK, NoneIsLost, Take, Places

LEMMA GiveKeeps ==
    ASSUME PoolInv, Give, at' \in [Handlers -> Places], Lent' = Lent - 1, Lent' \in Nat
    PROVE  PoolInv'
BY LentIsNat DEF PoolInv, PoolTypeOK, NoneIsLost, Give, Places

LEMMA SwapKeeps ==
    ASSUME PoolInv, free' = free, at' \in [Handlers -> Places], Lent' = Lent
    PROVE  PoolInv'
BY DEF PoolInv, PoolTypeOK, NoneIsLost, Places

(***************************************************************************)
(* At first no connection is held.                                         *)
(***************************************************************************)
LEMMA PoolInitInv == PoolInit => PoolInv
<1>. SUFFICES ASSUME PoolInit PROVE PoolInv
  OBVIOUS
<1>1. PoolTypeOK
  BY DEF PoolInit, PoolTypeOK
<1>2. Singles = {} /\ Doubles = {}
  BY DEF PoolInit, Singles, Doubles, Holding
<1>3. Lent = 0
  BY <1>2, FS_EmptySet DEF Lent
<1>. QED
  BY <1>1, <1>3 DEF PoolInit, PoolInv, NoneIsLost

LEMMA PoolNextInv == PoolInv /\ [PoolNext]_poolVars => PoolInv'
<1>. SUFFICES ASSUME PoolInv, [PoolNext]_poolVars PROVE PoolInv'
  OBVIOUS
<1>0. PoolTypeOK /\ Lent' \in Nat
  <2>1. PoolTypeOK
    BY DEF PoolInv
  <2>2. IsFiniteSet(Singles') /\ IsFiniteSet(Doubles')
    BY FS_Subset DEF Singles, Doubles
  <2>. QED
    BY <2>1, <2>2, FS_CardinalityType DEF Lent
<1>1. ASSUME NEW h \in Handlers, Request(h) PROVE PoolInv'
  BY <1>0, <1>1, MoveInside, SwapKeeps DEF Request, Places
<1>2. ASSUME NEW h \in Handlers, Query(h) \/ BeginTx(h) PROVE PoolInv'
  BY <1>0, <1>2, MoveIn, TakeKeeps DEF Query, BeginTx, Holding
<1>3. ASSUME NEW h \in Handlers, QueryDone(h) \/ EndTx(h) PROVE PoolInv'
  BY <1>0, <1>3, MoveOut, GiveKeeps DEF QueryDone, EndTx, Holding
<1>4. ASSUME NEW h \in Handlers, Apply(h) PROVE PoolInv'
  BY <1>0, <1>4, MoveInside, SwapKeeps DEF Apply, Holding, Places
<1>5. ASSUME NEW h \in Handlers, Posting(h) PROVE PoolInv'
  BY <1>0, <1>5, MoveUp, TakeKeeps DEF Posting
<1>6. ASSUME NEW h \in Handlers, Posted(h) PROVE PoolInv'
  BY <1>0, <1>6, MoveDown, GiveKeeps DEF Posted
<1>7. ASSUME NEW h \in Handlers, GiveUp(h) PROVE PoolInv'
  BY <1>0, <1>7, MoveInside, SwapKeeps DEF GiveUp, Holding, Places
<1>8. CASE UNCHANGED poolVars
  BY <1>8 DEF poolVars, PoolInv, PoolTypeOK, NoneIsLost, Lent, Singles, Doubles
<1>. QED
  BY <1>1, <1>2, <1>3, <1>4, <1>5, <1>6, <1>7, <1>8 DEF PoolNext

(***************************************************************************)
(* With nobody but waiting requests and no connection free, those that     *)
(* hold one hold it for a posting.                                         *)
(***************************************************************************)
LEMMA StuckIsByPostings == PoolInv => StuckByPostingsOnly
<1>. SUFFICES ASSUME PoolInv, Stuck
              PROVE  Cardinality({h \in Handlers : at[h] = "ask"}) = MaxConns
  BY DEF StuckByPostingsOnly
<1>1. Singles = {h \in Handlers : at[h] = "ask"} /\ Doubles = {}
  BY DEF Stuck, Waiting, Singles, Doubles, Holding
<1>2. Lent = Cardinality(Singles)
  BY <1>1, LentIsNat, FS_EmptySet DEF Lent
<1>. QED
  BY <1>1, <1>2, LentIsNat DEF PoolInv, PoolTypeOK, NoneIsLost, Stuck

(***************************************************************************)
(* Whatever number of requests shares a pool of whatever size: none of     *)
(* their connections is lost, and they wait for each other for good only   *)
(* when as many transactions as there are connections post at once.        *)
(***************************************************************************)
THEOREM PoolIsSafe == PoolSpec => []PoolSafe
<1>1. PoolInv => PoolSafe
  BY StuckIsByPostings DEF PoolInv, PoolSafe
<1>. QED
  BY <1>1, PoolInitInv, PoolNextInv, PTL DEF PoolSpec

(***************************************************************************)
(* Fewer requests than connections never wait for each other: a Lambda,    *)
(* which serves one request at a time from a pool of at least four.        *)
(***************************************************************************)
THEOREM FewRequestsGoOn ==
    ASSUME Cardinality(Handlers) < MaxConns
    PROVE  PoolSpec => []~Stuck
<1>1. PoolInv => ~Stuck
  <2>. SUFFICES ASSUME PoolInv, Stuck PROVE FALSE
    OBVIOUS
  <2>1. Cardinality({h \in Handlers : at[h] = "ask"}) = MaxConns
    BY StuckIsByPostings DEF StuckByPostingsOnly
  <2>2. Cardinality({h \in Handlers : at[h] = "ask"}) <= Cardinality(Handlers)
    BY FS_Subset
  <2>3. Cardinality(Handlers) \in Nat
    BY FS_CardinalityType
  <2>. QED
    BY <2>1, <2>2, <2>3
<1>. QED
  BY <1>1, PoolInitInv, PoolNextInv, PTL DEF PoolSpec

HIDE PoolAssumption DEF PoolAssumption
-----------------------------------------------------------------------------
(* The user's row: every set of tabs, any number of keys and receipts.       *)

USE UserKeyAssumption DEF UserKeyAssumption

(***************************************************************************)
(* The key half.  What a tab shows is the row's key or one replaced by a   *)
(* request that raced; only a request that found no key writes one.        *)
(***************************************************************************)
Ask == [no : 1 .. keysAsked, tab : Tabs, heard : BOOLEAN,
        at : {"read", "write", "written", "refused"}, read : Nat]

KeyTypes ==
    /\ row \in [key : Nat, qr : Nat, attempts : Nat, successes : Nat]
    /\ row.key <= keysAsked /\ row.qr <= keysAsked /\ keysAsked \in Nat
    /\ seen \in [Tabs -> [key : Nat, qr : Nat]]
    /\ showQr \in [Tabs -> BOOLEAN] /\ pending \in [Tabs -> Nat]
    /\ asks \subseteq Ask /\ refetching \subseteq Tabs

Waited ==
    \A t \in Tabs : pending[t] # 0 =>
        \E a \in asks : a.heard /\ a.tab = t /\ a.no = pending[t]

OneCode == row.qr = row.key /\ CodeIsOfTheKey

FoundNone == \A a \in asks : a.at = "write" => a.read = 0

Shown ==
    \A t \in Tabs :
        /\ seen[t].key # 0 => seen[t].key \in raced \cup {row.key} /\ row.key # 0
        /\ showQr[t] => seen[t].key # 0

Scanned == 0 \notin scanned /\ ScannedKeyStays

KeyInv == KeyTypes /\ Waited /\ OneCode /\ FoundNone /\ Shown /\ Scanned

(***************************************************************************)
(* The receipt half.  The receipts whose attempt is not written yet keep   *)
(* room below the number sent; what a handler will write is at most one    *)
(* above what was written so far.                                          *)
(***************************************************************************)
Receipt == [no : 1 .. sent, at : {"read", "attempt", "gemini"},
            attempts : Nat, successes : Nat]

Uncounted == {p \in parses : p.at # "gemini"}

ReceiptTypes ==
    /\ row \in [key : Nat, qr : Nat, attempts : Nat, successes : Nat]
    /\ sent \in Nat /\ noted \in Nat /\ readable \in Nat /\ overlapped \in BOOLEAN
    /\ parses \subseteq Receipt /\ IsFiniteSet(parses)
    /\ \A p, q \in parses : p.no = q.no => p = q

RoomForAttempts ==
    /\ noted + Cardinality(Uncounted) <= sent
    /\ row.attempts <= noted
    /\ \A p \in parses : p.at = "attempt" => p.attempts <= noted + 1

RoomForSuccesses ==
    /\ readable + Cardinality(parses) <= sent
    /\ row.successes <= readable
    /\ \A p \in parses : p.at # "read" => p.successes <= readable + 1

Alone(p) ==
    /\ parses = {p}
    /\ row.successes = readable
    /\ row.attempts = noted
    /\ p.at = "attempt" => p.attempts = noted + 1
    /\ p.at # "read" => p.successes = readable + 1

Exactly ==
    \/ overlapped
    \/ parses = {} /\ row.attempts = noted /\ row.successes = readable
    \/ \E p \in parses : Alone(p)

ReceiptInv == ReceiptTypes /\ RoomForAttempts /\ RoomForSuccesses /\ Exactly

-----------------------------------------------------------------------------
LEMMA KeyInit == UserInit => KeyInv
BY DEF UserInit, KeyInv, KeyTypes, Ask, Waited, OneCode, CodeIsOfTheKey, FoundNone,
       Shown, Scanned, ScannedKeyStays

(***************************************************************************)
(* Receipts and everything that leaves the keys alone.                     *)
(***************************************************************************)
LEMMA KeyFrame ==
    ASSUME KeyInv, UNCHANGED <<tabVars, asks, raced>>,
           row' \in [key : Nat, qr : Nat, attempts : Nat, successes : Nat],
           row'.key = row.key, row'.qr = row.qr
    PROVE  KeyInv'
BY DEF KeyInv, KeyTypes, Ask, Waited, OneCode, CodeIsOfTheKey, FoundNone,
       Shown, Scanned, ScannedKeyStays, tabVars

(***************************************************************************)
(* A request moves on: it keeps its number, its tab and whether its tab    *)
(* still waits.                                                            *)
(***************************************************************************)
LEMMA MoveKeeps ==
    ASSUME KeyInv, NEW a \in asks, NEW to \in Ask, MoveAsk(a, to),
           to.no = a.no, to.tab = a.tab, to.heard = a.heard,
           to.at = "write" => to.read = 0, UNCHANGED <<keysAsked, pending, seen>>
    PROVE  asks' \subseteq Ask' /\ Waited' /\ FoundNone'
<1>1. asks' = (asks \ {a}) \cup {to} /\ Ask' = Ask
  BY DEF MoveAsk, Ask
<1>2. asks' \subseteq Ask'
  BY <1>1 DEF KeyInv, KeyTypes
<1>3. Waited'
  <2>. SUFFICES ASSUME NEW t \in Tabs, pending[t] # 0
                PROVE  \E b \in asks' : b.heard /\ b.tab = t /\ b.no = pending[t]
    BY DEF Waited
  <2>1. PICK b \in asks : b.heard /\ b.tab = t /\ b.no = pending[t]
    BY DEF KeyInv, Waited
  <2>. QED
    BY <1>1, <2>1
<1>4. FoundNone'
  BY <1>1 DEF KeyInv, FoundNone
<1>. QED
  BY <1>2, <1>3, <1>4

(***************************************************************************)
(* A request ends: the only button that may wait for it is given back.     *)
(***************************************************************************)
LEMMA EndKeeps ==
    ASSUME KeyInv, NEW a \in asks, asks' = asks \ {a}, pending' = Unwait(a),
           UNCHANGED keysAsked
    PROVE  /\ asks' \subseteq Ask' /\ Waited' /\ FoundNone'
           /\ pending' \in [Tabs -> Nat]
<1>1. Ask' = Ask /\ a \in Ask /\ a.tab \in Tabs
  BY DEF Ask, KeyInv, KeyTypes
<1>2. asks' \subseteq Ask' /\ FoundNone'
  BY <1>1 DEF KeyInv, KeyTypes, FoundNone
<1>3. pending' \in [Tabs -> Nat]
  BY DEF KeyInv, KeyTypes, Unwait
<1>4. Waited'
  <2>. SUFFICES ASSUME NEW t \in Tabs, pending'[t] # 0
                PROVE  \E b \in asks' : b.heard /\ b.tab = t /\ b.no = pending'[t]
    BY DEF Waited
  <2>1. pending'[t] = pending[t] /\ ~(a.tab = t /\ a.no = pending[t])
    BY DEF KeyInv, KeyTypes, Unwait
  <2>2. PICK b \in asks : b.heard /\ b.tab = t /\ b.no = pending[t]
    BY <2>1 DEF KeyInv, Waited
  <2>. QED
    BY <2>1, <2>2
<1>. QED
  BY <1>2, <1>3, <1>4

(***************************************************************************)
(* A tab shows the row as it is now, whether it did before or not.         *)
(***************************************************************************)
LEMMA ReadKeeps ==
    ASSUME KeyInv, NEW t \in Tabs,
           seen' = [seen EXCEPT ![t] = [key |-> row.key, qr |-> row.qr]],
           showQr' \in [Tabs -> BOOLEAN], \A u \in Tabs : showQr'[u] => showQr[u],
           UNCHANGED <<row, raced, scanned>>
    PROVE  /\ seen' \in [Tabs -> [key : Nat, qr : Nat]]
           /\ OneCode' /\ Shown' /\ Scanned'
<1>1. seen' \in [Tabs -> [key : Nat, qr : Nat]]
  BY DEF KeyInv, KeyTypes
<1>2. seen'[t].key = row.key /\ seen'[t].qr = row.qr
      /\ \A u \in Tabs : u # t => seen'[u] = seen[u]
  BY DEF KeyInv, KeyTypes
<1>3. OneCode'
  BY <1>2 DEF KeyInv, OneCode, CodeIsOfTheKey
<1>4. Shown'
  BY <1>2 DEF KeyInv, Shown
<1>5. Scanned'
  BY DEF KeyInv, Scanned, ScannedKeyStays
<1>. QED
  BY <1>1, <1>3, <1>4, <1>5

LEMMA KeyStep ==
    ASSUME KeyInv, KeyNext
    PROVE  KeyInv'
<1>1. ASSUME NEW t \in Tabs, handleGenerate(t) PROVE KeyInv'
  <2>. DEFINE new == [no |-> keysAsked + 1, tab |-> t, heard |-> TRUE, at |-> "read",
                      read |-> 0]
  <2>1. /\ keysAsked' = keysAsked + 1 /\ keysAsked \in Nat
        /\ pending' = [pending EXCEPT ![t] = keysAsked + 1]
        /\ asks' = asks \cup {new}
        /\ UNCHANGED <<row, seen, showQr, refetching, scanned, raced>>
    BY <1>1 DEF handleGenerate, KeyInv, KeyTypes
  <2>2. Ask \subseteq Ask' /\ new \in Ask'
    <3>1. 1 .. keysAsked \subseteq 1 .. keysAsked' /\ keysAsked + 1 \in 1 .. keysAsked'
      BY <2>1
    <3>. QED
      BY <3>1 DEF Ask
  <2>3. KeyTypes'
    <3>1. asks' \subseteq Ask'
      BY <2>1, <2>2 DEF KeyInv, KeyTypes
    <3>2. pending' \in [Tabs -> Nat]
      BY <2>1 DEF KeyInv, KeyTypes
    <3>3. keysAsked' \in Nat /\ row'.key <= keysAsked' /\ row'.qr <= keysAsked'
      BY <2>1 DEF KeyInv, KeyTypes
    <3>. QED
      BY <2>1, <3>1, <3>2, <3>3 DEF KeyInv, KeyTypes
  <2>4. Waited'
    <3>. SUFFICES ASSUME NEW u \in Tabs, pending'[u] # 0
                  PROVE  \E b \in asks' : b.heard /\ b.tab = u /\ b.no = pending'[u]
      BY DEF Waited
    <3>1. CASE u = t
      <4>1. new \in asks' /\ new.heard /\ new.tab = u /\ new.no = pending'[u]
        BY <2>1, <3>1 DEF KeyInv, KeyTypes
      <4>. QED
        BY <4>1
    <3>2. CASE u # t
      <4>1. pending'[u] = pending[u]
        BY <2>1, <3>2 DEF KeyInv, KeyTypes
      <4>2. PICK b \in asks : b.heard /\ b.tab = u /\ b.no = pending[u]
        BY <4>1 DEF KeyInv, Waited
      <4>. QED
        BY <2>1, <4>1, <4>2
    <3>. QED
      BY <3>1, <3>2
  <2>5. OneCode' /\ FoundNone' /\ Shown' /\ Scanned'
    BY <2>1 DEF KeyInv, OneCode, CodeIsOfTheKey, FoundNone, Shown, Scanned, ScannedKeyStays
  <2>. QED
    BY <2>3, <2>4, <2>5 DEF KeyInv
<1>2. ASSUME NEW t \in Tabs, getAuthUser(t) PROVE KeyInv'
  <2>1. UNCHANGED <<row, showQr, pending, asks, keysAsked, scanned, raced>>
        /\ refetching' \subseteq Tabs
    BY <1>2 DEF getAuthUser, KeyInv, KeyTypes
  <2>2. seen' \in [Tabs -> [key : Nat, qr : Nat]] /\ OneCode' /\ Shown' /\ Scanned'
    BY <1>2, <2>1, ReadKeeps DEF getAuthUser, KeyInv, KeyTypes
  <2>3. KeyTypes'
    BY <2>1, <2>2 DEF KeyInv, KeyTypes, Ask
  <2>4. Waited' /\ FoundNone'
    BY <2>1 DEF KeyInv, Waited, FoundNone
  <2>. QED
    BY <2>2, <2>3, <2>4 DEF KeyInv
<1>3. ASSUME NEW t \in Tabs, Reload(t) PROVE KeyInv'
  <2>1. /\ UNCHANGED <<row, keysAsked, scanned, raced>> /\ refetching' \subseteq Tabs
        /\ showQr' \in [Tabs -> BOOLEAN]
        /\ \A u \in Tabs : showQr'[u] => showQr[u]
        /\ pending' \in [Tabs -> Nat] /\ pending'[t] = 0
        /\ \A u \in Tabs : u # t => pending'[u] = pending[u]
        /\ asks' = {IF a.tab = t THEN [a EXCEPT !.heard = FALSE] ELSE a : a \in asks}
    BY <1>3 DEF Reload, KeyInv, KeyTypes
  <2>2. seen' \in [Tabs -> [key : Nat, qr : Nat]] /\ OneCode' /\ Shown' /\ Scanned'
    BY <1>3, <2>1, ReadKeeps DEF Reload
  <2>3. ASSUME NEW b \in asks'
        PROVE  b \in Ask /\ (b.at = "write" => b.read = 0)
    <3>1. PICK a \in asks : b = IF a.tab = t THEN [a EXCEPT !.heard = FALSE] ELSE a
      BY <2>1
    <3>2. a \in Ask /\ (a.at = "write" => a.read = 0)
      BY DEF KeyInv, KeyTypes, FoundNone
    <3>. QED
      BY <3>1, <3>2 DEF Ask
  <2>4. KeyTypes' /\ FoundNone'
    BY <2>1, <2>2, <2>3 DEF KeyInv, KeyTypes, FoundNone, Ask
  <2>5. Waited'
    <3>. SUFFICES ASSUME NEW u \in Tabs, pending'[u] # 0
                  PROVE  \E b \in asks' : b.heard /\ b.tab = u /\ b.no = pending'[u]
      BY DEF Waited
    <3>1. u # t /\ pending'[u] = pending[u]
      BY <2>1
    <3>2. PICK b \in asks : b.heard /\ b.tab = u /\ b.no = pending[u]
      BY <3>1 DEF KeyInv, Waited
    <3>3. b \in asks'
      BY <2>1, <3>1, <3>2
    <3>. QED
      BY <3>1, <3>2, <3>3
  <2>. QED
    BY <2>2, <2>4, <2>5 DEF KeyInv
<1>4. ASSUME NEW t \in Tabs, ApiKeySection(t) PROVE KeyInv'
  <2>1. UNCHANGED <<row, seen, refetching, pending, asks, keysAsked, scanned, raced>>
        /\ showQr' \in [Tabs -> BOOLEAN] /\ seen[t].key # 0
        /\ \A u \in Tabs : u # t => showQr'[u] = showQr[u]
    BY <1>4 DEF ApiKeySection, KeyInv, KeyTypes
  <2>2. Shown'
    BY <2>1 DEF KeyInv, Shown
  <2>. QED
    BY <2>1, <2>2 DEF KeyInv, KeyTypes, Ask, Waited, OneCode, CodeIsOfTheKey, FoundNone,
                      Scanned, ScannedKeyStays
<1>5. ASSUME NEW t \in Tabs, setIsEditing(t) PROVE KeyInv'
  <2>1. /\ UNCHANGED <<row, seen, refetching, asks, keysAsked, scanned, raced>>
        /\ showQr' \in [Tabs -> BOOLEAN]
        /\ \A u \in Tabs : showQr'[u] => showQr[u]
        /\ pending' \in [Tabs -> Nat]
        /\ \A u \in Tabs : pending'[u] # 0 => pending'[u] = pending[u]
    BY <1>5 DEF setIsEditing, KeyInv, KeyTypes
  <2>2. Shown' /\ Waited'
    BY <2>1 DEF KeyInv, Shown, Waited
  <2>. QED
    BY <2>1, <2>2 DEF KeyInv, KeyTypes, Ask, OneCode, CodeIsOfTheKey, FoundNone,
                      Scanned, ScannedKeyStays
<1>6. ASSUME NEW t \in Tabs, handleBarCodeScanned(t) PROVE KeyInv'
  <2>1. UNCHANGED <<row, seen, showQr, refetching, pending, asks, keysAsked, raced>>
        /\ showQr[t] /\ scanned' = scanned \cup {seen[t].qr}
    BY <1>6 DEF handleBarCodeScanned
  <2>2. seen[t].qr \in raced \cup {row.key}
    BY <2>1 DEF KeyInv, Shown, OneCode, CodeIsOfTheKey
  <2>4. seen[t].qr # 0
    BY <2>1 DEF KeyInv, Shown, OneCode, CodeIsOfTheKey
  <2>3. Scanned'
    BY <2>1, <2>2, <2>4 DEF KeyInv, Scanned, ScannedKeyStays
  <2>. QED
    BY <2>1, <2>3 DEF KeyInv, KeyTypes, Ask, Waited, OneCode, CodeIsOfTheKey, FoundNone,
                      Shown
<1>7. ASSUME NEW a \in asks, AnswerAsk(a) PROVE KeyInv'
  <2>1. UNCHANGED <<row, seen, showQr, keysAsked, scanned, raced>>
        /\ asks' = asks \ {a} /\ pending' = Unwait(a) /\ refetching' \subseteq Tabs
    BY <1>7 DEF AnswerAsk, KeyInv, KeyTypes, Ask
  <2>2. asks' \subseteq Ask' /\ Waited' /\ FoundNone' /\ pending' \in [Tabs -> Nat]
    BY <2>1, EndKeeps
  <2>. QED
    BY <2>1, <2>2 DEF KeyInv, KeyTypes, OneCode, CodeIsOfTheKey, Shown, Scanned, ScannedKeyStays
<1>8. ASSUME NEW a \in asks, DropAsk(a) PROVE KeyInv'
  <2>1. UNCHANGED <<row, seen, showQr, refetching, keysAsked, scanned, raced>>
        /\ asks' = asks \ {a} /\ pending' = Unwait(a)
    BY <1>8 DEF DropAsk
  <2>2. asks' \subseteq Ask' /\ Waited' /\ FoundNone' /\ pending' \in [Tabs -> Nat]
    BY <2>1, EndKeeps
  <2>. QED
    BY <2>1, <2>2 DEF KeyInv, KeyTypes, OneCode, CodeIsOfTheKey, Shown, Scanned, ScannedKeyStays
<1>9. ASSUME NEW a \in asks, ReadKeyRow(a) PROVE KeyInv'
  <2>. DEFINE to == [a EXCEPT !.at = IF row.key # 0 THEN "refused" ELSE "write",
                              !.read = row.key]
  <2>1. UNCHANGED <<row, seen, showQr, refetching, pending, keysAsked, scanned, raced>>
        /\ MoveAsk(a, to)
    BY <1>9 DEF ReadKeyRow, tabVars
  <2>2. a \in Ask /\ row.key \in Nat
    BY DEF KeyInv, KeyTypes
  <2>3. to \in Ask /\ to.no = a.no /\ to.tab = a.tab /\ to.heard = a.heard
        /\ (to.at = "write" => to.read = 0)
    BY <2>2 DEF Ask
  <2>4. asks' \subseteq Ask' /\ Waited' /\ FoundNone'
    BY <2>1, <2>3, MoveKeeps
  <2>. QED
    BY <2>1, <2>4 DEF KeyInv, KeyTypes, OneCode, CodeIsOfTheKey, Shown, Scanned, ScannedKeyStays
<1>10. ASSUME NEW a \in asks, WriteKey(a) PROVE KeyInv'
  <2>. DEFINE to == [a EXCEPT !.at = "written"]
  <2>1. UNCHANGED <<seen, showQr, refetching, pending, keysAsked, scanned>>
        /\ MoveAsk(a, to) /\ a.at = "write"
        /\ row' = [row EXCEPT !.key = a.no, !.qr = a.no]
        /\ raced' = IF row.key # 0 /\ a.read = 0 THEN raced \cup {row.key} ELSE raced
    BY <1>10 DEF WriteKey, UpdateUserInternal, tabVars
  <2>2. a \in Ask /\ a.read = 0 /\ a.no \in 1 .. keysAsked /\ a.no \in Nat
    BY <2>1 DEF KeyInv, KeyTypes, FoundNone, Ask
  <2>3. to \in Ask /\ to.no = a.no /\ to.tab = a.tab /\ to.heard = a.heard
        /\ to.at # "write"
    BY <2>2 DEF Ask
  <2>4. asks' \subseteq Ask' /\ Waited' /\ FoundNone'
    BY <2>1, <2>3, MoveKeeps
  <2>5. row' \in [key : Nat, qr : Nat, attempts : Nat, successes : Nat]
        /\ row'.key = a.no /\ row'.qr = a.no /\ a.no # 0 /\ a.no <= keysAsked
    <3>1. row \in [key : Nat, qr : Nat, attempts : Nat, successes : Nat]
          /\ keysAsked \in Nat
      BY DEF KeyInv, KeyTypes
    <3>2. a.no \in Nat /\ a.no # 0 /\ a.no <= keysAsked
      BY <2>2, <3>1
    <3>. HIDE DEF to
    <3>. QED
      BY <2>1, <3>1, <3>2
  <2>6. KeyTypes' /\ OneCode'
    BY <2>1, <2>4, <2>5 DEF KeyInv, KeyTypes, OneCode, CodeIsOfTheKey
  <2>7. row.key # 0 => row.key \in raced'
    BY <2>1, <2>2
  <2>8. Shown' /\ Scanned'
    <3>1. raced \subseteq raced'
      BY <2>1
    <3>. QED
      BY <2>1, <2>5, <2>7, <3>1 DEF KeyInv, Shown, Scanned, ScannedKeyStays
  <2>. QED
    BY <2>4, <2>6, <2>8 DEF KeyInv
<1>. QED
  BY <1>1, <1>2, <1>3, <1>4, <1>5, <1>6, <1>7, <1>8, <1>9, <1>10 DEF KeyNext

-----------------------------------------------------------------------------
(***************************************************************************)
(* What moves between two places of a finite set leaves its size alone.    *)
(***************************************************************************)
LEMMA Swapped ==
    ASSUME NEW S, IsFiniteSet(S), NEW x \in S, NEW y, y \notin S
    PROVE  /\ IsFiniteSet((S \ {x}) \cup {y})
           /\ Cardinality((S \ {x}) \cup {y}) = Cardinality(S)
<1>1. IsFiniteSet(S \ {x}) /\ Cardinality(S \ {x}) = Cardinality(S) - 1
  BY FS_RemoveElement
<1>2. y \notin S \ {x}
  OBVIOUS
<1>3. IsFiniteSet((S \ {x}) \cup {y})
      /\ Cardinality((S \ {x}) \cup {y}) = Cardinality(S \ {x}) + 1
  BY <1>1, <1>2, FS_AddElement
<1>4. Cardinality(S) \in Nat
  BY FS_CardinalityType
<1>. QED
  BY <1>1, <1>3, <1>4

LEMMA ReceiptSizes ==
    ASSUME ReceiptTypes
    PROVE  /\ IsFiniteSet(Uncounted)
           /\ Cardinality(Uncounted) \in Nat /\ Cardinality(parses) \in Nat
<1>1. IsFiniteSet(Uncounted)
  BY FS_Subset DEF ReceiptTypes, Uncounted
<1>. QED
  BY <1>1, FS_CardinalityType DEF ReceiptTypes

LEMMA ReceiptInit == UserInit => ReceiptInv
<1>. SUFFICES ASSUME UserInit PROVE ReceiptInv
  OBVIOUS
<1>1. parses = {} /\ Uncounted = {} /\ Cardinality({}) = 0 /\ IsFiniteSet({})
  BY FS_EmptySet DEF UserInit, Uncounted
<1>2. ReceiptTypes
  BY <1>1 DEF UserInit, ReceiptTypes, Receipt
<1>3. RoomForAttempts /\ RoomForSuccesses
  BY <1>1 DEF UserInit, RoomForAttempts, RoomForSuccesses
<1>4. Exactly
  BY <1>1 DEF UserInit, Exactly
<1>. QED
  BY <1>2, <1>3, <1>4 DEF ReceiptInv

(***************************************************************************)
(* Keys and everything that leaves the counts alone.                       *)
(***************************************************************************)
LEMMA ReceiptFrame ==
    ASSUME ReceiptInv, UNCHANGED receiptVars,
           row' \in [key : Nat, qr : Nat, attempts : Nat, successes : Nat],
           row'.attempts = row.attempts, row'.successes = row.successes
    PROVE  ReceiptInv'
<1>1. UNCHANGED <<parses, sent, noted, readable, overlapped>>
  BY DEF receiptVars
<1>2. Uncounted' = Uncounted /\ Receipt' = Receipt
  BY <1>1 DEF Uncounted, Receipt
<1>3. ReceiptTypes' /\ RoomForAttempts' /\ RoomForSuccesses'
  BY <1>1, <1>2 DEF ReceiptInv, ReceiptTypes, RoomForAttempts, RoomForSuccesses
<1>4. \A p : Alone(p) => Alone(p)'
  BY <1>1 DEF Alone
<1>5. Exactly'
  BY <1>1, <1>4 DEF ReceiptInv, Exactly
<1>. QED
  BY <1>3, <1>5 DEF ReceiptInv

LEMMA ReceiptStep ==
    ASSUME ReceiptInv, ReceiptNext
    PROVE  ReceiptInv'
<1>0. /\ row \in [key : Nat, qr : Nat, attempts : Nat, successes : Nat]
      /\ sent \in Nat /\ noted \in Nat /\ readable \in Nat
      /\ IsFiniteSet(Uncounted) /\ IsFiniteSet(parses)
      /\ Cardinality(Uncounted) \in Nat /\ Cardinality(parses) \in Nat
      /\ \A p \in parses : p \in Receipt
      /\ noted + Cardinality(Uncounted) <= sent /\ row.attempts <= noted
      /\ readable + Cardinality(parses) <= sent /\ row.successes <= readable
  BY ReceiptSizes DEF ReceiptInv, ReceiptTypes, RoomForAttempts, RoomForSuccesses
<1>1. CASE ParseTxnImage
  <2>. DEFINE new == [no |-> sent + 1, at |-> "read", attempts |-> 0, successes |-> 0]
  <2>1. /\ sent' = sent + 1 /\ parses' = parses \cup {new}
        /\ overlapped' = (overlapped \/ parses # {})
        /\ row' = row /\ noted' = noted /\ readable' = readable
    BY <1>1 DEF ParseTxnImage
  <2>2. new \in Receipt' /\ Receipt \subseteq Receipt'
    BY <1>0, <2>1 DEF Receipt
  <2>3. \A p \in parses : p.no # new.no
    BY <1>0 DEF Receipt
  <2>4. new \notin parses /\ new \notin Uncounted /\ Uncounted' = Uncounted \cup {new}
    BY <2>1, <2>3 DEF Uncounted
  <2>5. /\ IsFiniteSet(parses') /\ Cardinality(parses') = Cardinality(parses) + 1
        /\ Cardinality(Uncounted') = Cardinality(Uncounted) + 1
    BY <1>0, <2>1, <2>4, FS_AddElement
  <2>6. ReceiptTypes'
    <3>1. \A p, q \in parses' : p.no = q.no => p = q
      BY <2>1, <2>3 DEF ReceiptInv, ReceiptTypes
    <3>2. parses' \subseteq Receipt'
      BY <1>0, <2>1, <2>2
    <3>3. overlapped' \in BOOLEAN
      BY <2>1
    <3>. QED
      BY <1>0, <2>1, <2>5, <3>1, <3>2, <3>3 DEF ReceiptTypes
  <2>7. RoomForAttempts'
    <3>1. \A p \in parses' : p.at = "attempt" => p \in parses
      BY <2>1
    <3>2. \A p \in parses : p.at = "attempt" =>
             p.attempts \in Nat /\ p.attempts <= noted + 1
      BY <1>0 DEF ReceiptInv, RoomForAttempts, Receipt
    <3>. QED
      BY <1>0, <2>1, <2>5, <3>1, <3>2 DEF RoomForAttempts
  <2>8. RoomForSuccesses'
    <3>1. \A p \in parses' : p.at # "read" => p \in parses
      BY <2>1
    <3>. QED
      BY <1>0, <2>1, <2>5, <3>1 DEF ReceiptInv, RoomForSuccesses
  <2>9. Exactly'
    <3>1. CASE overlapped \/ parses # {}
      BY <2>1, <3>1 DEF Exactly
    <3>2. CASE ~overlapped /\ parses = {}
      <4>1. row.attempts = noted /\ row.successes = readable
        BY <3>2 DEF ReceiptInv, Exactly
      <4>2. parses' = {new} /\ new.at = "read"
        BY <2>1, <3>2
      <4>. HIDE DEF new
      <4>3. PICK p : p = new
        OBVIOUS
      <4>4. Alone(p)'
        BY <1>0, <2>1, <4>1, <4>2, <4>3 DEF Alone
      <4>5. p \in parses'
        BY <4>2, <4>3
      <4>. QED
        BY <4>4, <4>5 DEF Exactly
    <3>. QED
      BY <3>1, <3>2
  <2>. QED
    BY <2>6, <2>7, <2>8, <2>9 DEF ReceiptInv
<1>2. ASSUME NEW p \in parses, ReadCounts(p) PROVE ReceiptInv'
  <2>. DEFINE to == [p EXCEPT !.at = "attempt", !.attempts = row.attempts + 1,
                              !.successes = row.successes + 1]
  <2>1. /\ p.at = "read" /\ parses' = (parses \ {p}) \cup {to}
        /\ UNCHANGED <<row, sent, noted, readable, overlapped>>
    BY <1>2 DEF ReadCounts, MoveParse
  <2>2. /\ p \in Receipt /\ to \in Receipt /\ to.no = p.no /\ to.at = "attempt"
        /\ to.attempts = row.attempts + 1 /\ to.successes = row.successes + 1
    <3>1. row.attempts + 1 \in Nat /\ row.successes + 1 \in Nat
      BY <1>0
    <3>2. p \in Receipt
      BY <1>0
    <3>. QED
      BY <3>1, <3>2 DEF Receipt
  <2>. HIDE DEF to
  <2>3. to \notin parses /\ to \notin Uncounted /\ p \in Uncounted
        /\ Uncounted' = (Uncounted \ {p}) \cup {to}
    BY <2>1, <2>2 DEF Uncounted, ReceiptInv, ReceiptTypes
  <2>4. /\ IsFiniteSet(parses') /\ Cardinality(parses') = Cardinality(parses)
        /\ Cardinality(Uncounted') = Cardinality(Uncounted)
    BY <1>0, <2>1, <2>3, Swapped
  <2>5. ReceiptTypes'
    BY <2>1, <2>2, <2>4 DEF ReceiptInv, ReceiptTypes, Receipt
  <2>6. RoomForAttempts'
    BY <1>0, <2>1, <2>2, <2>4 DEF ReceiptInv, RoomForAttempts
  <2>7. RoomForSuccesses'
    BY <1>0, <2>1, <2>2, <2>4 DEF ReceiptInv, RoomForSuccesses
  <2>8. Exactly'
    <3>1. CASE overlapped
      BY <2>1, <3>1 DEF Exactly
    <3>2. CASE ~overlapped
      <4>1. Alone(p)
        BY <3>2 DEF ReceiptInv, Exactly, Alone
      <4>2. parses' = {to}
        BY <2>1, <4>1 DEF Alone
      <4>3. row.attempts = noted /\ row.successes = readable
        BY <1>0, <2>1, <4>1 DEF Alone
      <4>4. PICK q : q = to
        OBVIOUS
      <4>5. Alone(q)'
        <5>1. q.at = "attempt" /\ q.attempts = noted + 1 /\ q.successes = readable + 1
          BY <2>2, <4>3, <4>4
        <5>2. row.attempts = noted
          BY <4>3
        <5>3. parses' = {q} /\ UNCHANGED <<row, sent, noted, readable>>
          BY <2>1, <4>2, <4>4
        <5>. QED
          BY <4>3, <5>1, <5>2, <5>3 DEF Alone
      <4>6. q \in parses'
        BY <4>2, <4>4
      <4>. QED
        BY <4>5, <4>6 DEF Exactly
    <3>. QED
      BY <3>1, <3>2
  <2>. QED
    BY <2>5, <2>6, <2>7, <2>8 DEF ReceiptInv
<1>3. ASSUME NEW p \in parses, CountAttempt(p) PROVE ReceiptInv'
  <2>. DEFINE to == [p EXCEPT !.at = "gemini"]
  <2>1. /\ p.at = "attempt" /\ parses' = (parses \ {p}) \cup {to}
        /\ row' = [row EXCEPT !.attempts = p.attempts]
        /\ noted' = noted + 1 /\ UNCHANGED <<sent, readable, overlapped>>
    BY <1>3 DEF CountAttempt, MoveParse
  <2>2. /\ p \in Receipt /\ to \in Receipt /\ to.no = p.no /\ to.at = "gemini"
        /\ to.successes = p.successes
        /\ p.attempts \in Nat /\ p.successes \in Nat
        /\ p.attempts <= noted + 1
    BY <1>0, <2>1 DEF Receipt, ReceiptInv, RoomForAttempts
  <2>3. /\ row' \in [key : Nat, qr : Nat, attempts : Nat, successes : Nat]
        /\ row'.attempts = p.attempts /\ row'.successes = row.successes
    BY <1>0, <2>1, <2>2
  <2>. HIDE DEF to
  <2>4. to \notin parses /\ p \in Uncounted /\ Uncounted' = Uncounted \ {p}
    BY <2>1, <2>2 DEF Uncounted, ReceiptInv, ReceiptTypes
  <2>5. /\ IsFiniteSet(parses') /\ Cardinality(parses') = Cardinality(parses)
        /\ Cardinality(Uncounted') = Cardinality(Uncounted) - 1
    BY <1>0, <2>1, <2>4, Swapped, FS_RemoveElement
  <2>6. ReceiptTypes'
    BY <2>1, <2>2, <2>3, <2>5 DEF ReceiptInv, ReceiptTypes, Receipt
  <2>7. RoomForAttempts'
    <3>1. ASSUME NEW q \in parses', q.at = "attempt"
          PROVE  q.attempts <= noted' + 1
      <4>1. q \in parses /\ q.attempts \in Nat
        BY <1>0, <2>1, <2>2, <3>1 DEF Receipt
      <4>2. q.attempts <= noted + 1
        BY <3>1, <4>1 DEF ReceiptInv, RoomForAttempts
      <4>. QED
        BY <1>0, <2>1, <2>5, <4>1, <4>2
    <3>. QED
      BY <1>0, <2>1, <2>2, <2>3, <2>5, <3>1 DEF RoomForAttempts
  <2>8. RoomForSuccesses'
    <3>1. p.successes <= readable + 1
      BY <2>1 DEF ReceiptInv, RoomForSuccesses
    <3>. QED
      BY <1>0, <2>1, <2>2, <2>3, <2>5, <3>1 DEF ReceiptInv, RoomForSuccesses
  <2>9. Exactly'
    <3>1. CASE overlapped
      BY <2>1, <3>1 DEF Exactly
    <3>2. CASE ~overlapped
      <4>1. Alone(p)
        BY <3>2 DEF ReceiptInv, Exactly, Alone
      <4>2. Alone(to)'
        BY <1>0, <2>1, <2>2, <2>3, <4>1 DEF Alone
      <4>. QED
        BY <2>1, <4>2 DEF Exactly
    <3>. QED
      BY <3>1, <3>2
  <2>. QED
    BY <2>6, <2>7, <2>8, <2>9 DEF ReceiptInv
<1>4. ASSUME NEW p \in parses, CountSuccess(p) PROVE ReceiptInv'
  <2>1. /\ p.at = "gemini" /\ parses' = parses \ {p} /\ UNCHANGED <<sent, noted, overlapped>>
        /\ \/ row' = [row EXCEPT !.successes = p.successes] /\ readable' = readable + 1
           \/ UNCHANGED <<row, readable>>
    BY <1>4 DEF CountSuccess
  <2>2. p \in Receipt /\ p.successes \in Nat /\ p.successes <= readable + 1
    BY <1>0, <2>1 DEF Receipt, ReceiptInv, RoomForSuccesses
  <2>3. /\ row' \in [key : Nat, qr : Nat, attempts : Nat, successes : Nat]
        /\ row'.attempts = row.attempts
        /\ \/ row'.successes = p.successes /\ readable' = readable + 1
           \/ row'.successes = row.successes /\ readable' = readable
    BY <1>0, <2>1, <2>2
  <2>4. Uncounted' = Uncounted
    BY <2>1 DEF Uncounted
  <2>5. IsFiniteSet(parses') /\ Cardinality(parses') = Cardinality(parses) - 1
    BY <1>0, <2>1, FS_RemoveElement
  <2>6. ReceiptTypes'
    BY <1>0, <2>1, <2>3, <2>5 DEF ReceiptInv, ReceiptTypes, Receipt
  <2>7. RoomForAttempts'
    BY <2>1, <2>3, <2>4 DEF ReceiptInv, RoomForAttempts
  <2>8. RoomForSuccesses'
    <3>1. \A q \in parses' : q.at # "read" => q.successes \in Nat /\ q.successes <= readable + 1
      BY <1>0, <2>1 DEF ReceiptInv, RoomForSuccesses, Receipt
    <3>. QED
      BY <1>0, <2>1, <2>2, <2>3, <2>5, <3>1 DEF RoomForSuccesses
  <2>9. Exactly'
    <3>1. CASE overlapped
      BY <2>1, <3>1 DEF Exactly
    <3>2. CASE ~overlapped
      <4>1. Alone(p)
        BY <3>2 DEF ReceiptInv, Exactly, Alone
      <4>2. parses' = {} /\ row'.attempts = noted' /\ row'.successes = readable'
        BY <2>1, <2>3, <4>1 DEF Alone
      <4>. QED
        BY <4>2 DEF Exactly
    <3>. QED
      BY <3>1, <3>2
  <2>. QED
    BY <2>6, <2>7, <2>8, <2>9 DEF ReceiptInv
<1>5. ASSUME NEW p \in parses, FailUncounted(p) PROVE ReceiptInv'
  <2>1. /\ p \in Uncounted /\ parses' = parses \ {p}
        /\ UNCHANGED <<row, sent, noted, readable, overlapped>>
    BY <1>5 DEF FailUncounted, Uncounted
  <2>2. Uncounted' = Uncounted \ {p}
    BY <2>1 DEF Uncounted
  <2>3. /\ IsFiniteSet(parses') /\ Cardinality(parses') = Cardinality(parses) - 1
        /\ Cardinality(Uncounted') = Cardinality(Uncounted) - 1
    BY <1>0, <2>1, <2>2, FS_RemoveElement
  <2>4. ReceiptTypes'
    BY <1>0, <2>1, <2>3 DEF ReceiptInv, ReceiptTypes, Receipt
  <2>5. RoomForAttempts' /\ RoomForSuccesses'
    BY <1>0, <2>1, <2>3 DEF ReceiptInv, RoomForAttempts, RoomForSuccesses
  <2>6. Exactly'
    <3>1. CASE overlapped
      BY <2>1, <3>1 DEF Exactly
    <3>2. CASE ~overlapped
      <4>1. Alone(p)
        BY <3>2 DEF ReceiptInv, Exactly, Alone
      <4>2. parses' = {} /\ row'.attempts = noted' /\ row'.successes = readable'
        BY <2>1, <4>1 DEF Alone
      <4>. QED
        BY <4>2 DEF Exactly
    <3>. QED
      BY <3>1, <3>2
  <2>. QED
    BY <2>4, <2>5, <2>6 DEF ReceiptInv
<1>. QED
  BY <1>1, <1>2, <1>3, <1>4, <1>5 DEF ReceiptNext

-----------------------------------------------------------------------------
LEMMA UserInvIsSafe == KeyInv /\ ReceiptInv => UserSafe
<1>. SUFFICES ASSUME KeyInv, ReceiptInv PROVE UserSafe
  OBVIOUS
<1>1. Cardinality(Uncounted) \in Nat /\ Cardinality(parses) \in Nat
  BY ReceiptSizes DEF ReceiptInv
<1>2. row.attempts \in 0 .. sent /\ row.successes \in 0 .. sent /\ noted <= sent
  BY <1>1 DEF ReceiptInv, ReceiptTypes, RoomForAttempts, RoomForSuccesses
<1>3. UserTypeOK
  BY <1>2 DEF UserTypeOK, KeyInv, KeyTypes, Waited
<1>4. ScannedKeyStays /\ CodeIsOfTheKey
  BY DEF KeyInv, Scanned, OneCode
<1>5. CountsAreOfReceipts
  BY <1>2 DEF CountsAreOfReceipts, ReceiptInv, ReceiptTypes, RoomForAttempts,
     RoomForSuccesses, Exactly, Alone
<1>. QED
  BY <1>3, <1>4, <1>5 DEF UserSafe

LEMMA UserStep == KeyInv /\ ReceiptInv /\ [KeyNext \/ ReceiptNext]_userVars
                    => KeyInv' /\ ReceiptInv'
<1>. SUFFICES ASSUME KeyInv, ReceiptInv, [KeyNext \/ ReceiptNext]_userVars
              PROVE  KeyInv' /\ ReceiptInv'
  OBVIOUS
<1>0. row \in [key : Nat, qr : Nat, attempts : Nat, successes : Nat]
  BY DEF KeyInv, KeyTypes
<1>1. CASE KeyNext
  <2>1. KeyInv'
    BY <1>1, KeyStep
  <2>2. UNCHANGED receiptVars
    BY <1>1 DEF KeyNext, handleGenerate, getAuthUser, ApiKeySection, setIsEditing,
       handleBarCodeScanned, Reload, AnswerAsk, ReadKeyRow, WriteKey, DropAsk
  <2>3. row'.attempts = row.attempts /\ row'.successes = row.successes
    BY <1>0, <1>1 DEF KeyNext, handleGenerate, getAuthUser, ApiKeySection, setIsEditing,
       handleBarCodeScanned, Reload, AnswerAsk, ReadKeyRow, WriteKey, DropAsk,
       UpdateUserInternal
  <2>. QED
    BY <2>1, <2>2, <2>3, ReceiptFrame DEF KeyInv, KeyTypes
<1>2. CASE ReceiptNext
  <2>1. ReceiptInv'
    BY <1>2, ReceiptStep
  <2>2. /\ UNCHANGED <<tabVars, asks, raced>>
        /\ row'.key = row.key /\ row'.qr = row.qr
    <3>1. CASE ParseTxnImage
      BY <3>1 DEF ParseTxnImage
    <3>2. ASSUME NEW p \in parses, ReadCounts(p) \/ FailUncounted(p)
          PROVE  UNCHANGED <<row, tabVars, asks, raced>>
      BY <3>2 DEF ReadCounts, FailUncounted
    <3>3. ASSUME NEW p \in parses, CountAttempt(p) \/ CountSuccess(p)
          PROVE  /\ UNCHANGED <<tabVars, asks, raced>>
                 /\ row'.key = row.key /\ row'.qr = row.qr
      BY <1>0, <3>3 DEF CountAttempt, CountSuccess
    <3>. QED
      BY <1>2, <3>1, <3>2, <3>3 DEF ReceiptNext
  <2>. QED
    BY <2>1, <2>2, KeyFrame DEF ReceiptInv, ReceiptTypes
<1>3. CASE UNCHANGED userVars
  <2>1. UNCHANGED <<tabVars, asks, raced, receiptVars, row>>
    BY <1>3 DEF userVars, tabVars, receiptVars
  <2>. QED
    BY <1>0, <2>1, KeyFrame, ReceiptFrame
<1>. QED
  BY <1>1, <1>2, <1>3

(***************************************************************************)
(* Whatever overlaps, with any number of tabs, requests, receipts and      *)
(* losses: a key a phone has scanned is replaced only by one asked for     *)
(* before there was a key, a tab's code is of its key, no receipt is       *)
(* counted twice, and unless two receipts overlapped the counts are those  *)
(* of the receipts that went on to Gemini and of those it could read.      *)
(***************************************************************************)
THEOREM UserIsSafe == UserSpec => []UserSafe
<1>1. UserInit => KeyInv /\ ReceiptInv
  BY KeyInit, ReceiptInit
<1>. QED
  BY <1>1, UserStep, UserInvIsSafe, PTL DEF UserSpec

HIDE UserKeyAssumption DEF UserKeyAssumption
-----------------------------------------------------------------------------
(* Goals, rules and links.                                                   *)

USE InvestmentAssumption DEF InvestmentAssumption

(***************************************************************************)
(* The inductive invariant.  InvestmentSafe alone is not inductive: that a *)
(* commit leaves the sum of the links needs the sum in the writer's hands  *)
(* to be theirs, with its own link, until somebody overtakes it; that a    *)
(* job links once needs the links not committed yet to be counted too.     *)
(***************************************************************************)
AutoOf(t) == {l \in links \cup Uncommitted : l.txn = t /\ l.source = "auto_sip"}

RulesHaveGoals == \A r \in rules : goalOf[r] \in goals \cup {NoGoal}

SumInHand(w) ==
    writer[w] # Idle =>
        /\ writer[w].link.rule = writer[w].rule
        /\ writer[w].stale
           \/ writer[w].sum = Total(writer[w].rule, links \cup {writer[w].link})

AutoPerAsk ==
    \A t \in Txns : IsFiniteSet(AutoOf(t)) /\ Cardinality(AutoOf(t)) <= asked[t] - waiting[t]

InvInv ==
    /\ InvTypeOK /\ IsFiniteSet(links)
    /\ RulesHaveGoals /\ CurrentIsLinks /\ NoOrphans
    /\ \A w \in Writers : SumInHand(w)
    /\ AutoPerAsk
(***************************************************************************)
(* What follows from the types of a writer, and of a total.                *)
(***************************************************************************)
LEMMA WriterType ==
    ASSUME InvTypeOK, NEW w \in Writers
    PROVE  /\ writer[w].rule \in Rules \cup {NoRule}
           /\ writer[w] = Idle <=> writer[w].rule = NoRule
           /\ writer[w] # Idle =>
                 /\ writer[w] \in [rule : Rules, link : Link, sum : Nat, stale : BOOLEAN]
                 /\ writer[w].rule \in Rules /\ writer[w].link \in Link
                 /\ writer[w].sum \in Nat /\ writer[w].stale \in BOOLEAN
<1>1. CASE writer[w] = Idle
  BY <1>1 DEF Idle
<1>2. CASE writer[w] # Idle
  <2>1. writer[w] \in [rule : Rules, link : Link, sum : Nat, stale : BOOLEAN]
    BY <1>2 DEF InvTypeOK
  <2>2. /\ writer[w].rule \in Rules /\ writer[w].link \in Link
        /\ writer[w].sum \in Nat /\ writer[w].stale \in BOOLEAN
    BY <2>1
  <2>. QED
    BY <1>2, <2>1, <2>2
<1>. QED
  BY <1>1, <1>2

LEMMA UncommittedType == InvTypeOK => Uncommitted \subseteq Link
BY WriterType DEF Uncommitted

LEMMA TotalNat ==
    ASSUME NEW r, NEW ls, ls \subseteq Link, IsFiniteSet(ls)
    PROVE  Total(r, ls) \in Nat
<1>1. IsFiniteSet(LinksOf(r, ls))
  BY FS_Subset DEF LinksOf
<1>2. \A l \in LinksOf(r, ls) : Amount[l.txn] \in Nat
  BY DEF LinksOf, Link
<1>. DEFINE g == [l \in LinksOf(r, ls) |-> Amount[l.txn]]
<1>3. \A l \in LinksOf(r, ls) : g[l] \in Nat
  BY <1>2
<1>. HIDE DEF g
<1>4. SumOf(g, LinksOf(r, ls)) \in Nat
  BY <1>1, <1>3, SumNat
<1>. QED
  BY <1>4 DEF Total, g

LEMMA TotalOfNone ==
    ASSUME NEW r, NEW ls, \A l \in ls : l.rule # r
    PROVE  Total(r, ls) = 0
<1>1. LinksOf(r, ls) = {}
  BY DEF LinksOf
<1>. QED
  BY <1>1, SumEmpty DEF Total

\* A total is of the links of its rule only.
LEMMA TotalSame ==
    ASSUME NEW r, NEW ls, NEW ms, LinksOf(r, ls) = LinksOf(r, ms)
    PROVE  Total(r, ls) = Total(r, ms)
BY DEF Total

LEMMA InvInitInv == InvInit => InvInv
<1>. SUFFICES ASSUME InvInit PROVE InvInv
  OBVIOUS
<1>1. Uncommitted = {} /\ links = {} /\ IsFiniteSet({}) /\ Cardinality({}) = 0
  BY FS_EmptySet DEF InvInit, Uncommitted
<1>2. InvTypeOK
  BY DEF InvInit, InvTypeOK
<1>3. \A t \in Txns : AutoOf(t) = {}
  BY <1>1 DEF AutoOf
<1>4. AutoPerAsk
  BY <1>1, <1>3 DEF AutoPerAsk, InvInit
<1>5. RulesHaveGoals /\ CurrentIsLinks /\ NoOrphans
  BY <1>1 DEF InvInit, RulesHaveGoals, CurrentIsLinks, NoOrphans
<1>6. \A w \in Writers : SumInHand(w)
  BY DEF InvInit, SumInHand
<1>. QED
  BY <1>1, <1>2, <1>4, <1>5, <1>6 DEF InvInv

LEMMA InvInvIsSafe == InvInv => InvestmentSafe
<1>. SUFFICES ASSUME InvInv PROVE InvestmentSafe
  OBVIOUS
<1>1. ASSUME NEW t \in Txns
      PROVE  Cardinality({l \in links : l.txn = t /\ l.source = "auto_sip"})
                <= asked[t] - waiting[t]
  <2>. DEFINE A == {l \in links : l.txn = t /\ l.source = "auto_sip"}
  <2>1. A \subseteq AutoOf(t)
    BY DEF AutoOf
  <2>2. IsFiniteSet(AutoOf(t)) /\ Cardinality(AutoOf(t)) <= asked[t] - waiting[t]
    BY DEF InvInv, AutoPerAsk
  <2>3. /\ Cardinality(A) <= Cardinality(AutoOf(t))
        /\ Cardinality(A) \in Nat /\ Cardinality(AutoOf(t)) \in Nat
    BY <2>1, <2>2, FS_Subset, FS_CardinalityType
  <2>4. asked[t] \in Nat /\ waiting[t] \in Nat
    BY DEF InvInv, InvTypeOK
  <2>. HIDE DEF A
  <2>5. Cardinality(A) <= asked[t] - waiting[t]
    BY <2>2, <2>3, <2>4
  <2>. QED
    BY <2>5 DEF A
<1>. QED
  BY <1>1 DEF InvInv, InvestmentSafe, AutoLinkedPerAsk
(***************************************************************************)
(* What a link at hand says: its rule is there and its goal is its rule's. *)
(***************************************************************************)
LEMMA InHand ==
    ASSUME InvInv, NEW w \in Writers, writer[w] # Idle
    PROVE  /\ writer[w].link \in Uncommitted /\ writer[w].link.rule = writer[w].rule
           /\ writer[w].rule \in rules /\ writer[w].link.goal \in goals
           /\ goalOf[writer[w].rule] = writer[w].link.goal /\ Held(writer[w].rule)
<1>1. writer[w].link \in Uncommitted
  BY DEF Uncommitted
<1>2. SumInHand(w)
  BY DEF InvInv
<1>3. Held(writer[w].rule)
  BY DEF Held
<1>. QED
  BY <1>1, <1>2, <1>3 DEF InvInv, NoOrphans, SumInHand

\* As long as no link is added that a job has not paid for.
LEMMA FewerAuto ==
    ASSUME InvInv, \A t \in Txns : AutoOf(t)' \subseteq AutoOf(t),
           UNCHANGED <<asked, waiting>>
    PROVE  AutoPerAsk'
<1>1. ASSUME NEW t \in Txns
      PROVE  IsFiniteSet(AutoOf(t)') /\ Cardinality(AutoOf(t)') <= asked[t] - waiting[t]
  <2>1. IsFiniteSet(AutoOf(t)) /\ Cardinality(AutoOf(t)) <= asked[t] - waiting[t]
    BY DEF InvInv, AutoPerAsk
  <2>2. /\ IsFiniteSet(AutoOf(t)') /\ Cardinality(AutoOf(t)') <= Cardinality(AutoOf(t))
        /\ Cardinality(AutoOf(t)') \in Nat /\ Cardinality(AutoOf(t)) \in Nat
    BY <2>1, FS_Subset, FS_CardinalityType
  <2>3. asked[t] \in Nat /\ waiting[t] \in Nat
    BY DEF InvInv, InvTypeOK
  <2>. QED
    BY <2>1, <2>2, <2>3
<1>. QED
  BY <1>1 DEF AutoPerAsk

(***************************************************************************)
(* Goals and rules.                                                        *)
(***************************************************************************)
\* The links and the writers stay, and the rules they name.
LEMMA RulesOnly ==
    ASSUME InvInv, InvTypeOK', UNCHANGED <<links, writer>>,
           UNCHANGED <<asked, waiting>>
    PROVE  /\ IsFiniteSet(links') /\ \A w \in Writers : SumInHand(w)'
           /\ AutoPerAsk' /\ Uncommitted' = Uncommitted
<1>1. Uncommitted' = Uncommitted
  BY DEF Uncommitted
<1>2. \A t : AutoOf(t)' = AutoOf(t)
  BY <1>1 DEF AutoOf
<1>3. AutoPerAsk'
  BY <1>2, FewerAuto
<1>4. \A w \in Writers : SumInHand(w)'
  BY DEF InvInv, SumInHand, Total, LinksOf
<1>. QED
  BY <1>1, <1>3, <1>4 DEF InvInv

LEMMA CreateGoalInv ==
    ASSUME InvInv, NEW g \in Goals, CreateGoal(g)
    PROVE  InvInv'
<1>1. InvTypeOK'
  BY DEF CreateGoal, InvInv, InvTypeOK
<1>2. RulesHaveGoals' /\ CurrentIsLinks'
  BY DEF CreateGoal, InvInv, RulesHaveGoals, CurrentIsLinks, Total, LinksOf
<1>3. NoOrphans'
  BY <1>1, RulesOnly DEF CreateGoal, InvInv, NoOrphans
<1>. QED
  BY <1>1, <1>2, <1>3, RulesOnly DEF CreateGoal, InvInv

LEMMA CreateGoalInvestmentInv ==
    ASSUME InvInv, NEW r \in Rules, NEW g \in Goals \cup {NoGoal}, NEW v \in Opening,
           CreateGoalInvestment(r, g, v)
    PROVE  InvInv'
<1>0. /\ r \notin rules /\ g \in goals \cup {NoGoal} /\ rules' = rules \cup {r}
      /\ goalOf' = [goalOf EXCEPT ![r] = g] /\ current' = [current EXCEPT ![r] = v]
      /\ drifted' = IF v = 0 THEN drifted \ {r} ELSE drifted \cup {r}
      /\ UNCHANGED <<goals, links, made, writer, asked, waiting>>
  BY DEF CreateGoalInvestment
<1>1. InvTypeOK'
  BY <1>0 DEF InvInv, InvTypeOK
<1>2. /\ goalOf'[r] = g /\ current'[r] = v
      /\ \A q \in Rules : q # r => goalOf'[q] = goalOf[q] /\ current'[q] = current[q]
  BY <1>0 DEF InvInv, InvTypeOK
<1>3. rules \subseteq Rules
  BY DEF InvInv, InvTypeOK
<1>4. RulesHaveGoals'
  BY <1>0, <1>2, <1>3 DEF InvInv, RulesHaveGoals
<1>5. \A l \in links : l.rule # r
  BY <1>0 DEF InvInv, NoOrphans
<1>6. CurrentIsLinks'
  <2>1. ASSUME NEW q \in rules', q \notin drifted' PROVE current'[q] = Total(q, links)
    <3>1. CASE q = r
      BY <1>0, <1>2, <1>5, <2>1, <3>1, TotalOfNone
    <3>2. CASE q # r
      BY <1>0, <1>2, <1>3, <2>1, <3>2 DEF InvInv, CurrentIsLinks
    <3>. QED
      BY <3>1, <3>2
  <2>2. links' = links
    BY <1>0
  <2>. QED
    BY <2>1, <2>2 DEF CurrentIsLinks, Total, LinksOf
<1>7. NoOrphans'
  <2>1. Uncommitted' = Uncommitted
    BY <1>0, <1>1, RulesOnly
  <2>2. ASSUME NEW l \in links \cup Uncommitted
        PROVE  l.rule \in rules' /\ l.goal \in goals' /\ goalOf'[l.rule] = l.goal
    <3>1. l.rule \in rules /\ l.goal \in goals /\ goalOf[l.rule] = l.goal
      BY DEF InvInv, NoOrphans
    <3>. QED
      BY <1>0, <1>2, <1>3, <3>1
  <2>. QED
    BY <1>0, <2>1, <2>2 DEF NoOrphans
<1>. QED
  BY <1>0, <1>1, <1>4, <1>6, <1>7, RulesOnly DEF InvInv

LEMMA UpdateGoalInvestmentInv ==
    ASSUME InvInv, NEW r \in Rules, NEW v \in Opening, UpdateGoalInvestment(r, v)
    PROVE  InvInv'
<1>0. /\ r \in rules /\ current' = [current EXCEPT ![r] = v]
      /\ drifted' = IF v = Total(r, links) THEN drifted \ {r} ELSE drifted \cup {r}
      /\ UNCHANGED <<goals, rules, goalOf, links, made, writer, asked, waiting>>
  BY DEF UpdateGoalInvestment
<1>1. InvTypeOK'
  BY <1>0 DEF InvInv, InvTypeOK
<1>2. \A q \in Rules : current'[q] = IF q = r THEN v ELSE current[q]
  BY <1>0 DEF InvInv, InvTypeOK
<1>3. RulesHaveGoals'
  BY <1>0 DEF InvInv, RulesHaveGoals
<1>4. \A q \in rules' \ drifted' : current'[q] = Total(q, links)
  BY <1>0, <1>2 DEF InvInv, InvTypeOK, CurrentIsLinks
<1>5. CurrentIsLinks'
  BY <1>0, <1>4 DEF CurrentIsLinks, Total, LinksOf
<1>6. NoOrphans'
  BY <1>0, <1>1, RulesOnly DEF InvInv, NoOrphans
<1>. QED
  BY <1>0, <1>1, <1>3, <1>5, <1>6, RulesOnly DEF InvInv

LEMMA DeleteGoalInvestmentInv ==
    ASSUME InvInv, NEW r \in Rules, DeleteGoalInvestment(r)
    PROVE  InvInv'
<1>0. /\ r \in rules /\ ~Held(r) /\ \A l \in links : l.rule # r
      /\ rules' = rules \ {r}
      /\ UNCHANGED <<goals, goalOf, current, links, made, writer, asked, waiting, drifted>>
  BY DEF DeleteGoalInvestment
<1>1. InvTypeOK'
  BY <1>0 DEF InvInv, InvTypeOK
<1>2. RulesHaveGoals' /\ CurrentIsLinks'
  BY <1>0 DEF InvInv, RulesHaveGoals, CurrentIsLinks, Total, LinksOf
<1>3. \A l \in Uncommitted : l.rule # r
  BY <1>0, InHand DEF Uncommitted
<1>4. NoOrphans'
  BY <1>0, <1>1, <1>3, RulesOnly DEF InvInv, NoOrphans
<1>. QED
  BY <1>0, <1>1, <1>2, <1>4, RulesOnly DEF InvInv
LEMMA DeleteGoalInv ==
    ASSUME InvInv, NEW g \in Goals, DeleteGoal(g)
    PROVE  InvInv'
<1>. DEFINE gone == {r \in rules : goalOf[r] = g}
<1>0. /\ g \in goals /\ \A r \in gone : ~Held(r)
      /\ goals' = goals \ {g} /\ rules' = rules \ gone
      /\ links' = {l \in links : l.goal # g}
      /\ UNCHANGED <<goalOf, current, made, writer, asked, waiting, drifted>>
  BY DEF DeleteGoal
<1>1. InvTypeOK' /\ IsFiniteSet(links')
  <2>1. links' \subseteq links /\ IsFiniteSet(links')
    BY <1>0, FS_Subset DEF InvInv
  <2>. QED
    BY <1>0, <2>1 DEF InvInv, InvTypeOK
<1>2. \A l \in links \cup Uncommitted : l.rule \in rules /\ goalOf[l.rule] = l.goal
  BY DEF InvInv, NoOrphans
<1>3. Uncommitted' = Uncommitted /\ \A l \in Uncommitted : l.goal # g
  <2>1. ASSUME NEW w \in Writers, writer[w] # Idle PROVE writer[w].link.goal # g
    BY <1>0, <2>1, InHand
  <2>. QED
    BY <1>0, <2>1 DEF Uncommitted
<1>4. \A r \in rules' : r \in rules /\ goalOf[r] # g
  BY <1>0
<1>5. \A r \in rules' : LinksOf(r, links') = LinksOf(r, links)
  BY <1>0, <1>2, <1>4 DEF LinksOf
<1>6. RulesHaveGoals'
  BY <1>0, <1>4, InvestmentAssumption DEF InvInv, RulesHaveGoals
<1>7. CurrentIsLinks'
  <2>1. \A r \in rules' \ drifted' : current'[r] = Total(r, links)
    BY <1>0, <1>4 DEF InvInv, CurrentIsLinks
  <2>2. \A r \in rules' : Total(r, links)' = Total(r, links)
    BY <1>5 DEF Total, LinksOf
  <2>. QED
    BY <2>1, <2>2 DEF CurrentIsLinks
<1>8. NoOrphans'
  <2>1. ASSUME NEW l \in links' \cup Uncommitted'
        PROVE  l.rule \in rules' /\ l.goal \in goals' /\ goalOf'[l.rule] = l.goal
    <3>1. l \in links \cup Uncommitted /\ l.goal # g
      BY <1>0, <1>3
    <3>. QED
      BY <1>0, <3>1 DEF InvInv, NoOrphans
  <2>. QED
    BY <2>1 DEF NoOrphans
<1>9. ASSUME NEW w \in Writers PROVE SumInHand(w)'
  <2>1. CASE writer[w] = Idle
    BY <1>0, <2>1 DEF SumInHand
  <2>2. CASE writer[w] # Idle
    <3>. DEFINE r == writer[w].rule
                k == writer[w].link
    <3>1. r \in rules' /\ k.rule = r
      BY <1>0, <2>2, InHand
    <3>2. LinksOf(r, links' \cup {k}) = LinksOf(r, links \cup {k})
      BY <1>5, <3>1 DEF LinksOf
    <3>3. Total(r, links' \cup {k}) = Total(r, links \cup {k})
      BY <3>2, TotalSame
    <3>4. SumInHand(w)
      BY DEF InvInv
    <3>5. writer'[w] = writer[w]
      BY <1>0
    <3>. QED
      BY <3>3, <3>4, <3>5 DEF SumInHand, Total, LinksOf
  <2>. QED
    BY <2>1, <2>2
<1>10. AutoPerAsk'
  <2>1. \A t \in Txns : AutoOf(t)' \subseteq AutoOf(t)
    BY <1>0, <1>3 DEF AutoOf
  <2>. QED
    BY <1>0, <2>1, FewerAuto
<1>. QED
  BY <1>1, <1>6, <1>7, <1>8, <1>9, <1>10 DEF InvInv

(***************************************************************************)
(* The writers.                                                            *)
(***************************************************************************)
LEMMA RollbackInv ==
    ASSUME InvInv, NEW w \in Writers, Rollback(w)
    PROVE  InvInv'
<1>0. /\ writer' = [writer EXCEPT ![w] = Idle]
      /\ UNCHANGED <<goals, rules, goalOf, current, links, made, asked, waiting, drifted>>
  BY DEF Rollback
<1>1. InvTypeOK'
  BY <1>0 DEF InvInv, InvTypeOK
<1>2. \A v \in Writers : writer'[v] = IF v = w THEN Idle ELSE writer[v]
  BY <1>0 DEF InvInv, InvTypeOK
<1>3. Uncommitted' \subseteq Uncommitted
  BY <1>2 DEF Uncommitted
<1>4. IsFiniteSet(links') /\ RulesHaveGoals' /\ CurrentIsLinks'
  BY <1>0 DEF InvInv, RulesHaveGoals, CurrentIsLinks, Total, LinksOf
<1>5. NoOrphans'
  BY <1>0, <1>3 DEF InvInv, NoOrphans
<1>6. ASSUME NEW v \in Writers PROVE SumInHand(v)'
  <2>1. SumInHand(v)
    BY DEF InvInv
  <2>. QED
    BY <1>0, <1>2, <2>1 DEF SumInHand, Total, LinksOf
<1>7. AutoPerAsk'
  <2>1. \A t \in Txns : AutoOf(t)' \subseteq AutoOf(t)
    BY <1>0, <1>3 DEF AutoOf
  <2>. QED
    BY <1>0, <2>1, FewerAuto
<1>. QED
  BY <1>1, <1>4, <1>5, <1>6, <1>7 DEF InvInv

LEMMA EnqueueAutoLinkInv ==
    ASSUME InvInv, NEW t \in Txns, EnqueueAutoLink(t)
    PROVE  InvInv'
<1>0. /\ asked[t] < MaxAsks /\ asked' = [asked EXCEPT ![t] = @ + 1]
      /\ waiting' = [waiting EXCEPT ![t] = @ + 1]
      /\ UNCHANGED <<goals, rules, goalOf, current, links, made, writer, drifted>>
  BY DEF EnqueueAutoLink
<1>1. \A u \in Txns : /\ asked[u] \in 0 .. MaxAsks /\ waiting[u] \in 0 .. MaxAsks
                      /\ waiting[u] <= asked[u]
  <2>1. \A u \in Txns : /\ IsFiniteSet(AutoOf(u)) /\ asked[u] \in 0 .. MaxAsks
                        /\ waiting[u] \in 0 .. MaxAsks
                        /\ Cardinality(AutoOf(u)) <= asked[u] - waiting[u]
    BY DEF InvInv, InvTypeOK, AutoPerAsk
  <2>2. \A u \in Txns : Cardinality(AutoOf(u)) \in Nat
    BY <2>1, FS_CardinalityType
  <2>. QED
    BY <2>1, <2>2
<1>2. \A u \in Txns : /\ asked'[u] = IF u = t THEN asked[u] + 1 ELSE asked[u]
                      /\ waiting'[u] = IF u = t THEN waiting[u] + 1 ELSE waiting[u]
  BY <1>0 DEF InvInv, InvTypeOK
<1>3. InvTypeOK'
  <2>1. asked[t] + 1 \in 0 .. MaxAsks /\ waiting[t] + 1 \in 0 .. MaxAsks
    BY <1>0, <1>1
  <2>. QED
    BY <1>0, <2>1 DEF InvInv, InvTypeOK
<1>4. Uncommitted' = Uncommitted
  BY <1>0 DEF Uncommitted
<1>5. AutoPerAsk'
  <2>1. \A u \in Txns : AutoOf(u)' = AutoOf(u)
    BY <1>0, <1>4 DEF AutoOf
  <2>2. \A u \in Txns : asked'[u] - waiting'[u] = asked[u] - waiting[u]
    BY <1>1, <1>2
  <2>. QED
    BY <2>1, <2>2 DEF InvInv, AutoPerAsk
<1>6. RulesHaveGoals' /\ CurrentIsLinks' /\ NoOrphans'
  BY <1>0, <1>4 DEF InvInv, RulesHaveGoals, CurrentIsLinks, NoOrphans, Total, LinksOf
<1>7. \A w \in Writers : SumInHand(w)'
  BY <1>0 DEF InvInv, SumInHand, Total, LinksOf
<1>. QED
  BY <1>0, <1>3, <1>5, <1>6, <1>7 DEF InvInv
LEMMA OneMore ==
    ASSUME NEW S, IsFiniteSet(S), NEW x
    PROVE  /\ IsFiniteSet(S \cup {x}) /\ Cardinality(S \cup {x}) \in Nat
           /\ Cardinality(S \cup {x}) <= Cardinality(S) + 1
<1>1. IsFiniteSet(S \cup {x}) /\ Cardinality(S) \in Nat
  BY FS_AddElement, FS_CardinalityType
<1>2. Cardinality(S \cup {x}) = IF x \in S THEN Cardinality(S) ELSE Cardinality(S) + 1
  BY FS_AddElement
<1>. QED
  BY <1>1, <1>2

\* The row of a link, with what its job has paid for it.
LEMMA InsertKeeps ==
    ASSUME InvInv, NEW w \in Writers, NEW r, NEW t \in Txns,
           NEW source \in {"manual", "auto_sip"}, Insert(w, r, t, source),
           UNCHANGED <<goals, rules, goalOf, current, links, asked, drifted>>,
           waiting' \in [Txns -> 0 .. MaxAsks],
           \A u \in Txns : waiting'[u] = IF u = t /\ source = "auto_sip"
                                         THEN waiting[u] - 1 ELSE waiting[u]
    PROVE  InvInv'
<1>. DEFINE link == [id |-> made', rule |-> r, goal |-> goalOf[r], txn |-> t,
                     source |-> source]
            new == [rule |-> r, link |-> link, sum |-> Total(r, links \cup {link}),
                    stale |-> FALSE]
<1>0. /\ writer[w] = Idle /\ r \in rules /\ goalOf[r] # NoGoal
      /\ made < MaxLinks /\ made' = made + 1 /\ writer' = [writer EXCEPT ![w] = new]
  BY DEF Insert
<1>1. r \in Rules /\ goalOf[r] \in goals /\ goalOf[r] \in Goals
  BY <1>0 DEF InvInv, InvTypeOK, RulesHaveGoals
<1>2. made' \in 1 .. MaxLinks
  BY <1>0 DEF InvInv, InvTypeOK
<1>3. /\ link \in Link /\ link.rule = r /\ link.goal = goalOf[r] /\ link.txn = t
      /\ link.source = source
  BY <1>1, <1>2 DEF Link
<1>4. Total(r, links \cup {link}) \in Nat
  <2>1. links \cup {link} \subseteq Link /\ IsFiniteSet(links \cup {link})
    BY <1>3, FS_AddElement DEF InvInv, InvTypeOK
  <2>. QED
    BY <2>1, TotalNat
<1>5. /\ new.rule = r /\ new.link = link /\ new.stale = FALSE /\ new # Idle
      /\ new.sum = Total(r, links \cup {link})
      /\ new \in [rule : Rules, link : Link, sum : Nat, stale : BOOLEAN]
  <2>1. new \in [rule : Rules, link : Link, sum : Nat, stale : BOOLEAN]
    BY <1>1, <1>3, <1>4
  <2>2. new.rule # Idle.rule
    BY <1>1 DEF Idle
  <2>. QED
    BY <2>1, <2>2
<1>. HIDE DEF new, link
<1>6. \A v \in Writers : writer'[v] = IF v = w THEN new ELSE writer[v]
  BY <1>0 DEF InvInv, InvTypeOK
<1>7. InvTypeOK'
  <2>1. \A v \in Writers : writer[v] \in {Idle} \cup
                              [rule : Rules, link : Link, sum : Nat, stale : BOOLEAN]
    BY DEF InvInv, InvTypeOK
  <2>2. writer' \in [Writers -> {Idle} \cup
                        [rule : Rules, link : Link, sum : Nat, stale : BOOLEAN]]
    BY <1>0, <1>5, <1>6, <2>1 DEF InvInv, InvTypeOK
  <2>3. made' \in 0 .. MaxLinks
    BY <1>2
  <2>. QED
    BY <2>2, <2>3 DEF InvInv, InvTypeOK
<1>8. Uncommitted' = Uncommitted \cup {link}
  BY <1>0, <1>5, <1>6 DEF Uncommitted
<1>9. IsFiniteSet(links') /\ RulesHaveGoals' /\ CurrentIsLinks'
  BY DEF InvInv, RulesHaveGoals, CurrentIsLinks, Total, LinksOf
<1>10. NoOrphans'
  BY <1>0, <1>1, <1>3, <1>8 DEF InvInv, NoOrphans
<1>11. ASSUME NEW v \in Writers PROVE SumInHand(v)'
  <2>1. CASE v = w
    BY <1>3, <1>5, <1>6, <2>1 DEF SumInHand, Total, LinksOf
  <2>2. CASE v # w
    <3>1. SumInHand(v) /\ writer'[v] = writer[v]
      BY <1>6, <2>2 DEF InvInv
    <3>. QED
      BY <3>1 DEF SumInHand, Total, LinksOf
  <2>. QED
    BY <2>1, <2>2
<1>12. AutoPerAsk'
  <2>1. ASSUME NEW u \in Txns
        PROVE  /\ IsFiniteSet(AutoOf(u)')
               /\ Cardinality(AutoOf(u)') <= asked'[u] - waiting'[u]
    <3>0. /\ IsFiniteSet(AutoOf(u)) /\ Cardinality(AutoOf(u)) \in Nat
          /\ Cardinality(AutoOf(u)) <= asked[u] - waiting[u]
          /\ asked[u] \in Nat /\ waiting[u] \in Nat
      BY FS_CardinalityType DEF InvInv, InvTypeOK, AutoPerAsk
    <3>1. CASE u = t /\ source = "auto_sip"
      <4>1. AutoOf(u)' = AutoOf(u) \cup {link}
        BY <1>3, <1>8, <3>1 DEF AutoOf
      <4>2. /\ IsFiniteSet(AutoOf(u) \cup {link})
            /\ Cardinality(AutoOf(u) \cup {link}) <= Cardinality(AutoOf(u)) + 1
            /\ Cardinality(AutoOf(u) \cup {link}) \in Nat
        BY <3>0, OneMore
      <4>3. waiting'[u] = waiting[u] - 1
        BY <3>1
      <4>. QED
        BY <3>0, <4>1, <4>2, <4>3
    <3>2. CASE ~(u = t /\ source = "auto_sip")
      <4>1. AutoOf(u)' = AutoOf(u)
        BY <1>3, <1>8, <3>2 DEF AutoOf
      <4>2. waiting'[u] = waiting[u]
        BY <3>2
      <4>. QED
        BY <3>0, <4>1, <4>2
    <3>. QED
      BY <3>1, <3>2
  <2>. QED
    BY <2>1 DEF AutoPerAsk
<1>. QED
  BY <1>7, <1>9, <1>10, <1>11, <1>12 DEF InvInv

LEMMA LinkTransactionInv ==
    ASSUME InvInv, NEW w \in Writers, NEW r \in Rules, NEW t \in Txns,
           LinkTransaction(w, r, t)
    PROVE  InvInv'
<1>1. waiting \in [Txns -> 0 .. MaxAsks]
  BY DEF InvInv, InvTypeOK
<1>. QED
  BY <1>1, InsertKeeps DEF LinkTransaction

LEMMA MatchAndLinkInv ==
    ASSUME InvInv, NEW w \in Writers, NEW t \in Txns, MatchAndLink(w, t)
    PROVE  InvInv'
<1>0. /\ waiting[t] > 0 /\ waiting' = [waiting EXCEPT ![t] = @ - 1]
      /\ UNCHANGED <<goals, rules, goalOf, current, links, asked, drifted>>
  BY DEF MatchAndLink
<1>1. \A u \in Txns : /\ waiting[u] \in 0 .. MaxAsks
                      /\ waiting'[u] = IF u = t THEN waiting[u] - 1 ELSE waiting[u]
  BY <1>0 DEF InvInv, InvTypeOK
<1>2. waiting' \in [Txns -> 0 .. MaxAsks]
  <2>1. waiting[t] - 1 \in 0 .. MaxAsks
    BY <1>0, <1>1
  <2>. QED
    BY <1>0, <2>1 DEF InvInv, InvTypeOK
<1>3. CASE Insert(w, Best[t], t, "auto_sip")
  <2>1. PICK source \in {"manual", "auto_sip"} : source = "auto_sip"
    OBVIOUS
  <2>2. PICK r : r = Best[t]
    OBVIOUS
  <2>3. Insert(w, r, t, source)
    BY <1>3, <2>1, <2>2
  <2>4. \A u \in Txns : waiting'[u] = IF u = t /\ source = "auto_sip"
                                      THEN waiting[u] - 1 ELSE waiting[u]
    BY <1>1, <2>1
  <2>. QED
    BY <1>0, <1>2, <2>3, <2>4, InsertKeeps
<1>4. CASE UNCHANGED <<made, writer>>
  <2>1. InvTypeOK'
    BY <1>0, <1>2, <1>4 DEF InvInv, InvTypeOK
  <2>2. Uncommitted' = Uncommitted
    BY <1>4 DEF Uncommitted
  <2>3. RulesHaveGoals' /\ CurrentIsLinks' /\ NoOrphans' /\ IsFiniteSet(links')
    BY <1>0, <2>2 DEF InvInv, RulesHaveGoals, CurrentIsLinks, NoOrphans, Total, LinksOf
  <2>4. \A v \in Writers : SumInHand(v)'
    BY <1>0, <1>4 DEF InvInv, SumInHand, Total, LinksOf
  <2>5. ASSUME NEW u \in Txns
        PROVE  IsFiniteSet(AutoOf(u)') /\ Cardinality(AutoOf(u)') <= asked'[u] - waiting'[u]
    <3>1. /\ IsFiniteSet(AutoOf(u)) /\ Cardinality(AutoOf(u)) \in Nat
          /\ Cardinality(AutoOf(u)) <= asked[u] - waiting[u] /\ asked[u] \in Nat
      BY FS_CardinalityType DEF InvInv, InvTypeOK, AutoPerAsk
    <3>2. AutoOf(u)' = AutoOf(u) /\ asked'[u] = asked[u]
      BY <1>0, <2>2 DEF AutoOf
    <3>. QED
      BY <1>1, <3>1, <3>2
  <2>6. AutoPerAsk'
    BY <2>5 DEF AutoPerAsk
  <2>. QED
    BY <2>1, <2>3, <2>4, <2>6 DEF InvInv
<1>. QED
  BY <1>3, <1>4 DEF MatchAndLink
(***************************************************************************)
(* A commit, or an unlinked transaction, at a rule makes what others have  *)
(* in hand for it old.                                                     *)
(***************************************************************************)
LEMMA OvertakeFacts ==
    ASSUME InvTypeOK, NEW r \in Rules
    PROVE  /\ \A v \in Writers :
                 /\ Overtake(r)[v] \in {Idle} \cup
                       [rule : Rules, link : Link, sum : Nat, stale : BOOLEAN]
                 /\ Overtake(r)[v] = Idle <=> writer[v] = Idle
                 /\ writer[v].rule # r => Overtake(r)[v] = writer[v]
                 /\ writer[v].rule = r => Overtake(r)[v].stale = TRUE
                 /\ writer[v] # Idle => /\ Overtake(r)[v].link = writer[v].link
                                        /\ Overtake(r)[v].rule = writer[v].rule
           /\ Overtake(r) \in [Writers -> {Idle} \cup
                       [rule : Rules, link : Link, sum : Nat, stale : BOOLEAN]]
<1>1. ASSUME NEW v \in Writers
      PROVE  /\ Overtake(r)[v] \in {Idle} \cup
                   [rule : Rules, link : Link, sum : Nat, stale : BOOLEAN]
             /\ Overtake(r)[v] = Idle <=> writer[v] = Idle
             /\ writer[v].rule # r => Overtake(r)[v] = writer[v]
             /\ writer[v].rule = r => Overtake(r)[v].stale = TRUE
             /\ writer[v] # Idle => /\ Overtake(r)[v].link = writer[v].link
                                    /\ Overtake(r)[v].rule = writer[v].rule
  <2>1. CASE writer[v].rule # r
    <3>1. Overtake(r)[v] = writer[v]
      BY <2>1 DEF Overtake
    <3>. QED
      BY <2>1, <3>1 DEF InvTypeOK
  <2>2. CASE writer[v].rule = r
    <3>1. writer[v] # Idle
      BY <2>2, WriterType
    <3>2. writer[v] \in [rule : Rules, link : Link, sum : Nat, stale : BOOLEAN]
      BY <3>1, WriterType
    <3>3. Overtake(r)[v] = [writer[v] EXCEPT !.stale = TRUE]
      BY <2>2 DEF Overtake
    <3>4. /\ Overtake(r)[v] \in [rule : Rules, link : Link, sum : Nat, stale : BOOLEAN]
          /\ Overtake(r)[v].stale = TRUE /\ Overtake(r)[v].link = writer[v].link
          /\ Overtake(r)[v].rule = writer[v].rule
      BY <3>2, <3>3
    <3>5. Overtake(r)[v].rule # Idle.rule
      BY <2>2, <3>4 DEF Idle
    <3>. QED
      BY <2>2, <3>1, <3>4, <3>5
  <2>. QED
    BY <2>1, <2>2
<1>2. Overtake(r) = [v \in Writers |-> Overtake(r)[v]]
  BY DEF Overtake
<1>. QED
  BY <1>1, <1>2

\* The sums of the others, after the links of rule r have changed.
LEMMA OthersInHand ==
    ASSUME InvInv, NEW r \in Rules, NEW v \in Writers, writer'[v] = Overtake(r)[v],
           \A q : q # r => LinksOf(q, links') = LinksOf(q, links)
    PROVE  SumInHand(v)'
<1>0. SumInHand(v) /\ InvTypeOK
  BY DEF InvInv
<1>1. CASE writer[v].rule = r
  <2>1. writer[v] # Idle
    BY <1>0, <1>1, WriterType
  <2>2. /\ Overtake(r)[v].stale = TRUE /\ Overtake(r)[v].link = writer[v].link
        /\ Overtake(r)[v].rule = writer[v].rule
    BY <1>0, <1>1, <2>1, OvertakeFacts
  <2>3. /\ writer'[v].stale = TRUE /\ writer'[v].link = writer[v].link
        /\ writer'[v].rule = writer[v].rule
    BY <2>2
  <2>. QED
    BY <1>0, <2>1, <2>3 DEF SumInHand
<1>2. CASE writer[v].rule # r /\ writer[v] = Idle
  <2>1. writer'[v] = Idle
    BY <1>0, <1>2, OvertakeFacts
  <2>. QED
    BY <2>1 DEF SumInHand
<1>3. CASE writer[v].rule # r /\ writer[v] # Idle
  <2>. DEFINE q == writer[v].rule
              k == writer[v].link
  <2>1. writer'[v] = writer[v]
    BY <1>0, <1>3, OvertakeFacts
  <2>2. LinksOf(q, links' \cup {k}) = LinksOf(q, links \cup {k})
    <3>1. LinksOf(q, links') = LinksOf(q, links)
      BY <1>3
    <3>2. \A ls : LinksOf(q, ls \cup {k}) = LinksOf(q, ls) \cup LinksOf(q, {k})
      BY DEF LinksOf
    <3>. QED
      BY <3>1, <3>2
  <2>3. Total(q, links' \cup {k}) = Total(q, links \cup {k})
    BY <2>2, TotalSame
  <2>. QED
    BY <1>0, <2>1, <2>3 DEF SumInHand, Total, LinksOf
<1>. QED
  BY <1>1, <1>2, <1>3

LEMMA CommitInv ==
    ASSUME InvInv, NEW w \in Writers, Commit(w)
    PROVE  InvInv'
<1>. DEFINE r == writer[w].rule
            k == writer[w].link
<1>0. /\ writer[w] # Idle /\ links' = links \cup {k}
      /\ current' = [current EXCEPT ![r] = writer[w].sum]
      /\ drifted' = IF writer[w].stale THEN drifted \cup {r} ELSE drifted \ {r}
      /\ writer' = [Overtake(r) EXCEPT ![w] = Idle]
      /\ UNCHANGED <<goals, rules, goalOf, made, asked, waiting>>
  BY DEF Commit
<1>1. /\ r \in Rules /\ k \in Link /\ k.rule = r /\ k \in Uncommitted
      /\ writer[w].sum \in Nat /\ r \in rules /\ InvTypeOK
  BY <1>0, WriterType, InHand DEF InvInv
<1>. HIDE DEF r, k
<1>11. Overtake(r) \in [Writers -> {Idle} \cup
                          [rule : Rules, link : Link, sum : Nat, stale : BOOLEAN]]
  BY <1>1, OvertakeFacts
<1>2. \A v \in Writers : writer'[v] = IF v = w THEN Idle ELSE Overtake(r)[v]
  BY <1>0, <1>11
<1>3. InvTypeOK' /\ IsFiniteSet(links')
  <2>1. writer' \in [Writers -> {Idle} \cup
                        [rule : Rules, link : Link, sum : Nat, stale : BOOLEAN]]
    BY <1>0, <1>11
  <2>2. IsFiniteSet(links')
    BY <1>0, FS_AddElement DEF InvInv
  <2>. QED
    BY <1>0, <1>1, <2>1, <2>2 DEF InvInv, InvTypeOK
<1>4. \A q : q # r => LinksOf(q, links') = LinksOf(q, links)
  BY <1>0, <1>1 DEF LinksOf
<1>5. links' \cup Uncommitted' \subseteq links \cup Uncommitted
  <2>1. ASSUME NEW v \in Writers, writer'[v] # Idle
        PROVE  writer'[v].link \in Uncommitted
    <3>0. v # w /\ writer'[v] = Overtake(r)[v]
      BY <1>2, <2>1
    <3>1. writer[v] # Idle /\ Overtake(r)[v].link = writer[v].link
      BY <1>1, <2>1, <3>0, OvertakeFacts
    <3>. QED
      BY <3>0, <3>1, InHand
  <2>2. Uncommitted' \subseteq Uncommitted
    BY <2>1 DEF Uncommitted
  <2>. QED
    BY <1>0, <1>1, <2>2
<1>6. RulesHaveGoals'
  BY <1>0 DEF InvInv, RulesHaveGoals
<1>7. CurrentIsLinks'
  <2>1. ASSUME NEW q \in rules, q \notin drifted' PROVE current'[q] = Total(q, links')
    <3>1. CASE q = r
      <4>1. ~writer[w].stale
        BY <1>0, <2>1, <3>1
      <4>2. writer[w].sum = Total(r, links \cup {k})
        BY <1>0, <4>1 DEF InvInv, SumInHand, r, k
      <4>3. current'[r] = writer[w].sum
        BY <1>0, <1>1 DEF InvTypeOK
      <4>. QED
        BY <1>0, <3>1, <4>2, <4>3
    <3>2. CASE q # r
      <4>1. current'[q] = current[q] /\ q \notin drifted
        BY <1>0, <1>1, <2>1, <3>2 DEF InvTypeOK
      <4>2. current[q] = Total(q, links)
        BY <4>1 DEF InvInv, CurrentIsLinks
      <4>3. Total(q, links') = Total(q, links)
        BY <1>4, <3>2, TotalSame
      <4>. QED
        BY <4>1, <4>2, <4>3
    <3>. QED
      BY <3>1, <3>2
  <2>2. rules' = rules
    BY <1>0
  <2>. QED
    BY <2>1, <2>2 DEF CurrentIsLinks, Total, LinksOf
<1>8. NoOrphans'
  BY <1>0, <1>5 DEF InvInv, NoOrphans
<1>9. ASSUME NEW v \in Writers PROVE SumInHand(v)'
  <2>1. CASE v = w
    BY <1>2, <2>1 DEF SumInHand
  <2>2. CASE v # w
    BY <1>1, <1>2, <1>4, <2>2, OthersInHand
  <2>. QED
    BY <2>1, <2>2
<1>10. AutoPerAsk'
  <2>1. \A t \in Txns : AutoOf(t)' \subseteq AutoOf(t)
    BY <1>5 DEF AutoOf
  <2>. QED
    BY <1>0, <2>1, FewerAuto
<1>. QED
  BY <1>3, <1>6, <1>7, <1>8, <1>9, <1>10 DEF InvInv

LEMMA UnlinkTransactionInv ==
    ASSUME InvInv, NEW l \in links, UnlinkTransaction(l)
    PROVE  InvInv'
<1>. DEFINE r == l.rule
<1>0. /\ links' = links \ {l} /\ drifted' = drifted \cup {r} /\ writer' = Overtake(r)
      /\ UNCHANGED <<goals, rules, goalOf, current, made, asked, waiting>>
  BY DEF UnlinkTransaction
<1>1. r \in Rules /\ InvTypeOK
  BY DEF InvInv, InvTypeOK, Link
<1>3. InvTypeOK' /\ IsFiniteSet(links')
  <2>1. writer' \in [Writers -> {Idle} \cup
                        [rule : Rules, link : Link, sum : Nat, stale : BOOLEAN]]
    BY <1>0, <1>1, OvertakeFacts
  <2>2. IsFiniteSet(links')
    BY <1>0, FS_RemoveElement DEF InvInv
  <2>. QED
    BY <1>0, <1>1, <2>1, <2>2 DEF InvInv, InvTypeOK
<1>4. \A q : q # r => LinksOf(q, links') = LinksOf(q, links)
  BY <1>0 DEF LinksOf
<1>5. links' \cup Uncommitted' \subseteq links \cup Uncommitted
  <2>1. ASSUME NEW v \in Writers, writer'[v] # Idle
        PROVE  writer'[v].link \in Uncommitted
    <3>1. writer[v] # Idle /\ writer'[v].link = writer[v].link
      BY <1>0, <1>1, <2>1, OvertakeFacts
    <3>. QED
      BY <3>1, InHand
  <2>2. Uncommitted' \subseteq Uncommitted
    BY <2>1 DEF Uncommitted
  <2>. QED
    BY <1>0, <2>2
<1>6. RulesHaveGoals'
  BY <1>0 DEF InvInv, RulesHaveGoals
<1>7. CurrentIsLinks'
  <2>1. ASSUME NEW q \in rules, q \notin drifted' PROVE current'[q] = Total(q, links')
    <3>1. q # r /\ q \notin drifted /\ current'[q] = current[q]
      BY <1>0, <2>1
    <3>2. current[q] = Total(q, links)
      BY <3>1 DEF InvInv, CurrentIsLinks
    <3>3. Total(q, links') = Total(q, links)
      BY <1>4, <3>1, TotalSame
    <3>. QED
      BY <3>1, <3>2, <3>3
  <2>2. rules' = rules
    BY <1>0
  <2>. QED
    BY <2>1, <2>2 DEF CurrentIsLinks, Total, LinksOf
<1>8. NoOrphans'
  BY <1>0, <1>5 DEF InvInv, NoOrphans
<1>9. \A v \in Writers : SumInHand(v)'
  BY <1>0, <1>1, <1>4, OthersInHand
<1>10. AutoPerAsk'
  <2>1. \A t \in Txns : AutoOf(t)' \subseteq AutoOf(t)
    BY <1>5 DEF AutoOf
  <2>. QED
    BY <1>0, <2>1, FewerAuto
<1>. QED
  BY <1>3, <1>6, <1>7, <1>8, <1>9, <1>10 DEF InvInv

LEMMA InvNextInv == InvInv /\ [InvNext]_invVars => InvInv'
<1>. SUFFICES ASSUME InvInv, [InvNext]_invVars PROVE InvInv'
  OBVIOUS
<1>1. ASSUME NEW g \in Goals, CreateGoal(g) \/ DeleteGoal(g) PROVE InvInv'
  BY <1>1, CreateGoalInv, DeleteGoalInv
<1>2. ASSUME NEW r \in Rules,
             \/ \E g \in Goals \cup {NoGoal}, v \in Opening : CreateGoalInvestment(r, g, v)
             \/ \E v \in Opening : UpdateGoalInvestment(r, v)
             \/ DeleteGoalInvestment(r)
      PROVE  InvInv'
  BY <1>2, CreateGoalInvestmentInv, UpdateGoalInvestmentInv, DeleteGoalInvestmentInv
<1>3. ASSUME NEW w \in Writers,
             \/ \E r \in Rules, t \in Txns : LinkTransaction(w, r, t)
             \/ \E t \in Txns : MatchAndLink(w, t)
             \/ Commit(w) \/ Rollback(w)
      PROVE  InvInv'
  BY <1>3, LinkTransactionInv, MatchAndLinkInv, CommitInv, RollbackInv
<1>4. ASSUME NEW l \in links, UnlinkTransaction(l) PROVE InvInv'
  BY <1>4, UnlinkTransactionInv
<1>5. ASSUME NEW t \in Txns, EnqueueAutoLink(t) PROVE InvInv'
  BY <1>5, EnqueueAutoLinkInv
<1>6. CASE UNCHANGED invVars
  <2>1. UNCHANGED <<goals, rules, goalOf, current, links, made, writer, asked, waiting,
                    drifted>>
    BY <1>6 DEF invVars
  <2>2. InvTypeOK'
    BY <2>1 DEF InvInv, InvTypeOK
  <2>3. RulesHaveGoals' /\ CurrentIsLinks' /\ NoOrphans'
    BY <2>1, <2>2, RulesOnly
       DEF InvInv, RulesHaveGoals, CurrentIsLinks, NoOrphans, Total, LinksOf
  <2>. QED
    BY <2>1, <2>2, <2>3, RulesOnly DEF InvInv
<1>. QED
  BY <1>1, <1>2, <1>3, <1>4, <1>5, <1>6 DEF InvNext

(***************************************************************************)
(* However many writers overlap, whatever is deleted between the two       *)
(* halves of a link and however often a job runs: a rule that nothing has  *)
(* drifted holds the sum of its links, no link outlives its rule or goal,  *)
(* and a job links a transaction once for each time it was asked to        *)
(* (LinkTransaction, UnlinkTransaction, MatchAndLink, the foreign keys).   *)
(***************************************************************************)
THEOREM InvestmentIsSafe == InvSpec => []InvestmentSafe
<1>1. InvInit => InvInv
  BY InvInitInv
<1>2. InvInv /\ [InvNext]_invVars => InvInv'
  BY InvNextInv
<1>3. InvInv => InvestmentSafe
  BY InvInvIsSafe
<1>. QED
  BY <1>1, <1>2, <1>3, PTL DEF InvSpec
=============================================================================
