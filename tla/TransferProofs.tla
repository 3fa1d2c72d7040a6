--------------------------- MODULE TransferProofs ---------------------------
(***************************************************************************)
(* Theorems about Transfer for files of any sizes and any number of        *)
(* connections, requests and pushes, however TCP cuts and glues, of users  *)
(* who wait for the answer before the next request (Patient).  What is said*)
(* of downloads also needs that Book's recived_, which nothing initialises,*)
(* happens to be 0 (CleanHeap).                                            *)
(*                                                                         *)
(* A file of another size than was read in its announcement takes what it  *)
(* says from the rest of the connection: the invariants hold as long as    *)
(* miscounted has not the way that they are about, and begin anew with the *)
(* next connection (Begin), of which Ended is all there is to know.        *)
(***************************************************************************)
EXTENDS Transfer, SequenceTheorems, TLAPS

CleanHeap == HeapValues \subseteq {0}

Kinds == Requests \cup Answers \cup {"byte"}
Tokens == [kind : Kinds, size : Nat, by : Nat, part : 0 .. 2]

Typed ==
    /\ link \in {"open", "closing", "closed"}
    /\ conn \in Nat
    /\ toServer \in Seq(Tokens) /\ toClient \in Seq(Tokens)
    /\ recvbuf \in Seq(Tokens)
    /\ parsing \in BOOLEAN /\ refused \in BOOLEAN /\ garbled \in BOOLEAN
    /\ upload \in [active : BOOLEAN, total : Nat, received : Nat]
    /\ stored \in [by : Nat, size : Nat, data : Seq(Tokens)]
    /\ inbox \in Seq(Tokens)
    /\ reading \in {"no", "loop", "dialog"}
    /\ download \in [active : BOOLEAN, total : Nat, received : Nat, open : BOOLEAN]
    /\ saved \in Seq(Tokens)
    /\ timer \subseteq Sizes
    /\ waiting \in Requests \cup {"none"}
    /\ confused \in BOOLEAN
    /\ miscounted \subseteq {"upload", "download"}

\* What is between the two parsers, however much of it has arrived.
Up == recvbuf \o toServer
Down == inbox \o toClient

\* The headers of the PDUs by which requests are answered: what s has of them.
IsAnswer(t) == IsHeader(t) /\ t.kind # "push"
Silent(s) == \A i \in 1 .. Len(s) : ~IsAnswer(s[i])
OneAnswer(s) == \A i, j \in 1 .. Len(s) : IsAnswer(s[i]) /\ IsAnswer(s[j]) => i = j
AnswerTo(t, w) == \/ t.kind = "reply" /\ w = "ask"
                  \/ t.kind = "upload_ok" /\ w = "upload"
                  \/ t.kind = "download_rsp" /\ w = "download"
Fits(s, w) == \A i \in 1 .. Len(s) : IsAnswer(s[i]) => AnswerTo(s[i], w)

\* r is what s was, as far as answers go, or has fewer of them.
NoMore(r, s) == /\ Silent(s) => Silent(r)
                /\ OneAnswer(s) => OneAnswer(r)
                /\ \A w : Fits(s, w) => Fits(r, w)

\* Where the one request of a user who waits can be.  The server has nothing
\* more to read ...
Served == Up = << >> /\ ~upload.active /\ timer = {}

\* ... or the request is not answered:
Unanswered == Silent(Down) /\ ~download.active /\ link # "closed"

\* it is a PDU on its way,
IsSent == /\ \E k \in {"ask", "download"}, n \in Nat : Up = Pdu(k, n) /\ waiting = k
          /\ ~upload.active /\ timer = {}
          /\ Unanswered

\* a PDU and the file behind it, now or in a second,
Announced(n) ==
    /\ Up = Pdu("upload", n) \o (IF timer = {} THEN FileBytes(n) ELSE << >>)
    /\ timer \in {{}, {n}}
    /\ ~upload.active
    /\ waiting = "upload" /\ Unanswered

\* the rest of a file,
Uploading ==
    /\ upload.active /\ recvbuf = << >>
    /\ timer \in {{}, {upload.total}}
    /\ stored.by = conn /\ stored.size = upload.total /\ Len(stored.data) = upload.received
    /\ stored.data \o toServer = IF timer = {} THEN FileBytes(upload.total) ELSE << >>
    /\ waiting = "upload" /\ Unanswered

\* or a file that the server does not expect, having failed to open it.
IsRefused ==
    /\ refused
    /\ \A i \in 1 .. Len(Up) : ~IsHeader(Up[i])
    /\ ~upload.active
    /\ waiting = "upload" /\ Unanswered

Requested == link # "closed" =>
    /\ Served \/ IsSent \/ (\E n \in Sizes : Announced(n)) \/ Uploading \/ IsRefused
    /\ refused => IsRefused

\* What handleClose leaves: at most an upload, and the file of it.
Ended ==
    /\ link # "open" => timer = {}
    /\ link = "closed" =>
          /\ toServer = << >> /\ toClient = << >> /\ recvbuf = << >>
          /\ ~parsing /\ ~refused /\ ~garbled

\* At most one answer is on its way, to the request that the user waits for,
\* and a file that is being received is one, too.
Answered ==
    /\ OneAnswer(Down) /\ Fits(Down, waiting)
    /\ Silent(Down) \/ (Served /\ ~download.active)
    /\ download.active => Served /\ Silent(Down) /\ waiting = "download"
    /\ reading = "dialog" => download.active

Aligned == garbled => refused
StoredWhole ==
    ~upload.active =>
        /\ Len(stored.data) = stored.size
        /\ \A i \in 1 .. stored.size :
              stored.data[i] = [kind |-> "byte", size |-> i, by |-> stored.by, part |-> 0]

UpInv == Typed /\ Ended /\ Requested /\ Answered /\ Aligned /\ StoredWhole
UpSame == UNCHANGED <<garbled, refused, upload, stored>>

\* A file follows its announcement at once and whole, ...
IsByte(t, i) == t.kind = "byte" /\ t.size = i
FollowedIn(s) ==
    \A i \in 1 .. Len(s) : IsHeader(s[i]) /\ s[i].kind = "download_rsp" =>
        /\ i + 1 + s[i].size <= Len(s)
        /\ \A j \in 1 .. s[i].size : IsByte(s[i + 1 + j], j)
Followed == link # "closed" => FollowedIn(Down)

\* ... and what has been saved, if it can be, is its beginning.
Begins(s, n) == n <= Len(s) /\ \A i \in 1 .. n : IsByte(s[i], i)
Filling ==
    link # "closed" /\ download.active =>
        /\ download.total <= download.received + Len(Down)
        /\ download.open =>
              download.received = Len(saved) /\ Begins(saved \o Down, download.total)

Counted == ~download.active => download.received = 0

SavedWhole ==
    reading = "dialog" /\ download.open =>
        /\ Len(saved) = download.total
        /\ \A i \in 1 .. Len(saved) : saved[i].kind = "byte" /\ saved[i].size = i

DownInv == Followed /\ Filling /\ Counted /\ SavedWhole

\* The two actions with a parameter that is of no use to most steps.
AnswerDownload == \E sent \in Sizes : HandleDownloadFile(sent)
TakePdu == \E opens \in BOOLEAN : RecvPdu(opens)
-----------------------------------------------------------------------------
(* Sequences, cut and glued.                                               *)

LEMMA Cut ==
    ASSUME NEW S, NEW s \in Seq(S), NEW n \in 1 .. Len(s)
    PROVE  /\ SubSeq(s, 1, n) \in Seq(S) /\ Len(SubSeq(s, 1, n)) = n
           /\ SubSeq(s, n + 1, Len(s)) \in Seq(S)
           /\ SubSeq(s, 1, n) \o SubSeq(s, n + 1, Len(s)) = s
<1>1. Len(s) \in Nat  BY LenProperties
<1>2. n \in Int /\ n + 1 \in Int /\ Len(s) \in Int /\ n \in Nat /\ 1 <= n /\ n <= Len(s)
  BY <1>1
<1>3. /\ \A i \in 1 .. n : s[i] \in S
      /\ \A i \in n + 1 .. Len(s) : s[i] \in S
  BY <1>1, <1>2, ElementOfSeq
<1>4. SubSeq(s, 1, n) \in Seq(S) /\ Len(SubSeq(s, 1, n)) = n
  BY <1>2, <1>3, SubSeqProperties
<1>5. SubSeq(s, n + 1, Len(s)) \in Seq(S)  BY <1>2, <1>3, SubSeqProperties
<1>6. SubSeq(s, 1, n) \o SubSeq(s, n + 1, Len(s)) = SubSeq(s, 1, Len(s))
  <2>1. 1 \in 1 .. Len(s) + 1 /\ n \in 1 - 1 .. Len(s) /\ Len(s) \in n .. Len(s)  BY <1>1, <1>2
  <2>2. QED  BY <2>1, ConcatAdjacentSubSeq
<1>7. QED  BY <1>4, <1>5, <1>6, SubSeqFull

Join(a, b) == a \o b

LEMMA Regrouped ==
    ASSUME NEW S, NEW a \in Seq(S), NEW b \in Seq(S), NEW c \in Seq(S)
    PROVE  Join(Join(a, b), c) = Join(a, Join(b, c))
  BY ConcatAssociative DEF Join

\* What has arrived and what has not are the same stream, wherever it is cut.
LEMMA Moved ==
    ASSUME NEW S, NEW a \in Seq(S), NEW s \in Seq(S), NEW n \in 1 .. Len(s)
    PROVE  (a \o SubSeq(s, 1, n)) \o SubSeq(s, n + 1, Len(s)) = a \o s
<1> DEFINE b == SubSeq(s, 1, n)
           c == SubSeq(s, n + 1, Len(s))
<1>1. b \in Seq(S) /\ c \in Seq(S) /\ Join(b, c) = s  BY Cut DEF Join
<1> HIDE DEF b, c
<1>2. Join(Join(a, b), c) = Join(a, s)  BY <1>1, Regrouped
<1>3. QED  BY <1>2 DEF Join, b, c

LEMMA Glued ==
    ASSUME NEW S, NEW s \in Seq(S), NEW t \in Seq(S)
    PROVE  /\ s \o t \in Seq(S) /\ Len(s \o t) = Len(s) + Len(t)
           /\ Len(s) \in Nat /\ Len(t) \in Nat
           /\ \A i \in 1 .. Len(s) : (s \o t)[i] = s[i]
           /\ \A i \in 1 .. Len(t) : (s \o t)[Len(s) + i] = t[i]
           /\ \A i \in 1 .. Len(s) + Len(t) :
                 i \in 1 .. Len(s) \/ (i - Len(s) \in 1 .. Len(t) /\ (s \o t)[i] = t[i - Len(s)])
<1>1. Len(s) \in Nat /\ Len(t) \in Nat  BY LenProperties
<1>2. /\ s \o t \in Seq(S) /\ Len(s \o t) = Len(s) + Len(t)
      /\ \A i \in 1 .. Len(s) + Len(t) :
            (s \o t)[i] = IF i <= Len(s) THEN s[i] ELSE t[i - Len(s)]
  BY ConcatProperties
<1>3. \A i \in 1 .. Len(s) : i \in 1 .. Len(s) + Len(t) /\ i <= Len(s)  BY <1>1
<1>4. ASSUME NEW i \in 1 .. Len(t)
      PROVE  /\ Len(s) + i \in 1 .. Len(s) + Len(t) /\ ~(Len(s) + i <= Len(s))
             /\ (Len(s) + i) - Len(s) = i
  BY <1>1
<1>5. \A i \in 1 .. Len(s) + Len(t) :
        i \in 1 .. Len(s) \/ (i - Len(s) \in 1 .. Len(t) /\ ~(i <= Len(s)))
  BY <1>1
<1>6. QED  BY <1>1, <1>2, <1>3, <1>4, <1>5

LEMMA Empty == ASSUME NEW S, NEW s \in Seq(S)
    PROVE  /\ s = << >> <=> Len(s) = 0
           /\ s # << >> => Len(s) >= 1 /\ Head(s) = s[1]
           /\ s \o << >> = s /\ << >> \o s = s /\ << >> \in Seq(S)
<1>1. Len(s) \in Nat /\ (s # << >> => Len(s) \in Nat \ {0})  BY LenProperties, EmptySeq
<1>2. s = << >> => Len(s) = 0  BY EmptySeq
<1>3. s # << >> => Head(s) = s[1]  OBVIOUS
<1>4. QED  BY <1>1, <1>2, <1>3, ConcatEmptySeq, EmptySeq

\* A parser takes two tokens from the front of the stream.
LEMMA TakenTwo ==
    ASSUME NEW S, NEW r \in Seq(S), NEW s \in Seq(S), Len(r) >= 2
    PROVE  /\ SubSeq(r, 3, Len(r)) \in Seq(S) /\ SubSeq(r, 3, Len(r)) \o s \in Seq(S)
           /\ Len(SubSeq(r, 3, Len(r)) \o s) = Len(r \o s) - 2
           /\ \A i \in 1 .. Len(r \o s) - 2 :
                 (SubSeq(r, 3, Len(r)) \o s)[i] = (r \o s)[i + 2]
           /\ Head(r) = (r \o s)[1]
           /\ r \o s \in Seq(S) /\ Len(r \o s) \in Nat /\ Len(r \o s) >= 2
<1> DEFINE rest == SubSeq(r, 3, Len(r))
<1>1. Len(r) \in Nat /\ Len(s) \in Nat /\ 3 \in Int /\ Len(r) \in Int  BY LenProperties
<1>2. \A i \in 3 .. Len(r) : s = s /\ r[i] \in S  BY <1>1, ElementOfSeq
<1>3. /\ rest \in Seq(S)
      /\ Len(rest) = IF 3 <= Len(r) THEN Len(r) - 3 + 1 ELSE 0
      /\ \A i \in 1 .. Len(r) - 3 + 1 : rest[i] = r[3 + i - 1]
  BY <1>1, <1>2, SubSeqProperties
<1> HIDE DEF rest
<1>4. Len(rest) = Len(r) - 2 /\ \A i \in 1 .. Len(rest) : rest[i] = r[i + 2]
  <2>1. Len(rest) = Len(r) - 2
    <3>1. CASE Len(r) = 2  BY <1>1, <1>3, <3>1
    <3>2. CASE Len(r) # 2
      <4>1. 3 <= Len(r)  BY <1>1, <3>2
      <4>2. QED  BY <1>1, <1>3, <4>1
    <3>3. QED  BY <3>1, <3>2
  <2>2. ASSUME NEW i \in 1 .. Len(rest) PROVE rest[i] = r[i + 2]
    <3>1. i \in 1 .. Len(r) - 3 + 1 /\ 3 + i - 1 = i + 2  BY <1>1, <2>1
    <3>2. QED  BY <1>3, <3>1
  <2>3. QED  BY <2>1, <2>2
<1>5. /\ rest \o s \in Seq(S) /\ Len(rest \o s) = Len(rest) + Len(s)
      /\ r \o s \in Seq(S) /\ Len(r \o s) = Len(r) + Len(s)
  <2>1. rest \o s \in Seq(S) /\ Len(rest \o s) = Len(rest) + Len(s)
    BY ONLY <1>3, s \in Seq(S), Glued
  <2>2. r \o s \in Seq(S) /\ Len(r \o s) = Len(r) + Len(s)
    BY ONLY r \in Seq(S), s \in Seq(S), Glued
  <2>3. QED  BY <2>1, <2>2
<1>6. ASSUME NEW i \in 1 .. Len(r \o s) - 2 PROVE (rest \o s)[i] = (r \o s)[i + 2]
  <2>1. CASE i \in 1 .. Len(rest)
    <3>1. i + 2 \in 1 .. Len(r)  BY <1>1, <1>4, <2>1
    <3>2. (r \o s)[i + 2] = r[i + 2]  BY <3>1, Glued
    <3>3. (rest \o s)[i] = rest[i]  BY <1>3, <2>1, Glued
    <3>4. QED  BY <1>4, <2>1, <3>2, <3>3
  <2>2. CASE i \notin 1 .. Len(rest)
    <3>1. /\ i \in 1 .. Len(rest) + Len(s) /\ i + 2 \in 1 .. Len(r) + Len(s)
          /\ i + 2 \notin 1 .. Len(r) /\ (i + 2) - Len(r) = i - Len(rest)
      BY <1>1, <1>4, <1>5, <2>2
    <3>2. (rest \o s)[i] = s[i - Len(rest)]  BY <1>3, <2>2, <3>1, Glued
    <3>3. (r \o s)[i + 2] = s[(i + 2) - Len(r)]  BY <3>1, Glued
    <3>4. QED  BY <3>1, <3>2, <3>3
  <2>3. QED  BY <2>1, <2>2
<1>7. Head(r) = (r \o s)[1]
  <2>1. 1 \in 1 .. Len(r) /\ r # << >>  BY <1>1, Empty
  <2>2. QED  BY <2>1, Empty, Glued
<1>8. QED  BY <1>1, <1>3, <1>4, <1>5, <1>6, <1>7 DEF rest

\* If the stream is a PDU p and f behind it, what is left is f.
LEMMA PduTaken ==
    ASSUME NEW S, NEW r \in Seq(S), NEW s \in Seq(S), NEW p \in Seq(S), NEW f \in Seq(S),
           Len(r) >= 2, Len(p) = 2, r \o s = p \o f
    PROVE  SubSeq(r, 3, Len(r)) \o s = f /\ Head(r) = p[1]
<1> DEFINE t == SubSeq(r, 3, Len(r)) \o s
<1>1. /\ t \in Seq(S) /\ Len(t) = Len(r \o s) - 2
      /\ \A i \in 1 .. Len(r \o s) - 2 : t[i] = (r \o s)[i + 2]
      /\ Head(r) = (r \o s)[1]
  <2>1. Len(r) >= 2  OBVIOUS
  <2>2. QED  BY ONLY <2>1, r \in Seq(S), s \in Seq(S), TakenTwo
<1>2. /\ Len(p \o f) = Len(p) + Len(f) /\ Len(f) \in Nat
      /\ \A i \in 1 .. Len(p) : (p \o f)[i] = p[i]
      /\ \A i \in 1 .. Len(f) : (p \o f)[Len(p) + i] = f[i]
  BY ONLY p \in Seq(S), f \in Seq(S), Glued
<1> HIDE DEF t
<1>3. Len(t) = Len(f) /\ \A i \in 1 .. Len(t) : t[i] = f[i]
  <2>1. Len(t) = Len(f)  BY <1>1, <1>2
  <2>2. ASSUME NEW i \in 1 .. Len(t) PROVE t[i] = f[i]
    <3>1. i \in 1 .. Len(r \o s) - 2 /\ i \in 1 .. Len(f) /\ i + 2 = 2 + i  BY <1>1, <1>2, <2>1
    <3>2. t[i] = (r \o s)[i + 2]  BY <1>1, <3>1
    <3>3. (p \o f)[Len(p) + i] = f[i]  BY <1>2, <3>1
    <3>4. Len(p) + i = i + 2  BY <3>1
    <3>5. QED  BY <3>2, <3>3, <3>4
  <2>3. QED  BY <2>1, <2>2
<1>4. t = f  BY <1>1, <1>3, SeqEqual
<1>5. Head(r) = p[1]
  <2>1. 1 \in 1 .. Len(p)  OBVIOUS
  <2>2. QED  BY <1>1, <1>2, <2>1
<1>6. QED  BY <1>4, <1>5 DEF t
-----------------------------------------------------------------------------
(* What is sent.                                                           *)

LEMMA PduIs ==
    ASSUME Typed, NEW k \in Kinds, NEW n \in Nat
    PROVE  /\ Pdu(k, n) \in Seq(Tokens) /\ Len(Pdu(k, n)) = 2
           /\ Pdu(k, n)[1].kind = k /\ Pdu(k, n)[1].size = n
           /\ IsHeader(Pdu(k, n)[1]) /\ ~IsHeader(Pdu(k, n)[2])
  BY DEF Typed, Pdu, Tokens, IsHeader

LEMMA FileIs ==
    ASSUME Typed, NEW n \in Nat
    PROVE  /\ FileBytes(n) \in Seq(Tokens) /\ Len(FileBytes(n)) = n
           /\ \A i \in 1 .. n :
                 /\ FileBytes(n)[i] = [kind |-> "byte", size |-> i, by |-> conn, part |-> 0]
                 /\ ~IsHeader(FileBytes(n)[i])
<1>1. ASSUME NEW i \in 1 .. n
      PROVE  [kind |-> "byte", size |-> i, by |-> conn, part |-> 0] \in Tokens
  BY DEF Typed, Tokens, Kinds
<1>2. FileBytes(n) \in [1 .. n -> Tokens]  BY <1>1 DEF FileBytes
<1>3. FileBytes(n) \in Seq(Tokens) /\ Len(FileBytes(n)) = n  BY <1>2, SeqDef, LenProperties
<1>4. QED  BY <1>3 DEF FileBytes, IsHeader

\* A file is written from the front; when as much is there as it has bytes,
\* it is the file.
LEMMA Writing ==
    ASSUME Typed, NEW n \in Nat, NEW d \in Seq(Tokens), NEW r \in Seq(Tokens), d # << >>,
           d \o r = IF timer = {} THEN FileBytes(n) ELSE << >>
    PROVE  /\ timer = {} /\ d \o r = FileBytes(n)
           /\ Len(d) >= n => r = << >> /\ d = FileBytes(n)
<1>1. /\ Len(d) \in Nat /\ Len(d) >= 1 /\ Len(r) \in Nat
      /\ Len(d \o r) = Len(d) + Len(r) /\ d \o << >> = d
      /\ r = << >> <=> Len(r) = 0
      /\ Len(<< >>) = 0
  <2>1. Len(d) \in Nat /\ Len(r) \in Nat /\ Len(d \o r) = Len(d) + Len(r)  BY Glued
  <2>2. Len(d) >= 1 /\ d \o << >> = d /\ (r = << >> <=> Len(r) = 0)  BY Empty
  <2>3. QED  BY <2>1, <2>2, EmptySeq
<1>2. timer = {} /\ d \o r = FileBytes(n)
  <2>1. d \o r # << >>  BY <1>1
  <2>2. QED  BY <2>1
<1>3. Len(FileBytes(n)) = n  BY FileIs
<1>4. ASSUME Len(d) >= n PROVE r = << >>  BY <1>1, <1>2, <1>3, <1>4
<1>5. ASSUME Len(d) >= n PROVE d = FileBytes(n)  BY <1>1, <1>2, <1>4, <1>5
<1>6. QED  BY <1>2, <1>4, <1>5
-----------------------------------------------------------------------------
(* Answers among what is sent.                                             *)

LEMMA SilentAdded ==
    ASSUME NEW S, NEW s \in Seq(S), NEW t \in Seq(S), Silent(t)
    PROVE  NoMore(s \o t, s)
<1>1. /\ Len(s \o t) = Len(s) + Len(t) /\ Len(s) \in Nat /\ Len(t) \in Nat
      /\ \A i \in 1 .. Len(s) : (s \o t)[i] = s[i]
      /\ \A i \in 1 .. Len(s) + Len(t) :
            i \in 1 .. Len(s) \/ (i - Len(s) \in 1 .. Len(t) /\ (s \o t)[i] = t[i - Len(s)])
  BY Glued
<1>2. ASSUME NEW i \in 1 .. Len(s \o t), IsAnswer((s \o t)[i])
      PROVE  i \in 1 .. Len(s) /\ IsAnswer(s[i])
  <2>1. i \in 1 .. Len(s)  BY <1>1, <1>2 DEF Silent
  <2>2. QED  BY <1>1, <1>2, <2>1
<1>3. QED  BY <1>1, <1>2 DEF NoMore, Silent, OneAnswer, Fits

LEMMA AnswerAdded ==
    ASSUME NEW S, NEW s \in Seq(S), NEW t \in Seq(S), NEW w, Silent(s),
           \A i \in 1 .. Len(t) : IsAnswer(t[i]) => i = 1 /\ AnswerTo(t[i], w)
    PROVE  OneAnswer(s \o t) /\ Fits(s \o t, w)
<1>1. /\ Len(s \o t) = Len(s) + Len(t) /\ Len(s) \in Nat /\ Len(t) \in Nat
      /\ \A i \in 1 .. Len(s) : (s \o t)[i] = s[i]
      /\ \A i \in 1 .. Len(s) + Len(t) :
            i \in 1 .. Len(s) \/ (i - Len(s) \in 1 .. Len(t) /\ (s \o t)[i] = t[i - Len(s)])
  BY Glued
<1>2. ASSUME NEW i \in 1 .. Len(s \o t), IsAnswer((s \o t)[i])
      PROVE  i = Len(s) + 1 /\ AnswerTo((s \o t)[i], w)
  <2>1. i \notin 1 .. Len(s)  BY <1>1, <1>2 DEF Silent
  <2>2. i - Len(s) \in 1 .. Len(t) /\ (s \o t)[i] = t[i - Len(s)]  BY <1>1, <2>1
  <2>3. i - Len(s) = 1 /\ AnswerTo((s \o t)[i], w)  BY <1>2, <2>2
  <2>4. QED  BY <1>1, <2>3
<1>3. QED  BY <1>2 DEF OneAnswer, Fits

LEMMA SomeLeft ==
    ASSUME NEW r, NEW s, NEW d \in Nat, Len(r) \in Nat, Len(s) \in Nat, Len(r) + d <= Len(s),
           \A i \in 1 .. Len(r) : r[i] = s[i + d]
    PROVE  NoMore(r, s)
<1>1. \A i \in 1 .. Len(r) : i + d \in 1 .. Len(s)  OBVIOUS
<1>2. Silent(s) => Silent(r)  BY <1>1 DEF Silent
<1>3. OneAnswer(s) => OneAnswer(r)
  <2>1. ASSUME NEW i \in 1 .. Len(r), NEW j \in 1 .. Len(r), i + d = j + d PROVE i = j  BY <2>1
  <2>2. QED  BY <1>1, <2>1 DEF OneAnswer
<1>4. \A w : Fits(s, w) => Fits(r, w)  BY <1>1 DEF Fits
<1>5. QED  BY <1>2, <1>3, <1>4 DEF NoMore
-----------------------------------------------------------------------------
(* Types.                                                                  *)

LEMMA Counting ==
    ASSUME NEW d \in [active : BOOLEAN, total : Nat, received : Nat], NEW r \in Nat
    PROVE  [d EXCEPT !.received = r] \in [active : BOOLEAN, total : Nat, received : Nat]
  OBVIOUS

LEMMA CountingDown ==
    ASSUME NEW d \in [active : BOOLEAN, total : Nat, received : Nat, open : BOOLEAN], NEW r \in Nat
    PROVE  [d EXCEPT !.received = r] \in [active : BOOLEAN, total : Nat, received : Nat, open : BOOLEAN]
  OBVIOUS

LEMMA TypedInit == Init => Typed
<1> SUFFICES ASSUME Init PROVE Typed  OBVIOUS
<1>1. PICK r \in HeapValues : download = [NoDownload EXCEPT !.received = r]  BY DEF Init
<1>2. download \in [active : BOOLEAN, total : Nat, received : Nat, open : BOOLEAN]
  BY <1>1, TransferAssumption DEF NoDownload
<1>3. /\ stored \in [by : Nat, size : Nat, data : Seq(Tokens)]
      /\ upload \in [active : BOOLEAN, total : Nat, received : Nat]
  BY EmptySeq DEF Init, NoUpload
<1>4. QED  BY <1>2, <1>3, EmptySeq DEF Init, Typed

LEMMA TypedRequest ==
    ASSUME Typed, NEW k \in Requests, NEW n \in Nat, Request(k, n), timer' \subseteq Sizes
    PROVE  Typed'
<1>1. toServer' \in Seq(Tokens)
  <2>1. Pdu(k, n) \in Seq(Tokens)  BY PduIs DEF Kinds
  <2>2. QED  BY <2>1, Glued DEF Request, Typed
<1>2. QED  BY <1>1 DEF Request, Typed, server

LEMMA TypedUser ==
    ASSUME Typed, UserStep \/ UpdateFileDate  PROVE Typed'
<1>1. CASE Ask
  BY <1>1, TypedRequest DEF Ask, Requests, Typed
<1>2. ASSUME NEW n \in Sizes, UpdateFile(n) PROVE Typed'
  BY <1>2, TypedRequest, TransferAssumption DEF UpdateFile, Requests
<1>3. ASSUME NEW n \in Sizes, DownloadFile(n) PROVE Typed'
  BY <1>3, TypedRequest, TransferAssumption DEF DownloadFile, Requests, Typed
<1>4. CASE HangUp  BY <1>4 DEF HangUp, Typed, network, server
<1>5. CASE Connect
  <2>1. PICK r \in HeapValues : download' = [NoDownload EXCEPT !.received = r]
    BY <1>5 DEF Connect
  <2>2. download' \in [active : BOOLEAN, total : Nat, received : Nat, open : BOOLEAN]
    BY <2>1, TransferAssumption DEF NoDownload
  <2>3. inbox' \in Seq(Tokens) /\ saved' \in Seq(Tokens)  BY <1>5, EmptySeq DEF Connect
  <2>4. conn' \in Nat  BY <1>5 DEF Connect, Typed
  <2>5. UNCHANGED <<toServer, toClient, recvbuf, parsing, refused, garbled, upload>>
    BY <1>5 DEF Connect, network
  <2>6. /\ link' = "open" /\ reading' = "no" /\ timer' = {} /\ waiting' = "none"
        /\ confused' = FALSE /\ miscounted' \subseteq {"upload", "download"}
    BY <1>5 DEF Connect
  <2>7. stored' \in [by : Nat, size : Nat, data : Seq(Tokens)]
    <3>1. << >> \in Seq(Tokens) /\ conn + 1 \in Nat  BY EmptySeq DEF Typed
    <3>2. [by |-> conn + 1, size |-> 0, data |-> << >>] \in [by : Nat, size : Nat, data : Seq(Tokens)]
      BY <3>1
    <3>3. \/ stored' = stored
          \/ stored' = [by |-> conn + 1, size |-> 0, data |-> << >>]
      BY <1>5 DEF Connect
    <3>4. QED  BY <3>2, <3>3 DEF Typed
  <2>8. QED  BY <2>2, <2>3, <2>4, <2>5, <2>6, <2>7 DEF Typed
<1>6. CASE UpdateFileDate
  <2>1. PICK n \in Sizes : toServer' = toServer \o FileBytes(n)  BY <1>6 DEF UpdateFileDate
  <2>2. n \in Nat  BY TransferAssumption
  <2>3. FileBytes(n) \in Seq(Tokens)  BY <2>2, FileIs
  <2>4. toServer' \in Seq(Tokens)  BY <2>1, <2>3, Glued DEF Typed
  <2>5. QED  BY <1>6, <2>4 DEF UpdateFileDate, Follow, Typed, server
<1>7. QED  BY <1>1, <1>2, <1>3, <1>4, <1>5, <1>6 DEF UserStep

\* What recvbuf_, the file and the network hold after a write.
LEMMA TypedWrite ==
    ASSUME Typed, NEW d \in Seq(Tokens),
           NEW st \in [active : BOOLEAN, total : Nat, received : Nat],
           NEW file \in [by : Nat, size : Nat, data : Seq(Tokens)],
           WriteUploadData(d, st, file)
    PROVE  /\ upload' \in [active : BOOLEAN, total : Nat, received : Nat]
           /\ stored' \in [by : Nat, size : Nat, data : Seq(Tokens)]
           /\ toClient' \in Seq(Tokens)
<1>1. Len(d) \in Nat /\ file.data \o d \in Seq(Tokens)  BY Glued
<1>2. Pdu("upload_ok", 0) \in Seq(Tokens)  BY PduIs DEF Kinds, Answers
<1>3. toClient \o Pdu("upload_ok", 0) \in Seq(Tokens)  BY <1>2, Glued DEF Typed
<1>4. stored' \in [by : Nat, size : Nat, data : Seq(Tokens)]  BY <1>1 DEF WriteUploadData
<1>5. upload' \in [active : BOOLEAN, total : Nat, received : Nat]
  <2>1. \/ upload' = NoUpload
        \/ upload' = [st EXCEPT !.received = st.received + Len(d)]
    BY DEF WriteUploadData
  <2>2. st.received + Len(d) \in Nat  BY <1>1
  <2>3. NoUpload \in [active : BOOLEAN, total : Nat, received : Nat]  BY DEF NoUpload
  <2>4. QED  BY <2>1, <2>2, <2>3, Counting
<1>6. toClient' \in Seq(Tokens)  BY <1>3 DEF WriteUploadData, Typed
<1>7. QED  BY <1>4, <1>5, <1>6

\* A PDU is taken from the front of recvbuf_.
LEMMA TypedPick ==
    ASSUME Typed, NEW k, Pick(k)
    PROVE  Rest \in Seq(Tokens) /\ Head(recvbuf) \in Tokens /\ Head(recvbuf).size \in Nat
<1>1. Rest \in Seq(Tokens)  BY TakenTwo DEF Pick, Rest, Typed
<1>2. recvbuf # << >>  BY EmptySeq DEF Pick, Typed
<1>3. Head(recvbuf) \in Tokens  BY <1>2, HeadTailProperties DEF Typed
<1>4. QED  BY <1>1, <1>3 DEF Tokens

LEMMA TypedServer ==
    ASSUME Typed, Receive \/ Handlers \/ Push \/ HandleClose  PROVE Typed'
<1>1. ASSUME NEW k \in Answers PROVE toClient \o Pdu(k, 0) \in Seq(Tokens)
  <2>1. Pdu(k, 0) \in Seq(Tokens)  BY PduIs DEF Kinds
  <2>2. QED  BY <2>1, Glued DEF Typed
<1>2. ASSUME NEW n \in 1 .. Len(toServer), HandleMessage(n) PROVE Typed'
  <2>1. SubSeq(toServer, 1, n) \in Seq(Tokens) /\ SubSeq(toServer, n + 1, Len(toServer)) \in Seq(Tokens)
    BY Cut DEF Typed
  <2>2. recvbuf \o SubSeq(toServer, 1, n) \in Seq(Tokens)  BY <2>1, Glued DEF Typed
  <2>3. CASE upload.active
    <3>1. /\ upload' \in [active : BOOLEAN, total : Nat, received : Nat]
          /\ stored' \in [by : Nat, size : Nat, data : Seq(Tokens)]
          /\ toClient' \in Seq(Tokens)
      BY <1>2, <2>1, <2>3, TypedWrite DEF HandleMessage, Typed
    <3>2. QED  BY <1>2, <2>1, <2>3, <3>1 DEF HandleMessage, Typed, client
  <2>4. CASE ~upload.active
    BY <1>2, <2>1, <2>2, <2>4 DEF HandleMessage, Typed, client
  <2>5. QED  BY <2>3, <2>4
<1>3. CASE HandleAsk
  BY <1>1, <1>3, TypedPick DEF HandleAsk, Answers, Typed, client
<1>4. CASE HandleUpdateFile
  <2> DEFINE st == [active |-> TRUE, total |-> Head(recvbuf).size, received |-> 0]
             file == [by |-> conn, size |-> Head(recvbuf).size, data |-> << >>]
  <2>1. Rest \in Seq(Tokens) /\ Head(recvbuf).size \in Nat
    BY <1>4, TypedPick DEF HandleUpdateFile
  <2>2. /\ st \in [active : BOOLEAN, total : Nat, received : Nat]
        /\ file \in [by : Nat, size : Nat, data : Seq(Tokens)]
    BY <2>1, EmptySeq DEF Typed
  <2>3. \/ upload' = st /\ stored' = file /\ toClient' = toClient
        \/ WriteUploadData(Rest, st, file)
    BY <1>4 DEF HandleUpdateFile
  <2> HIDE DEF st, file
  <2>4. /\ upload' \in [active : BOOLEAN, total : Nat, received : Nat]
        /\ stored' \in [by : Nat, size : Nat, data : Seq(Tokens)]
        /\ toClient' \in Seq(Tokens)
    BY <2>1, <2>2, <2>3, TypedWrite DEF Typed
  <2>5. QED  BY <1>4, <2>4, EmptySeq DEF HandleUpdateFile, Typed, client
<1>5. CASE HandleUpdateFileFails
  BY <1>5, TypedPick DEF HandleUpdateFileFails, Typed, client, network
<1>6. CASE AnswerDownload
  <2>1. Rest \in Seq(Tokens) /\ Head(recvbuf).size \in Nat
    BY <1>6, TypedPick DEF AnswerDownload, HandleDownloadFile
  <2>0. PICK sent \in Sizes : HandleDownloadFile(sent)  BY <1>6 DEF AnswerDownload
  <2> DEFINE p == Pdu("download_rsp", Head(recvbuf).size)
             f == FileBytes(sent)
  <2>2. p \in Seq(Tokens) /\ f \in Seq(Tokens)
    BY <2>1, PduIs, FileIs, TransferAssumption DEF Kinds, Answers
  <2>3. toClient' = (toClient \o p) \o f  BY <2>0 DEF HandleDownloadFile
  <2> HIDE DEF p, f
  <2>4. toClient \o p \in Seq(Tokens)  BY <2>2, Glued DEF Typed
  <2>5. toClient' \in Seq(Tokens)  BY <2>2, <2>3, <2>4, Glued
  <2>6. miscounted' \subseteq {"upload", "download"}  BY <2>0 DEF HandleDownloadFile, Follow, Typed
  <2>7. QED  BY <2>0, <2>1, <2>5, <2>6 DEF HandleDownloadFile, Typed, client
<1>7. CASE ParsingDone  BY <1>7 DEF ParsingDone, Typed, client, network
<1>8. CASE TakesGarbage  BY <1>8 DEF TakesGarbage, Typed, client, network
<1>9. CASE Push  BY <1>1, <1>9 DEF Push, Typed, client, server, Answers
<1>10. CASE HandleClose  BY <1>10, EmptySeq DEF HandleClose, Typed, client
<1>11. QED
  BY <1>2, <1>3, <1>4, <1>5, <1>6, <1>7, <1>8, <1>9, <1>10 DEF Receive, Handlers, AnswerDownload

LEMMA TypedClient ==
    ASSUME Typed, Arrive \/ RecvMsg  PROVE Typed'
<1>1. ASSUME NEW n \in 1 .. Len(toClient), Deliver(n) PROVE Typed'
  <2>1. SubSeq(toClient, 1, n) \in Seq(Tokens) /\ SubSeq(toClient, n + 1, Len(toClient)) \in Seq(Tokens)
    BY Cut DEF Typed
  <2>2. inbox \o SubSeq(toClient, 1, n) \in Seq(Tokens)  BY <2>1, Glued DEF Typed
  <2>3. QED  BY <1>1, <2>1, <2>2 DEF Deliver, Typed, server
<1>2. CASE TakePdu
  <2>1. SubSeq(inbox, 3, Len(inbox)) \in Seq(Tokens)  BY <1>2, TakenTwo DEF TakePdu, RecvPdu, Typed
  <2>2. Head(inbox).size \in Nat
    <3>1. inbox # << >>  BY <1>2, EmptySeq DEF TakePdu, RecvPdu, Typed
    <3>2. Head(inbox) \in Tokens  BY <3>1, HeadTailProperties DEF Typed
    <3>3. QED  BY <3>2 DEF Tokens
  <2>3. /\ download' \in [active : BOOLEAN, total : Nat, received : Nat, open : BOOLEAN]
        /\ waiting' \in Requests \cup {"none"}
        /\ saved' \in Seq(Tokens)
    <3>1. PICK opens \in BOOLEAN : RecvPdu(opens)  BY <1>2 DEF TakePdu
    <3>2. << >> \in Seq(Tokens)  BY EmptySeq
    <3>3. \/ UNCHANGED <<download, saved>>
          \/ /\ download' = [download EXCEPT !.active = TRUE, !.total = Head(inbox).size, !.open = opens]
             /\ saved' = << >>
      BY <3>1 DEF RecvPdu
    <3>4. waiting' = "none" \/ waiting' = waiting  BY <3>1 DEF RecvPdu
    <3>5. QED  BY <2>2, <3>2, <3>3, <3>4 DEF Typed
  <2>4. QED  BY <1>2, <2>1, <2>3 DEF TakePdu, RecvPdu, Typed, server, network
<1>3. CASE RecvMsgReturns  BY <1>3 DEF RecvMsgReturns, Typed, server, network
<1>4. CASE RecvGarbage  BY <1>4 DEF RecvGarbage, Typed, server, network
<1>5. CASE RecvFile
  <2>1. saved \o inbox \in Seq(Tokens) /\ Len(inbox) \in Nat  BY Glued DEF Typed
  <2>2. download.received + Len(inbox) \in Nat  BY <2>1 DEF Typed
  <2>3. download' \in [active : BOOLEAN, total : Nat, received : Nat, open : BOOLEAN]
    <3>1. \/ download' = NoDownload
          \/ download' = [download EXCEPT !.received = download.received + Len(inbox)]
      BY <1>5 DEF RecvFile
    <3>2. NoDownload \in [active : BOOLEAN, total : Nat, received : Nat, open : BOOLEAN]  BY DEF NoDownload
    <3>3. download \in [active : BOOLEAN, total : Nat, received : Nat, open : BOOLEAN]  BY DEF Typed
    <3>4. QED  BY <2>2, <3>1, <3>2, <3>3, CountingDown
  <2>4. /\ waiting' \in Requests \cup {"none"}
        /\ reading' \in {"no", "loop", "dialog"}
    BY <1>5 DEF RecvFile, Typed
  <2>5. saved' \in Seq(Tokens) /\ inbox' \in Seq(Tokens)  BY <1>5, <2>1, EmptySeq DEF RecvFile, Typed
  <2>6. UNCHANGED <<link, conn, toServer, toClient, recvbuf, parsing, refused, garbled, upload,
                    stored, timer, confused, miscounted>>
    BY <1>5 DEF RecvFile, server, network
  <2>7. QED  BY <2>3, <2>4, <2>5, <2>6 DEF Typed
<1>6. CASE DialogClosed  BY <1>6 DEF DialogClosed, Typed, server, network, NoDownload
<1>7. QED  BY <1>1, <1>2, <1>3, <1>4, <1>5, <1>6 DEF Arrive, RecvMsg, TakePdu

LEMMA EndedUser ==
    ASSUME Ended, (UserStep /\ ~Connect) \/ UpdateFileDate  PROVE Ended'
  BY DEF Ended, UserStep, Ask, UpdateFile, DownloadFile, Request, HangUp, UpdateFileDate

LEMMA EndedServer ==
    ASSUME Ended, Receive \/ Handlers \/ Push \/ HandleClose  PROVE Ended'
<1>1. CASE HandleClose  BY <1>1 DEF HandleClose, Ended, client
<1>2. CASE Receive \/ Handlers \/ Push
  <2>1. link # "closed" /\ UNCHANGED <<link, client>>
    BY <1>2 DEF Ended, Receive, HandleMessage, Handlers, HandleAsk, HandleUpdateFile,
       HandleUpdateFileFails, AnswerDownload, HandleDownloadFile, ParsingDone, TakesGarbage, Push, Pick
  <2>2. QED  BY <2>1 DEF Ended, client
<1>3. QED  BY <1>1, <1>2

LEMMA EndedClient ==
    ASSUME Arrive \/ RecvMsg  PROVE Ended'
<1>1. CASE TakePdu
  <2>1. link' = "open"  BY <1>1 DEF TakePdu, RecvPdu
  <2>2. QED  BY <2>1 DEF Ended
<1>2. CASE Arrive \/ RecvMsgReturns \/ RecvGarbage \/ RecvFile \/ DialogClosed
  <2>1. link' = "open"
    BY <1>2 DEF Arrive, Deliver, RecvMsgReturns, RecvGarbage, RecvFile, DialogClosed
  <2>2. QED  BY <2>1 DEF Ended
<1>3. QED  BY <1>1, <1>2 DEF RecvMsg, TakePdu
-----------------------------------------------------------------------------
(* The request and its answer.                                             *)

\* The first token there is for the server is a header or the request has been
\* refused.
LEMMA First ==
    ASSUME Typed, Ended, Requested, recvbuf # << >>
    PROVE  /\ Head(recvbuf) = Up[1] /\ Len(Up) >= 1 /\ Up \in Seq(Tokens)
           /\ \/ IsSent
              \/ \E n \in Sizes : Announced(n)
              \/ IsRefused /\ ~IsHeader(Head(recvbuf))
<1>1. /\ Len(recvbuf) \in Nat /\ Len(recvbuf) >= 1 /\ Head(recvbuf) = recvbuf[1]
  BY Empty, LenProperties DEF Typed
<1>2. /\ Up \in Seq(Tokens) /\ Len(Up) = Len(recvbuf) + Len(toServer) /\ Len(toServer) \in Nat
      /\ \A i \in 1 .. Len(recvbuf) : Up[i] = recvbuf[i]
  BY Glued DEF Up, Typed
<1>3. 1 \in 1 .. Len(recvbuf) /\ 1 \in 1 .. Len(Up)  BY <1>1, <1>2
<1>4. Head(recvbuf) = Up[1] /\ Len(Up) >= 1  BY <1>1, <1>2, <1>3
<1>5. ~Served
  <2>1. Len(<< >>) = 0  BY EmptySeq
  <2>2. QED  BY <1>4, <2>1 DEF Served
<1>6. ~Uploading  BY DEF Uploading
<1>7. IsRefused => ~IsHeader(Head(recvbuf))  BY <1>3, <1>4 DEF IsRefused
<1>8. QED  BY <1>2, <1>4, <1>5, <1>6, <1>7 DEF Requested, Ended

LEMMA RequestedKept ==
    ASSUME Requested, Up' = Up, Silent(Down) => Silent(Down'),
           UNCHANGED <<link, conn, upload, stored, refused, timer, waiting>>,
           download'.active => download.active,
           upload.active => UNCHANGED <<recvbuf, toServer>>
    PROVE  Requested' /\ (Served => Served')
<1>1. Served => Served'  BY DEF Served
<1>2. Unanswered => Unanswered'  BY DEF Unanswered
<1>3. IsSent => IsSent'  BY <1>2 DEF IsSent, Pdu
<1>4. \A n \in Sizes : Announced(n) => Announced(n)'  BY <1>2 DEF Announced, Pdu, FileBytes
<1>5. Uploading => Uploading'  BY <1>2 DEF Uploading, FileBytes
<1>6. IsRefused => IsRefused'  BY <1>2 DEF IsRefused
<1>7. QED  BY <1>1, <1>3, <1>4, <1>5, <1>6 DEF Requested

LEMMA AnsweredKept ==
    ASSUME Answered, NoMore(Down', Down), UNCHANGED <<waiting, download>>, Served => Served',
           reading' = "dialog" => reading = "dialog" \/ download.active
    PROVE  Answered'
  BY DEF Answered, NoMore

\* What is appended to the output buffer comes behind all that is there.
LEMMA Behind ==
    ASSUME Typed, NEW t \in Seq(Tokens), toClient' = toClient \o t, inbox' = inbox
    PROVE  Down' = Down \o t /\ Down \in Seq(Tokens)
<1>1. Down \in Seq(Tokens)  BY Glued DEF Down, Typed
<1>2. Down' = Join(inbox, Join(toClient, t))  BY DEF Down, Join
<1>3. Join(inbox, Join(toClient, t)) = Join(Join(inbox, toClient), t)  BY Regrouped DEF Typed
<1>4. QED  BY <1>1, <1>2, <1>3 DEF Down, Join

LEMMA Replied ==
    ASSUME Typed, NEW t \in Seq(Tokens), toClient' = toClient \o t, inbox' = inbox,
           Silent(Down), UNCHANGED <<waiting, download, reading>>, ~download.active, Answered,
           Served', \A i \in 1 .. Len(t) : IsAnswer(t[i]) => i = 1 /\ AnswerTo(t[i], waiting)
    PROVE  Answered'
<1>1. Down' = Down \o t /\ Down \in Seq(Tokens)  BY Behind
<1>2. OneAnswer(Down') /\ Fits(Down', waiting)  BY <1>1, AnswerAdded
<1>3. QED  BY <1>2 DEF Answered

\* A request is made: the user waits for none, so everything is served.
LEMMA RequestIn ==
    ASSUME Patient, UpInv, NEW k \in Requests, NEW n \in Nat, Request(k, n)
    PROVE  /\ Up' = Pdu(k, n)' /\ Unanswered' /\ Answered' /\ UpSame /\ ~refused'
           /\ ~upload'.active /\ timer = {} /\ link' = "open" /\ waiting' = k
<1>1. link = "open" /\ waiting = "none"  BY DEF Request
<1>2. Served  BY <1>1 DEF UpInv, Requested, IsSent, Announced, Uploading, IsRefused
<1>3. ~refused  BY <1>1 DEF UpInv, Requested, IsRefused
<1>4. Silent(Down)  BY <1>1 DEF UpInv, Answered, Fits, AnswerTo, Silent
<1>5. ~download.active  BY <1>1 DEF UpInv, Answered
<1>6. /\ recvbuf' = recvbuf /\ toServer' = toServer \o Pdu(k, n) /\ Down' = Down
      /\ UNCHANGED <<link, conn, upload, download, reading>> /\ UpSame /\ waiting' = k
  BY DEF Request, server, Down, UpSame
<1>7. Up' = Pdu(k, n)
  <2>1. Pdu(k, n) \in Seq(Tokens)  BY PduIs DEF UpInv, Kinds
  <2>2. recvbuf = << >> /\ toServer = << >>
    BY <1>2, ConcatEqualIffEmpty DEF Served, Up, UpInv, Typed
  <2>3. << >> \o Pdu(k, n) = Pdu(k, n)  BY <2>1, Empty
  <2>4. QED  BY <1>6, <2>2, <2>3 DEF Up
<1>8. Pdu(k, n)' = Pdu(k, n)  BY <1>6 DEF Pdu
<1>9. Unanswered'  BY <1>1, <1>4, <1>5, <1>6 DEF Unanswered
<1>10. Answered'
  BY <1>4, <1>5, <1>6 DEF UpInv, Answered, Fits, Silent
<1>11. QED  BY <1>1, <1>2, <1>3, <1>6, <1>7, <1>8, <1>9, <1>10 DEF Served, UpSame

LEMMA UpKept ==
    ASSUME UpInv, UpSame, Typed', Ended', Requested', Answered'  PROVE UpInv'
  BY DEF UpInv, UpSame, Aligned, StoredWhole

LEMMA UserInStep ==
    ASSUME Patient, UpInv, (UserStep /\ ~Connect) \/ UpdateFileDate, "upload" \notin miscounted'
    PROVE  UpInv'
<1>1. Typed' /\ Ended'  BY TypedUser, EndedUser DEF UpInv
<1>2. ASSUME NEW k \in {"ask", "download"}, NEW n \in Nat, Request(k, n), UNCHANGED timer
      PROVE  UpInv'
  <2>1. /\ Up' = Pdu(k, n)' /\ Unanswered' /\ Answered' /\ UpSame /\ ~refused'
        /\ ~upload'.active /\ timer = {} /\ link' = "open" /\ waiting' = k
    BY <1>2, RequestIn DEF Requests
  <2>2. IsSent'  BY <1>2, <2>1 DEF IsSent
  <2>3. QED  BY <1>1, <2>1, <2>2, UpKept DEF Requested
<1>3. CASE Ask  BY <1>2, <1>3 DEF Ask
<1>4. ASSUME NEW n \in Sizes, DownloadFile(n) PROVE UpInv'
  BY <1>2, <1>4, TransferAssumption DEF DownloadFile
<1>5. ASSUME NEW n \in Sizes, UpdateFile(n) PROVE UpInv'
  <2>1. n \in Nat  BY TransferAssumption
  <2>2. /\ Up' = Pdu("upload", n)' /\ Unanswered' /\ Answered' /\ UpSame /\ ~refused'
        /\ ~upload'.active /\ link' = "open" /\ waiting' = "upload" /\ timer' = {n}
    BY <1>5, <2>1, RequestIn DEF Requests, UpdateFile
  <2>3. Pdu("upload", n)' \o << >> = Pdu("upload", n)'
    <3>1. Pdu("upload", n) \in Seq(Tokens)  BY <2>1, PduIs DEF UpInv, Kinds, Requests
    <3>2. Pdu("upload", n)' = Pdu("upload", n)  BY <1>5 DEF Pdu, UpdateFile, Request
    <3>3. QED  BY <3>1, <3>2, Empty
  <2>4. Announced(n)'  BY <2>2, <2>3 DEF Announced
  <2>5. QED  BY <1>1, <2>2, <2>4, UpKept DEF Requested
<1>6. CASE HangUp
  <2>1. /\ link = "open" /\ link' = "closing" /\ timer = {} /\ timer' = {} /\ UpSame
        /\ UNCHANGED <<conn, toServer, toClient, recvbuf, inbox, waiting, download, reading>>
    BY <1>6 DEF HangUp, UpSame, network, server
  <2>2. Up' = Up /\ Down' = Down  BY <2>1 DEF Up, Down
  <2>3. Served => Served'  BY <2>1, <2>2 DEF Served, UpSame
  <2>4. Unanswered => Unanswered'  BY <2>1, <2>2 DEF Unanswered
  <2>5. IsSent => IsSent'  BY <2>1, <2>2, <2>4 DEF IsSent, Pdu, UpSame
  <2>6. \A n \in Sizes : Announced(n) => Announced(n)'
    BY <2>1, <2>2, <2>4 DEF Announced, Pdu, FileBytes, UpSame
  <2>7. Uploading => Uploading'  BY <2>1, <2>4 DEF Uploading, FileBytes, UpSame
  <2>8. IsRefused => IsRefused'  BY <2>1, <2>2, <2>4 DEF IsRefused, UpSame
  <2>9. Answered'  BY <2>1, <2>2, <2>3 DEF UpInv, Answered
  <2>10. Requested'  BY <2>1, <2>3, <2>5, <2>6, <2>7, <2>8 DEF UpInv, Requested, UpSame
  <2>11. QED  BY <1>1, <2>1, <2>9, <2>10, UpKept
<1>8. CASE UpdateFileDate
  <2>1. PICK n \in timer : toServer' = toServer \o FileBytes(n)
    BY <1>8 DEF UpdateFileDate, Follow
  <2>2. /\ timer # {} /\ timer' = {} /\ UpSame /\ link = "open"
        /\ UNCHANGED <<link, conn, recvbuf, waiting, download, reading>> /\ Down' = Down
    BY <1>8, <2>1 DEF UpdateFileDate, UpSame, server, Down
  <2>3. n \in Nat  BY <2>1, TransferAssumption DEF UpInv, Typed
  <2>4. ~Served /\ ~IsSent  BY <2>2 DEF Served, IsSent
  <2>5. Answered'  BY <2>2, <2>4 DEF UpInv, Answered
  <2>6. Unanswered => Unanswered'  BY <2>2 DEF Unanswered
  <2>7. /\ FileBytes(n) \in Seq(Tokens)
        /\ \A i \in 1 .. Len(FileBytes(n)) : ~IsHeader(FileBytes(n)[i])
        /\ FileBytes(n)' = FileBytes(n)
    BY <2>2, <2>3, FileIs DEF UpInv, FileBytes
  <2>8. Up' = Up \o FileBytes(n) /\ Up \in Seq(Tokens)
    <3>1. Up \in Seq(Tokens)  BY Glued DEF Up, UpInv, Typed
    <3>2. Up' = Join(recvbuf, Join(toServer, FileBytes(n)))  BY <2>1, <2>2 DEF Up, Join
    <3>3. Join(recvbuf, Join(toServer, FileBytes(n))) = Join(Join(recvbuf, toServer), FileBytes(n))
      BY <2>7, Regrouped DEF UpInv, Typed
    <3>4. QED  BY <3>1, <3>2, <3>3 DEF Up, Join
  <2>9. ASSUME NEW m \in Sizes, Announced(m) PROVE Announced(m)'
    <3>1. timer = {m} /\ n = m  BY <2>1, <2>2, <2>9 DEF Announced
    <3>2. Pdu("upload", n) \in Seq(Tokens)  BY <2>3, PduIs DEF UpInv, Kinds, Requests
    <3>3. Up = Pdu("upload", n)  BY <2>2, <2>9, <3>1, <3>2, Empty DEF Announced
    <3>4. Pdu("upload", n)' = Pdu("upload", n)  BY <2>2 DEF Pdu
    <3>5. Up' = Pdu("upload", n)' \o FileBytes(n)'  BY <2>7, <2>8, <3>3, <3>4
    <3>6. QED  BY <2>2, <2>6, <2>9, <3>1, <3>5 DEF Announced, UpSame
  <2>10. ASSUME Uploading PROVE Uploading'
    <3>1. n = upload.total  BY <2>1, <2>10 DEF Uploading
    <3>2. stored.data \o toServer = << >>  BY <2>2, <2>10 DEF Uploading
    <3>3. stored.data \o toServer' = << >> \o FileBytes(n)
      <4>1. Join(stored.data, Join(toServer, FileBytes(n)))
              = Join(Join(stored.data, toServer), FileBytes(n))
        <5>1. stored.data \in Seq(Tokens) /\ toServer \in Seq(Tokens)  BY DEF UpInv, Typed
        <5>2. QED  BY <2>7, <5>1, Regrouped
      <4>2. QED  BY <2>1, <3>2, <4>1 DEF Join
    <3>4. stored'.data \o toServer' = FileBytes(n)
      <4>1. << >> \o FileBytes(n) = FileBytes(n)  BY <2>7, Empty
      <4>2. QED  BY <2>2, <3>3, <4>1 DEF UpSame
    <3>5. (stored.data \o toServer)' = FileBytes(upload.total)'
      BY <2>2, <3>1, <3>4 DEF UpSame, FileBytes
    <3>6. QED  BY <2>2, <2>6, <2>10, <3>5 DEF Uploading, UpSame
  <2>11. ASSUME IsRefused PROVE IsRefused'
    <3>1. \A i \in 1 .. Len(Up') : ~IsHeader(Up'[i])
      BY <2>7, <2>8, <2>11, Glued DEF IsRefused
    <3>2. QED  BY <2>2, <2>6, <2>11, <3>1 DEF IsRefused, UpSame
  <2>12. QED
    BY <1>1, <2>2, <2>4, <2>5, <2>9, <2>10, <2>11, UpKept DEF UpInv, Requested, UpSame, IsRefused
<1>9. QED  BY <1>3, <1>4, <1>5, <1>6, <1>8 DEF UserStep

\* A PDU that is a request is all there is, but for the file that follows it.
LEMMA Picked ==
    ASSUME UpInv, NEW k \in Requests, Pick(k), IsHeader(Head(recvbuf))
    PROVE  /\ k # "upload" => /\ IsSent /\ waiting = k /\ Rest \o toServer = << >>
           /\ k = "upload" =>
                 /\ Announced(Head(recvbuf).size) /\ Head(recvbuf).size \in Sizes
                 /\ Rest \o toServer = IF timer = {} THEN FileBytes(Head(recvbuf).size) ELSE << >>
           /\ Rest \in Seq(Tokens) /\ ~refused /\ Head(recvbuf).size \in Nat
           /\ ~Served
<1>1. /\ recvbuf \in Seq(Tokens) /\ toServer \in Seq(Tokens) /\ Len(recvbuf) >= 2
      /\ Head(recvbuf).kind = k
  BY DEF UpInv, Typed, Pick
<1>2. recvbuf # << >>  BY <1>1, EmptySeq
<1>3. Rest \in Seq(Tokens) /\ Head(recvbuf).size \in Nat  BY TypedPick DEF UpInv
<1>4. ~refused /\ ~Served /\ link # "closed"
  <2>1. \A i \in 1 .. Len(Up) : i = 1 => Head(recvbuf) = Up[i]  BY <1>2, First DEF UpInv
  <2>2. 1 \in 1 .. Len(Up)  BY <1>2, First, LenProperties DEF UpInv
  <2>3. ~IsRefused  BY <2>1, <2>2 DEF IsRefused
  <2>4. Len(<< >>) = 0  BY EmptySeq
  <2>5. ~Served  BY <2>2, <2>4 DEF Served
  <2>6. QED  BY <1>2, <2>3, <2>5 DEF UpInv, Requested, Ended
<1>5. ASSUME NEW q \in Requests, NEW n \in Nat, NEW f \in Seq(Tokens), Up = Pdu(q, n) \o f
      PROVE  Rest \o toServer = f /\ q = k /\ n = Head(recvbuf).size
  <2>1. Pdu(q, n) \in Seq(Tokens) /\ Len(Pdu(q, n)) = 2
        /\ Pdu(q, n)[1].kind = q /\ Pdu(q, n)[1].size = n
    <3>1. Typed /\ q \in Kinds  BY DEF UpInv, Kinds
    <3>2. QED  BY <3>1, PduIs
  <2>2. recvbuf \o toServer = Pdu(q, n) \o f  BY <1>5 DEF Up
  <2>3. SubSeq(recvbuf, 3, Len(recvbuf)) \o toServer = f /\ Head(recvbuf) = Pdu(q, n)[1]
    BY <1>1, <2>1, <2>2, PduTaken
  <2>4. QED  BY <1>1, <2>1, <2>3 DEF Rest
<1>6. ASSUME IsSent PROVE k # "upload" /\ waiting = k /\ Rest \o toServer = << >>
  <2>1. PICK q \in {"ask", "download"}, n \in Nat : Up = Pdu(q, n) /\ waiting = q
    BY <1>6 DEF IsSent
  <2>2. Pdu(q, n) \in Seq(Tokens)  BY PduIs DEF UpInv, Kinds, Requests
  <2>3. Up = Pdu(q, n) \o << >> /\ << >> \in Seq(Tokens)  BY <2>1, <2>2, Empty
  <2>4. QED  BY <1>5, <2>1, <2>3 DEF Requests
<1>7. ASSUME NEW n \in Sizes, Announced(n)
      PROVE  /\ k = "upload" /\ n = Head(recvbuf).size
             /\ Rest \o toServer = IF timer = {} THEN FileBytes(n) ELSE << >>
  <2> DEFINE f == IF timer = {} THEN FileBytes(n) ELSE << >>
  <2>1. n \in Nat  BY TransferAssumption
  <2>2. f \in Seq(Tokens)  BY <2>1, FileIs, EmptySeq DEF UpInv
  <2>3. Up = Pdu("upload", n) \o f  BY <1>7 DEF Announced
  <2> HIDE DEF f
  <2>4. Rest \o toServer = f /\ "upload" = k /\ n = Head(recvbuf).size
    BY <1>5, <2>1, <2>2, <2>3 DEF Requests
  <2>5. QED  BY <2>4 DEF f
<1>8. IsSent \/ \E n \in Sizes : Announced(n)  BY <1>2, First DEF UpInv
<1>9. QED  BY <1>3, <1>4, <1>6, <1>7, <1>8

\* A request is answered by t.
LEMMA AnswerOut ==
    ASSUME UpInv, Typed', Ended', NEW k \in {"ask", "download"}, Pick(k), NEW t \in Seq(Tokens),
           toClient' = toClient \o t,
           \A i \in 1 .. Len(t) : IsAnswer(t[i]) => i = 1 /\ AnswerTo(t[i], k),
           recvbuf' = Rest, UNCHANGED <<link, conn, toServer, upload, stored, refused, garbled, client>>
    PROVE  UpInv' /\ Silent(Down) /\ ~download.active
<1>1. IsSent /\ waiting = k /\ Rest \o toServer = << >> /\ ~refused
  BY Picked DEF Requests, Pick
<1>2. UNCHANGED <<inbox, reading, download, timer, waiting>>  BY DEF client
<1>3. Served'  BY <1>1, <1>2 DEF Served, Up, IsSent
<1>4. Answered'  BY <1>1, <1>2, <1>3, Replied DEF UpInv, IsSent, Unanswered
<1>5. Requested'  BY <1>1, <1>3 DEF Requested, IsSent, Unanswered
<1>6. QED  BY <1>1, <1>4, <1>5, UpKept DEF UpSame, IsSent, Unanswered

LEMMA OnePdu ==
    ASSUME Typed, NEW k \in Kinds, NEW n \in Nat
    PROVE  /\ Pdu(k, n) \in Seq(Tokens)
           /\ \A i \in 1 .. Len(Pdu(k, n)) :
                 IsAnswer(Pdu(k, n)[i]) => i = 1 /\ k # "push" /\ Pdu(k, n)[i].kind = k
<1>1. /\ Pdu(k, n) \in Seq(Tokens) /\ Len(Pdu(k, n)) = 2
      /\ Pdu(k, n)[1].kind = k /\ ~IsHeader(Pdu(k, n)[2])
  BY PduIs
<1>2. \A i \in 1 .. 2 : i = 1 \/ i = 2  OBVIOUS
<1>3. QED  BY <1>1, <1>2 DEF IsAnswer

\* Some of a file is written.
LEMMA WrittenOn ==
    ASSUME UpInv, Typed', Ended', NEW d \in Seq(Tokens), NEW n \in Nat, NEW st, NEW file,
           WriteUploadData(d, st, file), d # << >>,
           n = st.total, st.received = Len(file.data),
           st \in [active : {TRUE}, total : Nat, received : Nat],
           file \in [by : {conn}, size : {n}, data : Seq(Tokens)],
           (file.data \o d) \o toServer' = IF timer = {} THEN FileBytes(n) ELSE << >>,
           recvbuf' = << >>, UNCHANGED <<link, conn, refused, garbled, client>>,
           waiting = "upload", Unanswered, ~refused,
           timer \in {{}, {n}}
    PROVE  UpInv'
<1>1. UNCHANGED <<inbox, reading, download, timer, waiting>>  BY DEF client
<1>2. /\ file.data \o d \in Seq(Tokens) /\ Len(file.data \o d) = Len(file.data) + Len(d)
      /\ Len(file.data) \in Nat /\ Len(d) \in Nat
  BY Glued
<1>3. file.data \o d # << >>  BY ConcatEqualIffEmpty
<1>4. /\ timer = {} /\ (file.data \o d) \o toServer' = FileBytes(n)
      /\ Len(file.data \o d) >= n => toServer' = << >> /\ file.data \o d = FileBytes(n)
  BY <1>2, <1>3, Writing DEF UpInv, Typed
<1>5. stored' = [file EXCEPT !.data = file.data \o d]  BY DEF WriteUploadData
<1>6. stored'.by = conn /\ stored'.size = n /\ stored'.data = file.data \o d  BY <1>5
<1>7. garbled' => refused'  BY DEF UpInv, Aligned
<1>8. CASE Len(file.data \o d) >= n
  <2>1. upload' = NoUpload /\ toClient' = toClient \o Pdu("upload_ok", 0)
    BY <1>2, <1>8 DEF WriteUploadData
  <2>2. Served'
    <3>1. << >> \o << >> = << >>  BY ConcatEmptySeq, EmptySeq
    <3>2. QED  BY <1>1, <1>4, <1>8, <2>1, <3>1 DEF Served, Up, NoUpload
  <2>3. /\ Pdu("upload_ok", 0) \in Seq(Tokens)
        /\ \A i \in 1 .. Len(Pdu("upload_ok", 0)) :
              IsAnswer(Pdu("upload_ok", 0)[i]) => i = 1 /\ AnswerTo(Pdu("upload_ok", 0)[i], waiting)
    <3>1. waiting = "upload" /\ Typed /\ "upload_ok" \in Kinds /\ 0 \in Nat  BY DEF UpInv, Kinds, Answers
    <3>2. QED  BY <3>1, OnePdu DEF AnswerTo
  <2>4. Answered'  BY <1>1, <2>1, <2>2, <2>3, Replied DEF UpInv, Unanswered
  <2>5. StoredWhole'
    <3>1. /\ Len(FileBytes(n)) = n
          /\ \A i \in 1 .. n :
                FileBytes(n)[i] = [kind |-> "byte", size |-> i, by |-> conn, part |-> 0]
      BY FileIs DEF UpInv
    <3>2. QED  BY <1>4, <1>6, <1>8, <3>1 DEF StoredWhole
  <2>6. Requested'  BY <1>1, <2>2 DEF Requested
  <2>7. QED  BY <1>7, <2>4, <2>5, <2>6 DEF UpInv, Aligned
<1>9. CASE ~(Len(file.data \o d) >= n)
  <2>1. upload' = [st EXCEPT !.received = st.received + Len(d)] /\ toClient' = toClient
    BY <1>2, <1>9 DEF WriteUploadData
  <2>2. upload'.active /\ upload'.total = n /\ upload'.received = Len(file.data \o d)
    BY <1>2, <2>1
  <2>3. Down' = Down  BY <1>1, <2>1 DEF Down
  <2>4. Unanswered'  BY <1>1, <2>3 DEF Unanswered
  <2>5. (stored.data \o toServer)' = FileBytes(upload.total)'
    BY <1>4, <1>6, <2>2 DEF FileBytes
  <2>6. Uploading'  BY <1>1, <1>4, <1>6, <2>2, <2>4, <2>5 DEF Uploading
  <2>7. Answered'  BY <1>1, <2>3 DEF UpInv, Answered, Unanswered
  <2>8. QED  BY <1>7, <2>2, <2>6, <2>7 DEF UpInv, Requested, Uploading, Aligned, StoredWhole
<1>10. QED  BY <1>8, <1>9

\* The answer to a download and the file, in one.
File(n, m) == Pdu("download_rsp", n) \o FileBytes(m)

Announces(f, n, m) ==
    /\ f \in Seq(Tokens) /\ Len(f) = 2 + m
    /\ \A i \in 1 .. Len(f) : IsHeader(f[i]) =>
          i = 1 /\ f[i].kind = "download_rsp" /\ f[i].size = n
    /\ \A i \in 1 .. m : f[2 + i].kind = "byte" /\ f[2 + i].size = i

LEMMA DownloadAnswer ==
    ASSUME Typed, NEW n \in Nat, NEW m \in Nat
    PROVE  /\ Announces(File(n, m), n, m)
           /\ toClient \o Pdu("download_rsp", n) \o FileBytes(m) = toClient \o File(n, m)
<1> DEFINE p == Pdu("download_rsp", n)
           f == FileBytes(m)
<1>1. /\ p \in Seq(Tokens) /\ Len(p) = 2 /\ ~IsHeader(p[2])
      /\ p[1].kind = "download_rsp" /\ p[1].size = n
  <2>1. "download_rsp" \in Kinds  BY DEF Kinds, Answers
  <2>2. QED  BY <2>1, PduIs
<1>2. /\ f \in Seq(Tokens) /\ Len(f) = m /\ \A i \in 1 .. m : ~IsHeader(f[i])
      /\ \A i \in 1 .. m : f[i].kind = "byte" /\ f[i].size = i
  <2>1. /\ f \in Seq(Tokens) /\ Len(f) = m
        /\ \A i \in 1 .. m : ~IsHeader(f[i])
        /\ \A i \in 1 .. m : f[i] = [kind |-> "byte", size |-> i, by |-> conn, part |-> 0]
    BY FileIs
  <2> HIDE DEF f
  <2>2. QED  BY <2>1
<1> HIDE DEF p, f
<1>3. toClient \o p \o f = toClient \o (p \o f)
  <2>1. Join(Join(toClient, p), f) = Join(toClient, Join(p, f))  BY <1>1, <1>2, Regrouped DEF Typed
  <2>2. QED  BY <2>1 DEF Join
<1>4. /\ p \o f \in Seq(Tokens) /\ Len(p \o f) = 2 + m
      /\ \A i \in 1 .. 2 : (p \o f)[i] = p[i]
      /\ \A i \in 1 .. m : (p \o f)[2 + i] = f[i]
      /\ \A i \in 1 .. 2 + m : i \in 1 .. 2 \/ (i - 2 \in 1 .. m /\ (p \o f)[i] = f[i - 2])
  <2>1. /\ p \o f \in Seq(Tokens) /\ Len(p \o f) = Len(p) + Len(f)
        /\ \A i \in 1 .. Len(p) : (p \o f)[i] = p[i]
        /\ \A i \in 1 .. Len(f) : (p \o f)[Len(p) + i] = f[i]
        /\ \A i \in 1 .. Len(p) + Len(f) :
              i \in 1 .. Len(p) \/ (i - Len(p) \in 1 .. Len(f) /\ (p \o f)[i] = f[i - Len(p)])
    <3>1. p \in Seq(Tokens) /\ f \in Seq(Tokens)  BY <1>1, <1>2
    <3>2. QED  BY ONLY <3>1, Glued
  <2>2. Len(p) = 2 /\ Len(f) = m  BY <1>1, <1>2
  <2>3. QED  BY <2>1, <2>2
<1>5. ASSUME NEW i \in 1 .. 2 + m, IsHeader((p \o f)[i])
      PROVE  i = 1 /\ (p \o f)[i].kind = "download_rsp" /\ (p \o f)[i].size = n
  <2>1. i \in 1 .. 2  BY <1>2, <1>4, <1>5
  <2>2. i # 2  BY <1>1, <1>4, <1>5, <2>1
  <2>3. i = 1  BY <2>1, <2>2
  <2>4. QED  BY <1>1, <1>4, <2>3
<1>6. \A i \in 1 .. m : (p \o f)[2 + i].kind = "byte" /\ (p \o f)[2 + i].size = i
  BY <1>2, <1>4
<1>7. QED  BY <1>3, <1>4, <1>5, <1>6 DEF p, f, File, Announces

LEMMA ServerInStep ==
    ASSUME UpInv, Receive \/ Handlers \/ Push \/ HandleClose  PROVE UpInv'
<1> USE DEF UpSame
<1>1. Typed' /\ Ended'  BY TypedServer, EndedServer DEF UpInv
<1>2. ASSUME NEW n \in 1 .. Len(toServer), HandleMessage(n) PROVE UpInv'
  <2> DEFINE d == SubSeq(toServer, 1, n)
             r == SubSeq(toServer, n + 1, Len(toServer))
  <2>1. /\ d \in Seq(Tokens) /\ Len(d) = n /\ r \in Seq(Tokens) /\ d \o r = toServer
        /\ (recvbuf \o d) \o r = recvbuf \o toServer
    <3>1. recvbuf \in Seq(Tokens) /\ toServer \in Seq(Tokens)  BY DEF UpInv, Typed
    <3>2. d \in Seq(Tokens) /\ Len(d) = n /\ r \in Seq(Tokens) /\ d \o r = toServer
      BY <3>1, Cut
    <3>3. (recvbuf \o d) \o r = recvbuf \o toServer  BY <3>1, Moved
    <3>4. QED  BY <3>2, <3>3
  <2>2. /\ link # "closed" /\ toServer' = r
        /\ upload.active => WriteUploadData(d, upload, stored) /\ recvbuf' = recvbuf
        /\ ~upload.active => /\ recvbuf' = recvbuf \o d
                             /\ UNCHANGED <<upload, stored, toClient>>
        /\ UNCHANGED <<link, conn, refused, garbled, client>>
    BY <1>2 DEF HandleMessage
  <2> HIDE DEF d, r
  <2>3. CASE ~upload.active
    <3>1. Up' = Up  BY <2>1, <2>2, <2>3 DEF Up
    <3>2. Down' = Down  BY <2>2, <2>3 DEF Down, client
    <3>3. UNCHANGED <<timer, waiting, download, reading>>  BY <2>2 DEF client
    <3>4. Requested' /\ (Served => Served')  BY <2>2, <2>3, <3>1, <3>2, <3>3, RequestedKept DEF UpInv
    <3>5. Answered'  BY <3>2, <3>3, <3>4 DEF UpInv, Answered
    <3>6. QED  BY <1>1, <2>2, <2>3, <3>4, <3>5, UpKept
  <2>4. CASE upload.active
    <3>1. Uploading /\ ~refused
      BY <2>2, <2>4 DEF UpInv, Requested, Served, IsSent, Announced, IsRefused
    <3>2. d # << >>
      <4>1. Len(<< >>) = 0  BY EmptySeq
      <4>2. QED  BY <2>1, <4>1
    <3>3. (stored.data \o d) \o toServer' = IF timer = {} THEN FileBytes(upload.total) ELSE << >>
      <4>1. stored.data \in Seq(Tokens)  BY DEF UpInv, Typed
      <4>2. Join(Join(stored.data, d), r) = Join(stored.data, Join(d, r))  BY <2>1, <4>1, Regrouped
      <4>3. QED  BY <2>1, <2>2, <3>1, <4>2 DEF Join, Uploading
    <3>4. /\ upload.total \in Nat /\ upload \in [active : {TRUE}, total : Nat, received : Nat]
          /\ stored \in [by : {conn}, size : {upload.total}, data : Seq(Tokens)]
          /\ upload.received = Len(stored.data)
      BY <2>4, <3>1 DEF UpInv, Typed, Uploading
    <3>5. /\ waiting = "upload" /\ Unanswered /\ timer \in {{}, {upload.total}}
          /\ recvbuf' = << >>
      BY <2>2, <2>4, <3>1 DEF Uploading
    <3>6. QED  BY <1>1, <2>1, <2>2, <2>4, <3>1, <3>2, <3>3, <3>4, <3>5, WrittenOn
  <2>5. QED  BY <2>3, <2>4
<1>3. CASE HandleAsk
  <2>1. /\ Pick("ask") /\ recvbuf' = Rest /\ toClient' = toClient \o Pdu("reply", 0)
        /\ UNCHANGED <<link, conn, toServer, upload, stored, refused, garbled, client>>
    BY <1>3 DEF HandleAsk
  <2>2. /\ Pdu("reply", 0) \in Seq(Tokens)
        /\ \A i \in 1 .. Len(Pdu("reply", 0)) :
              IsAnswer(Pdu("reply", 0)[i]) => i = 1 /\ AnswerTo(Pdu("reply", 0)[i], "ask")
    BY OnePdu DEF UpInv, Kinds, Answers, AnswerTo
  <2>3. QED  BY <1>1, <2>1, <2>2, AnswerOut
<1>4. CASE AnswerDownload
  <2>0. PICK n \in Nat, sent \in Nat : n = Head(recvbuf).size /\ HandleDownloadFile(sent)
    BY <1>4, TypedPick, TransferAssumption DEF UpInv, AnswerDownload, HandleDownloadFile
  <2>1. /\ Pick("download") /\ recvbuf' = Rest
        /\ toClient' = toClient \o Pdu("download_rsp", n) \o FileBytes(sent)
        /\ UNCHANGED <<link, conn, toServer, upload, stored, refused, garbled, client>>
    BY <2>0 DEF HandleDownloadFile
  <2>2. Typed  BY DEF UpInv
  <2>3. /\ File(n, sent) \in Seq(Tokens) /\ toClient' = toClient \o File(n, sent)
        /\ \A i \in 1 .. Len(File(n, sent)) :
              IsHeader(File(n, sent)[i]) => i = 1 /\ File(n, sent)[i].kind = "download_rsp"
    <3>1. /\ Announces(File(n, sent), n, sent)
          /\ toClient \o Pdu("download_rsp", n) \o FileBytes(sent) = toClient \o File(n, sent)
      BY <2>2, DownloadAnswer
    <3>2. QED  BY <2>1, <3>1 DEF Announces
  <2>4. \A i \in 1 .. Len(File(n, sent)) :
          IsAnswer(File(n, sent)[i]) => i = 1 /\ AnswerTo(File(n, sent)[i], "download")
    BY <2>3 DEF IsAnswer, AnswerTo
  <2>5. QED  BY <1>1, <2>1, <2>3, <2>4, AnswerOut
<1>5. CASE HandleUpdateFile
  <2>0. PICK n \in Nat : n = Head(recvbuf).size
    BY <1>5, TypedPick DEF UpInv, HandleUpdateFile
  <2> DEFINE st == [active |-> TRUE, total |-> n, received |-> 0]
             file == [by |-> conn, size |-> n, data |-> << >>]
  <2>1. /\ Pick("upload") /\ IsHeader(Head(recvbuf)) /\ recvbuf' = << >>
        /\ Rest = << >> => upload' = st /\ stored' = file /\ toClient' = toClient
        /\ Rest # << >> => WriteUploadData(Rest, st, file)
        /\ UNCHANGED <<link, conn, toServer, refused, garbled, client>>
    BY <1>5, <2>0 DEF HandleUpdateFile, Pick
  <2>2. /\ Announced(n) /\ ~refused /\ n \in Nat /\ Rest \in Seq(Tokens) /\ ~Served
        /\ Rest \o toServer' = IF timer = {} THEN FileBytes(n) ELSE << >>
    BY <2>0, <2>1, Picked DEF Requests
  <2>3. << >> \in Seq(Tokens) /\ << >> \o Rest = Rest /\ Len(<< >>) = 0
    BY <2>2, Empty, EmptySeq
  <2>4. /\ timer \in {{}, {n}} /\ waiting = "upload" /\ Unanswered
    BY <2>2 DEF Announced
  <2>5. CASE Rest = << >>
    <3>1. Down' = Down /\ UNCHANGED <<waiting, timer, download, reading>>
      BY <2>1, <2>5 DEF Down, client
    <3>2. Unanswered' /\ Answered'
      BY <2>1, <2>2, <2>4, <3>1 DEF UpInv, Answered, Unanswered
    <3>3. (stored.data \o toServer)' = IF timer' = {} THEN FileBytes(n)' ELSE << >>
      BY <2>1, <2>2, <2>5, <3>1 DEF FileBytes
    <3>4. upload'.active /\ upload'.total = n /\ upload'.received = 0 /\ stored'.by = conn
          /\ stored'.size = n /\ stored'.data = << >>
      BY <2>1, <2>5
    <3>5. FileBytes(n)' = FileBytes(upload.total)'  BY <3>4 DEF FileBytes
    <3>6. Uploading'  BY <2>1, <2>3, <2>4, <3>1, <3>2, <3>3, <3>4, <3>5 DEF Uploading
    <3>7. StoredWhole' /\ Aligned'
      BY <2>1, <3>4 DEF UpInv, Aligned, StoredWhole
    <3>8. Requested'  BY <2>1, <2>2, <2>4, <3>6 DEF Requested
    <3>9. QED  BY <1>1, <3>2, <3>7, <3>8 DEF UpInv
  <2>6. CASE Rest # << >>
    <3>1. /\ st \in [active : {TRUE}, total : Nat, received : Nat] /\ st.total = n
          /\ file \in [by : {conn}, size : {n}, data : Seq(Tokens)]
          /\ file.data = << >> /\ st.received = Len(file.data)
      BY <2>2, <2>3
    <3>2. (file.data \o Rest) \o toServer' = IF timer = {} THEN FileBytes(n) ELSE << >>
      BY <2>2, <2>3, <3>1
    <3>3. WriteUploadData(Rest, st, file)  BY <2>1, <2>6
    <3> HIDE DEF st, file
    <3>4. QED  BY <1>1, <2>1, <2>2, <2>4, <2>6, <3>1, <3>2, <3>3, WrittenOn
  <2>7. QED  BY <2>5, <2>6
<1>6. CASE HandleUpdateFileFails
  <2> DEFINE n == Head(recvbuf).size
  <2>1. /\ Pick("upload") /\ IsHeader(Head(recvbuf)) /\ recvbuf' = Rest /\ refused'
        /\ UNCHANGED <<link, conn, toServer, toClient, upload, stored, garbled, client>>
    BY <1>6 DEF HandleUpdateFileFails, Pick, network
  <2>2. /\ Announced(n) /\ n \in Nat
        /\ Rest \o toServer = IF timer = {} THEN FileBytes(n) ELSE << >>
    BY <2>1, Picked DEF Requests
  <2>3. Down' = Down /\ UNCHANGED <<waiting, timer, download, reading>>  BY <2>1 DEF Down, client
  <2>4. \A i \in 1 .. Len(Up') : ~IsHeader(Up'[i])
    <3>1. Up' = FileBytes(n) \/ Up' = << >>  BY <2>1, <2>2 DEF Up
    <3>2. Len(FileBytes(n)) = n /\ \A i \in 1 .. n : ~IsHeader(FileBytes(n)[i])
      BY <2>2, FileIs DEF UpInv
    <3>3. Len(<< >>) = 0  BY EmptySeq
    <3>4. QED  BY <3>1, <3>2, <3>3
  <2>5. IsRefused' /\ ~Served  BY <2>1, <2>2, <2>3, <2>4, Picked DEF Announced, IsRefused, Unanswered, Requests
  <2>6. Answered'  BY <2>1, <2>3, <2>5 DEF UpInv, Answered
  <2>7. QED
    BY <1>1, <2>1, <2>2, <2>5, <2>6 DEF UpInv, Requested, Announced, Aligned, StoredWhole
<1>7. CASE ParsingDone \/ TakesGarbage
  <2>1. UNCHANGED <<link, conn, toServer, toClient, recvbuf, upload, stored, refused, client>>
    BY <1>7 DEF ParsingDone, TakesGarbage, network
  <2>2. Up' = Up /\ Down' = Down /\ UNCHANGED <<timer, waiting, download, reading>>
    BY <2>1 DEF Up, Down, client
  <2>3. Requested' /\ (Served => Served')  BY <2>1, <2>2, RequestedKept DEF UpInv
  <2>4. Answered'  BY <2>2, <2>3 DEF UpInv, Answered
  <2>5. garbled' => refused'
    <3>1. CASE ParsingDone  BY <2>1, <3>1 DEF ParsingDone, UpInv, Aligned
    <3>2. CASE TakesGarbage
      <4>1. recvbuf # << >> /\ ~IsHeader(Head(recvbuf))  BY <3>2 DEF TakesGarbage
      <4>2. CASE IsRefused  BY <2>1, <4>2 DEF IsRefused
      <4>3. CASE ~IsRefused
        <5>1. PICK k \in Requests, n \in Nat : \E f \in Seq(Tokens) : Up = Pdu(k, n) \o f
          <6>1. CASE IsSent
            <7>1. PICK k \in {"ask", "download"}, n \in Nat : Up = Pdu(k, n)  BY <6>1 DEF IsSent
            <7>2. Pdu(k, n) \in Seq(Tokens)  BY PduIs DEF UpInv, Kinds, Requests
            <7>3. Up = Pdu(k, n) \o << >> /\ << >> \in Seq(Tokens)  BY <7>1, <7>2, Empty
            <7>4. QED  BY <7>3 DEF Requests
          <6>2. ASSUME NEW n \in Sizes, Announced(n)
                PROVE  n \in Nat /\ \E f \in Seq(Tokens) : Up = Pdu("upload", n) \o f
            <7>1. n \in Nat  BY TransferAssumption
            <7>2. FileBytes(n) \in Seq(Tokens) /\ << >> \in Seq(Tokens)
              BY <7>1, FileIs, EmptySeq DEF UpInv
            <7>3. QED  BY <6>2, <7>1, <7>2 DEF Announced
          <6>3. QED  BY <4>1, <4>3, <6>1, <6>2, First DEF UpInv, Requests
        <5>2. Pdu(k, n) \in Seq(Tokens) /\ Len(Pdu(k, n)) = 2 /\ IsHeader(Pdu(k, n)[1])
          BY PduIs DEF UpInv, Kinds
        <5>3. PICK f \in Seq(Tokens) : Up = Pdu(k, n) \o f  BY <5>1
        <5>4. 1 \in 1 .. 2  OBVIOUS
        <5>5. Up[1] = Pdu(k, n)[1]  BY <5>2, <5>3, <5>4, Glued
        <5>6. Head(recvbuf) = Up[1]  BY <4>1, First DEF UpInv
        <5>7. QED  BY <4>1, <5>2, <5>5, <5>6
      <4>4. QED  BY <4>2, <4>3
    <3>3. QED  BY <1>7, <3>1, <3>2
  <2>6. QED  BY <1>1, <2>1, <2>3, <2>4, <2>5 DEF UpInv, Aligned, StoredWhole
<1>8. CASE Push
  <2>1. /\ link # "closed" /\ toClient' = toClient \o Pdu("push", 0)
        /\ UNCHANGED <<link, conn, toServer, recvbuf, upload, stored, refused, garbled>>
        /\ UNCHANGED <<inbox, timer, waiting, download, reading>>
    BY <1>8 DEF Push, server, client
  <2>2. Pdu("push", 0) \in Seq(Tokens) /\ Silent(Pdu("push", 0))
    BY OnePdu DEF UpInv, Kinds, Answers, Silent
  <2>3. Down' = Down \o Pdu("push", 0) /\ Down \in Seq(Tokens)  BY <2>1, <2>2, Behind DEF UpInv
  <2>4. NoMore(Down', Down)  BY <2>2, <2>3, SilentAdded
  <2>5. Up' = Up  BY <2>1 DEF Up
  <2>6. Requested' /\ (Served => Served')
    BY <2>1, <2>4, <2>5, RequestedKept DEF UpInv, NoMore
  <2>7. Answered'  BY <2>1, <2>4, <2>6, AnsweredKept DEF UpInv
  <2>8. QED  BY <1>1, <2>1, <2>6, <2>7, UpKept
<1>9. CASE HandleClose
  <2>1. /\ link = "closing" /\ link' = "closed" /\ toServer' = << >> /\ toClient' = << >>
        /\ recvbuf' = << >> /\ ~refused' /\ ~garbled'
        /\ UNCHANGED <<conn, upload, stored, inbox, timer, waiting, download, reading>>
    BY <1>9 DEF HandleClose, client
  <2>3. Served => Served'
    <3>1. << >> \o << >> = << >>  BY ConcatEmptySeq, EmptySeq
    <3>2. QED  BY <2>1, <3>1 DEF Served, Up
  <2>4. NoMore(Down', Down)
    <3>1. inbox \in Seq(Tokens) /\ toClient \in Seq(Tokens)  BY DEF UpInv, Typed
    <3>2. Down' = inbox  BY <2>1, <3>1, Empty DEF Down
    <3>3. /\ Len(Down) = Len(inbox) + Len(toClient) /\ Len(inbox) \in Nat /\ Len(toClient) \in Nat
          /\ \A i \in 1 .. Len(inbox) : Down[i] = inbox[i]
      BY <3>1, Glued DEF Down
    <3>4. /\ Len(Down') \in Nat /\ Len(Down) \in Nat /\ Len(Down') + 0 <= Len(Down)
          /\ \A i \in 1 .. Len(Down') : Down'[i] = Down[i + 0]
      BY <3>2, <3>3
    <3>5. QED  BY <3>4, SomeLeft
  <2>5. Answered'  BY <2>1, <2>3, <2>4, AnsweredKept DEF UpInv
  <2>6. Requested'  BY <2>1 DEF Requested
  <2>7. QED  BY <1>1, <2>1, <2>5, <2>6 DEF UpInv, Aligned, StoredWhole
<1>10. QED  BY <1>2, <1>3, <1>4, <1>5, <1>6, <1>7, <1>8, <1>9 DEF Receive, Handlers, AnswerDownload

\* The loop of recvMsg has taken a PDU, and what is left begins behind it.
LEMMA PduOut ==
    ASSUME Typed, TakePdu
    PROVE  /\ Head(inbox) = Down[1] /\ Head(inbox) \in Tokens
           /\ Len(Down) \in Nat /\ Len(Down) >= 2 /\ Len(Down') = Len(Down) - 2
           /\ \A i \in 1 .. Len(Down') : Down'[i] = Down[i + 2]
           /\ Down' \in Seq(Tokens)
<1>1. /\ inbox \in Seq(Tokens) /\ toClient \in Seq(Tokens) /\ Len(inbox) >= 2
      /\ inbox' = SubSeq(inbox, 3, Len(inbox)) /\ toClient' = toClient
  BY DEF TakePdu, RecvPdu, Typed, network
<1>2. inbox # << >>  BY <1>1, EmptySeq
<1>3. Head(inbox) \in Tokens  BY <1>1, <1>2, HeadTailProperties
<1>4. /\ SubSeq(inbox, 3, Len(inbox)) \o toClient \in Seq(Tokens)
      /\ Len(SubSeq(inbox, 3, Len(inbox)) \o toClient) = Len(inbox \o toClient) - 2
      /\ \A i \in 1 .. Len(inbox \o toClient) - 2 :
            (SubSeq(inbox, 3, Len(inbox)) \o toClient)[i] = (inbox \o toClient)[i + 2]
      /\ Head(inbox) = (inbox \o toClient)[1]
      /\ Len(inbox \o toClient) \in Nat /\ Len(inbox \o toClient) >= 2
  BY <1>1, TakenTwo
<1>5. Down' = SubSeq(inbox, 3, Len(inbox)) \o toClient /\ Down = inbox \o toClient
  BY <1>1 DEF Down
<1>6. QED  BY <1>3, <1>4, <1>5

\* Download mode has taken all that was in the socket.
LEMMA FileIn ==
    ASSUME Typed, RecvFile
    PROVE  /\ Down' = toClient /\ Down' \in Seq(Tokens) /\ Down = inbox \o Down'
           /\ saved' = (IF download.open THEN saved \o inbox ELSE saved) /\ NoMore(Down', Down)
<1>1. /\ inbox \in Seq(Tokens) /\ toClient \in Seq(Tokens)
      /\ inbox' = << >> /\ toClient' = toClient
      /\ saved' = IF download.open THEN saved \o inbox ELSE saved
  BY DEF RecvFile, Typed, network
<1>2. Down' = toClient /\ Down = inbox \o toClient  BY <1>1, Empty DEF Down
<1>3. /\ Len(Down) = Len(inbox) + Len(toClient) /\ Len(inbox) \in Nat /\ Len(toClient) \in Nat
      /\ \A i \in 1 .. Len(toClient) : Down[Len(inbox) + i] = toClient[i]
  BY <1>1, <1>2, Glued
<1>4. ASSUME NEW i \in 1 .. Len(toClient) PROVE toClient[i] = Down[i + Len(inbox)]
  <2>1. i + Len(inbox) = Len(inbox) + i  BY <1>3
  <2>2. QED  BY <1>3, <2>1
<1>5. NoMore(toClient, Down)
  <2>1. Len(toClient) + Len(inbox) <= Len(Down) /\ Len(Down) \in Nat  BY <1>3
  <2>2. QED  BY <1>3, <1>4, <2>1, SomeLeft
<1>6. QED  BY <1>1, <1>2, <1>5

LEMMA ClientInStep ==
    ASSUME UpInv, Arrive \/ RecvMsg  PROVE UpInv'
<1> USE DEF UpSame
<1>1. Typed' /\ Ended'  BY TypedClient, EndedClient DEF UpInv
<1>2. ASSUME NEW n \in 1 .. Len(toClient), Deliver(n) PROVE UpInv'
  <2>1. /\ link = "open" /\ inbox' = inbox \o SubSeq(toClient, 1, n)
        /\ toClient' = SubSeq(toClient, n + 1, Len(toClient))
        /\ reading' = "dialog" => reading = "dialog"
        /\ UNCHANGED <<link, conn, toServer, recvbuf, upload, stored, refused, garbled>>
        /\ UNCHANGED <<download, timer, waiting>>
    BY <1>2 DEF Deliver, server
  <2>2. Down' = Down
    <3>1. inbox \in Seq(Tokens) /\ toClient \in Seq(Tokens)  BY DEF UpInv, Typed
    <3>2. (inbox \o SubSeq(toClient, 1, n)) \o SubSeq(toClient, n + 1, Len(toClient)) = inbox \o toClient
      BY <3>1, Moved
    <3>3. QED  BY <2>1, <3>2 DEF Down
  <2>3. Up' = Up  BY <2>1 DEF Up
  <2>4. Requested' /\ (Served => Served')  BY <2>1, <2>2, <2>3, RequestedKept DEF UpInv
  <2>5. Answered'  BY <2>1, <2>2, <2>4 DEF UpInv, Answered
  <2>6. QED  BY <1>1, <2>1, <2>4, <2>5, UpKept
<1>3. CASE TakePdu
  <2> DEFINE pdu == Head(inbox)
  <2>1. /\ ~download.active /\ IsHeader(pdu) /\ reading = "loop" /\ link = "open"
        /\ UNCHANGED <<link, conn, toServer, recvbuf, upload, stored, refused, garbled, timer, reading>>
    BY <1>3 DEF TakePdu, RecvPdu, network, server
  <2>2. /\ pdu = Down[1] /\ Len(Down) \in Nat /\ Len(Down) >= 2 /\ Len(Down') = Len(Down) - 2
        /\ \A i \in 1 .. Len(Down') : Down'[i] = Down[i + 2]
    BY <1>3, PduOut DEF UpInv
  <2>3. Len(Down') \in Nat /\ Len(Down') + 2 <= Len(Down)  BY <2>2
  <2>4. NoMore(Down', Down)  BY <2>2, <2>3, SomeLeft
  <2>5. Up' = Up  BY <2>1 DEF Up
  <2>6. 1 \in 1 .. Len(Down)  BY <2>2
  <2>7. CASE pdu.kind = "push"
    <3>1. UNCHANGED <<waiting, download>>
      BY <1>3, <2>7 DEF TakePdu, RecvPdu, UpInv, Typed, Requests
    <3>2. Requested' /\ (Served => Served')
      BY <2>1, <2>4, <2>5, <3>1, RequestedKept DEF UpInv, NoMore
    <3>3. Answered'  BY <2>1, <2>4, <3>1, <3>2, AnsweredKept DEF UpInv
    <3>4. QED  BY <1>1, <2>1, <3>2, <3>3, UpKept
  <2>8. CASE pdu.kind # "push"
    <3>1. IsAnswer(Down[1])  BY <2>1, <2>2, <2>8 DEF IsAnswer
    <3>2. ~Silent(Down) /\ AnswerTo(Down[1], waiting) /\ OneAnswer(Down) /\ Served
      BY <2>6, <3>1 DEF Silent, UpInv, Answered, Fits
    <3>3. Silent(Down')
      <4>1. ASSUME NEW i \in 1 .. Len(Down'), IsAnswer(Down'[i]) PROVE FALSE
        <5>1. i + 2 \in 1 .. Len(Down) /\ IsAnswer(Down[i + 2]) /\ i + 2 # 1  BY <2>2, <2>3, <4>1
        <5>2. QED  BY <2>6, <3>1, <3>2, <5>1 DEF OneAnswer
      <4>2. QED  BY <4>1 DEF Silent
    <3>4. ~refused /\ Served'
      BY <2>1, <2>5, <3>2 DEF UpInv, Requested, IsRefused, Unanswered, Served
    <3>5. Requested'  BY <2>1, <3>4 DEF Requested
    <3>6. OneAnswer(Down') /\ Fits(Down', waiting')  BY <3>3 DEF Silent, OneAnswer, Fits
    <3>7. download'.active => waiting' = "download"
      <4>1. CASE pdu.kind = "download_rsp" /\ pdu.size > 0
        <5>1. waiting = "download" /\ waiting' = waiting
          BY <1>3, <2>2, <3>2, <4>1 DEF AnswerTo, TakePdu, RecvPdu
        <5>2. QED  BY <5>1
      <4>2. CASE ~(pdu.kind = "download_rsp" /\ pdu.size > 0)
        <5>1. download' = download  BY <1>3, <4>2 DEF TakePdu, RecvPdu
        <5>2. QED  BY <2>1, <5>1
      <4>3. QED  BY <4>1, <4>2
    <3>8. Answered'  BY <2>1, <3>3, <3>4, <3>6, <3>7 DEF Answered
    <3>9. QED  BY <1>1, <2>1, <3>5, <3>8, UpKept
  <2>9. QED  BY <2>7, <2>8
<1>4. CASE RecvMsgReturns \/ RecvGarbage
  <2>1. /\ link = "open"
        /\ reading' = "dialog" => reading = "dialog"
        /\ UNCHANGED <<link, conn, toServer, toClient, recvbuf, upload, stored, refused, garbled>>
        /\ UNCHANGED <<inbox, download, timer, waiting>>
    BY <1>4 DEF RecvMsgReturns, RecvGarbage, server, network
  <2>2. Up' = Up /\ Down' = Down  BY <2>1 DEF Up, Down
  <2>3. Requested' /\ (Served => Served')  BY <2>1, <2>2, RequestedKept DEF UpInv
  <2>4. Answered'  BY <2>1, <2>2, <2>3 DEF UpInv, Answered
  <2>5. QED  BY <1>1, <2>1, <2>3, <2>4, UpKept
<1>5. CASE RecvFile
  <2>1. /\ download.active /\ link = "open"
        /\ UNCHANGED <<link, conn, toServer, recvbuf, upload, stored, refused, garbled, timer>>
    BY <1>5 DEF RecvFile, network, server
  <2>2. Served /\ Silent(Down) /\ waiting = "download"  BY <2>1 DEF UpInv, Answered
  <2>3. ~refused  BY <2>1 DEF UpInv, Requested, IsRefused, Unanswered
  <2>4. Silent(Down')  BY <1>5, <2>2, FileIn DEF UpInv, NoMore
  <2>5. Served'  BY <2>1, <2>2 DEF Served, Up
  <2>7. /\ download'.active => waiting' = "download"
        /\ reading' = "dialog" => download'.active
    <3>1. \/ /\ download' = [download EXCEPT !.received = download.received + Len(inbox)]
             /\ waiting' = waiting
          \/ download' = NoDownload /\ reading' = "no"
      BY <1>5 DEF RecvFile
    <3>2. download \in [active : BOOLEAN, total : Nat, received : Nat, open : BOOLEAN]  BY DEF UpInv, Typed
    <3>3. QED  BY <2>1, <2>2, <3>1, <3>2 DEF NoDownload
  <2>8. Answered'  BY <2>4, <2>5, <2>7 DEF Answered, Silent, OneAnswer, Fits
  <2>9. Requested'  BY <2>1, <2>3, <2>5 DEF Requested
  <2>10. QED  BY <1>1, <2>1, <2>8, <2>9, UpKept
<1>6. CASE DialogClosed
  <2>1. /\ reading = "dialog" /\ link = "open" /\ reading' = "no" /\ ~download'.active
        /\ UNCHANGED <<link, conn, toServer, toClient, recvbuf, upload, stored, refused, garbled>>
        /\ UNCHANGED <<inbox, timer>>
    BY <1>6 DEF DialogClosed, NoDownload, network, server
  <2>2. download.active /\ Served /\ Silent(Down)  BY <2>1 DEF UpInv, Answered
  <2>3. ~refused  BY <2>1, <2>2 DEF UpInv, Requested, IsRefused, Unanswered
  <2>4. Down' = Down /\ Served'  BY <2>1, <2>2 DEF Down, Served, Up
  <2>5. Answered'  BY <2>1, <2>2, <2>4 DEF Answered, Silent, OneAnswer, Fits
  <2>6. Requested'  BY <2>1, <2>3, <2>4 DEF Requested
  <2>7. QED  BY <1>1, <2>1, <2>5, <2>6, UpKept
<1>7. QED  BY <1>2, <1>3, <1>4, <1>5, <1>6 DEF Arrive, RecvMsg, TakePdu
-----------------------------------------------------------------------------
(* Uploads.                                                                *)

LEMMA UpInit == Init => UpInv
<1> SUFFICES ASSUME Init PROVE UpInv  OBVIOUS
<1>1. /\ recvbuf = << >> /\ toServer = << >> /\ inbox = << >> /\ toClient = << >>
      /\ link = "open" /\ timer = {} /\ ~refused /\ ~garbled /\ upload = NoUpload
      /\ reading = "no" /\ ~download.active
      /\ stored = [by |-> 1, size |-> 0, data |-> << >>]
  BY DEF Init, NoDownload
<1>2. << >> \o << >> = << >> /\ Len(<< >>) = 0  BY ConcatEmptySeq, EmptySeq
<1>3. Up = << >> /\ Down = << >>  BY <1>1, <1>2 DEF Up, Down
<1>4. Requested  BY <1>1, <1>3 DEF Requested, Served, NoUpload
<1>5. \A i \in 1 .. Len(Down) : FALSE  BY <1>2, <1>3
<1>6. Answered  BY <1>1, <1>5 DEF Answered, OneAnswer, Fits, Silent
<1>7. StoredWhole
  <2>1. stored.size = 0 /\ Len(stored.data) = 0  BY <1>1, <1>2
  <2>2. QED  BY <2>1 DEF StoredWhole
<1>8. QED  BY <1>1, <1>4, <1>6, <1>7, TypedInit DEF UpInv, Ended, Aligned

\* A connection begins, with no upload of the one before.
LEMMA Begin ==
    ASSUME Typed, Ended, Connect, "upload" \notin miscounted'
    PROVE  UpInv'
<1>1. /\ link = "closed" /\ link' = "open" /\ timer' = {} /\ inbox' = << >> /\ ~upload.active
      /\ UNCHANGED <<toServer, toClient, recvbuf, refused, garbled, upload>> /\ reading' = "no"
      /\ ~download'.active /\ stored' = [by |-> conn + 1, size |-> 0, data |-> << >>]
  BY DEF Connect, network, NoDownload
<1>2. toServer = << >> /\ recvbuf = << >> /\ toClient = << >> /\ ~refused /\ ~garbled
  BY <1>1 DEF Ended
<1>3. << >> \o << >> = << >> /\ Len(<< >>) = 0  BY EmptySeq, ConcatEmptySeq
<1>4. Served' /\ Down' = << >>  BY <1>1, <1>2, <1>3 DEF Served, Up, Down
<1>5. \A i \in 1 .. Len(Down') : FALSE  BY <1>3, <1>4
<1>6. Answered'  BY <1>1, <1>5 DEF Answered, OneAnswer, Fits, Silent
<1>7. Requested' /\ Ended' /\ Aligned'  BY <1>1, <1>2, <1>4 DEF Requested, Ended, Aligned
<1>8. StoredWhole'
  <2>1. stored'.size = 0 /\ Len(stored'.data) = 0  BY <1>1, <1>3
  <2>2. QED  BY <2>1 DEF StoredWhole
<1>9. Typed'  BY TypedUser DEF UserStep
<1>10. QED  BY <1>6, <1>7, <1>8, <1>9 DEF UpInv

\* Within a connection nothing that was miscounted is forgotten.
LEMMA Remembered ==
    ASSUME [Next]_vars, ~Connect  PROVE miscounted \subseteq miscounted'
  BY DEF Next, UserStep, Ask, UpdateFile, DownloadFile, Request, HangUp, UpdateFileDate, Follow,
     Receive, HandleMessage, Handlers, HandleAsk, HandleUpdateFile, HandleUpdateFileFails,
     HandleDownloadFile, ParsingDone, TakesGarbage, Push, HandleClose, Arrive, Deliver,
     RecvMsg, RecvPdu, RecvMsgReturns, RecvGarbage, RecvFile, DialogClosed, vars

\* The invariant of the whole: as much of it as depends on uploads.
UpHolds == Typed /\ Ended /\ ("upload" \notin miscounted => UpInv)

LEMMA UpStep == ASSUME Patient, UpHolds, [Next]_vars  PROVE UpHolds'
<1>1. CASE UNCHANGED vars
  <2>1. /\ UNCHANGED <<link, conn, toServer, toClient, recvbuf, parsing, upload, stored, refused, garbled>>
        /\ UNCHANGED <<inbox, reading, download, saved, timer, waiting, confused, miscounted>>
    BY <1>1 DEF vars, network, server, client
  <2>2. Up' = Up /\ Down' = Down  BY <2>1 DEF Up, Down
  <2>3. Typed' /\ Ended'  BY <2>1 DEF UpHolds, Typed, Ended
  <2>4. ASSUME UpInv PROVE UpInv'
    <3>1. Requested' /\ (Served => Served')  BY <2>1, <2>2, <2>4, RequestedKept DEF UpInv
    <3>2. Answered'  BY <2>1, <2>2, <2>4, <3>1 DEF UpInv, Answered
    <3>3. QED  BY <2>1, <2>3, <2>4, <3>1, <3>2, UpKept DEF UpSame
  <2>5. QED  BY <2>1, <2>3, <2>4 DEF UpHolds
<1>2. CASE Connect
  <2>1. Typed' /\ Ended'
    <3>1. Typed'  BY <1>2, TypedUser DEF UserStep, UpHolds
    <3>2. Ended'  BY <1>2 DEF Connect, Ended
    <3>3. QED  BY <3>1, <3>2
  <2>2. QED  BY <1>2, <2>1, Begin DEF UpHolds
<1>3. CASE Next /\ ~Connect
  <2>1. Typed' /\ Ended'
    BY <1>3, TypedUser, TypedServer, TypedClient, EndedUser, EndedServer, EndedClient
       DEF UpHolds, Next
  <2>2. "upload" \notin miscounted' => UpInv  BY <1>3, Remembered DEF UpHolds
  <2>3. "upload" \notin miscounted' => UpInv'
    BY <1>3, <2>2, UserInStep, ServerInStep, ClientInStep DEF Next
  <2>4. QED  BY <2>1, <2>3 DEF UpHolds
<1>4. QED  BY <1>1, <1>2, <1>3

LEMMA InStep == ASSUME Patient  PROVE Spec => []UpHolds
<1>1. Init => UpHolds  BY UpInit DEF UpHolds, UpInv
<1>2. UpHolds /\ [Next]_vars => UpHolds'  BY UpStep
<1>3. QED  BY <1>1, <1>2, PTL DEF Spec

\* However TCP cuts and glues PDUs and files of any size, and whatever the
\* connection before left, handleMessage never takes a byte of a file or the
\* inside of a PDU for the beginning of one, unless fopen has failed or an
\* upload has not the size that was read: of users who wait for their answers.
THEOREM ServerStaysAligned == ASSUME Patient  PROVE Spec => []FramesStayAligned
<1>1. UpHolds => FramesStayAligned  BY DEF UpHolds, UpInv, Aligned, FramesStayAligned
<1>2. QED  BY <1>1, InStep, PTL

\* Of the same users: when writeUploadData ends an upload, and so whenever none
\* is going on, the last file has all its bytes, in order, and nothing else,
\* unless it has not the size that was read.
THEOREM UploadsAreWhole == ASSUME Patient  PROVE Spec => []UploadedFileIsWhole
<1>1. UpHolds => UploadedFileIsWhole  BY DEF UpHolds, UpInv, StoredWhole, UploadedFileIsWhole
<1>2. QED  BY <1>1, InStep, PTL
-----------------------------------------------------------------------------
(* Downloads.                                                              *)

LEMMA SilentFollowed == ASSUME NEW s, Silent(s)  PROVE FollowedIn(s)
  BY DEF Silent, FollowedIn, IsAnswer

LEMMA FollowedAdded ==
    ASSUME NEW s \in Seq(Tokens), NEW t \in Seq(Tokens), FollowedIn(s), FollowedIn(t)
    PROVE  FollowedIn(s \o t)
<1>1. /\ Len(s \o t) = Len(s) + Len(t) /\ Len(s) \in Nat /\ Len(t) \in Nat
      /\ \A i \in 1 .. Len(s) : (s \o t)[i] = s[i]
      /\ \A i \in 1 .. Len(t) : (s \o t)[Len(s) + i] = t[i]
      /\ \A i \in 1 .. Len(s) + Len(t) :
            i \in 1 .. Len(s) \/ (i - Len(s) \in 1 .. Len(t) /\ (s \o t)[i] = t[i - Len(s)])
  BY Glued
<1>2. /\ \A i \in 1 .. Len(s) : s[i].size \in Nat
      /\ \A i \in 1 .. Len(t) : t[i].size \in Nat
  <2>1. /\ \A i \in 1 .. Len(s) : s[i] \in Tokens
        /\ \A i \in 1 .. Len(t) : t[i] \in Tokens
    BY ElementOfSeq
  <2>2. QED  BY <2>1 DEF Tokens
<1>3. ASSUME NEW i \in 1 .. Len(s \o t), IsHeader((s \o t)[i]), (s \o t)[i].kind = "download_rsp"
      PROVE  /\ i + 1 + (s \o t)[i].size <= Len(s \o t)
             /\ \A j \in 1 .. (s \o t)[i].size : IsByte((s \o t)[i + 1 + j], j)
  <2>1. CASE i \in 1 .. Len(s)
    <3>1. (s \o t)[i] = s[i]  BY <1>1, <2>1
    <3>2. /\ i + 1 + s[i].size <= Len(s) /\ s[i].size \in Nat
          /\ \A j \in 1 .. s[i].size : IsByte(s[i + 1 + j], j)
      BY <1>2, <1>3, <2>1, <3>1 DEF FollowedIn
    <3>3. ASSUME NEW j \in 1 .. s[i].size PROVE IsByte((s \o t)[i + 1 + j], j)
      <4>1. i + 1 + j \in 1 .. Len(s)  BY <1>1, <2>1, <3>2
      <4>2. QED  BY <1>1, <3>2, <4>1
    <3>4. i + 1 + s[i].size <= Len(s \o t)  BY <1>1, <2>1, <3>2
    <3>5. QED  BY <3>1, <3>3, <3>4
  <2>2. CASE i \notin 1 .. Len(s)
    <3>1. PICK k \in 1 .. Len(t) : k = i - Len(s) /\ (s \o t)[i] = t[k]  BY <1>1, <2>2
    <3>2. /\ k + 1 + t[k].size <= Len(t) /\ t[k].size \in Nat
          /\ \A j \in 1 .. t[k].size : IsByte(t[k + 1 + j], j)
      BY <1>2, <1>3, <3>1 DEF FollowedIn
    <3>3. ASSUME NEW j \in 1 .. t[k].size PROVE IsByte((s \o t)[i + 1 + j], j)
      <4>1. k + 1 + j \in 1 .. Len(t) /\ i + 1 + j = Len(s) + (k + 1 + j)  BY <1>1, <3>1, <3>2
      <4>2. (s \o t)[i + 1 + j] = t[k + 1 + j]  BY <1>1, <4>1
      <4>3. QED  BY <3>2, <4>2
    <3>4. i + 1 + t[k].size <= Len(s \o t)  BY <1>1, <3>1, <3>2
    <3>5. QED  BY <3>1, <3>3, <3>4
  <2>3. QED  BY <2>1, <2>2
<1>4. QED  BY <1>3 DEF FollowedIn

LEMMA FollowedLeft ==
    ASSUME NEW s \in Seq(Tokens), NEW r, Len(r) \in Nat, Len(r) = Len(s) - 2,
           \A i \in 1 .. Len(r) : r[i] = s[i + 2], FollowedIn(s)
    PROVE  FollowedIn(r)
<1>1. \A i \in 1 .. Len(s) : s[i].size \in Nat
  <2>1. \A i \in 1 .. Len(s) : s[i] \in Tokens  BY ElementOfSeq
  <2>2. QED  BY <2>1 DEF Tokens
<1>2. Len(s) \in Nat  BY LenProperties
<1>3. ASSUME NEW i \in 1 .. Len(r), IsHeader(r[i]), r[i].kind = "download_rsp"
      PROVE  /\ i + 1 + r[i].size <= Len(r)
             /\ \A j \in 1 .. r[i].size : IsByte(r[i + 1 + j], j)
  <2>1. PICK k \in 1 .. Len(s) : k = i + 2 /\ r[i] = s[k]  BY <1>2
  <2>2. /\ k + 1 + s[k].size <= Len(s) /\ s[k].size \in Nat
        /\ \A j \in 1 .. s[k].size : IsByte(s[k + 1 + j], j)
    BY <1>1, <1>3, <2>1 DEF FollowedIn
  <2>3. ASSUME NEW j \in 1 .. s[k].size PROVE IsByte(r[i + 1 + j], j)
    <3>0. i + 1 + j \in 1 .. Len(r) /\ (i + 1 + j) + 2 = k + 1 + j  BY <1>2, <2>1, <2>2
    <3>1. PICK m \in 1 .. Len(r) : m = i + 1 + j /\ m + 2 = k + 1 + j  BY <3>0
    <3>2. r[m] = s[m + 2]  OBVIOUS
    <3>3. QED  BY <2>2, <3>1, <3>2
  <2>4. i + 1 + s[k].size <= Len(r)  BY <1>2, <2>1, <2>2
  <2>5. QED  BY <2>1, <2>3, <2>4
<1>4. QED  BY <1>3 DEF FollowedIn

LEMMA BeginsAdded ==
    ASSUME NEW S, NEW s \in Seq(S), NEW t \in Seq(S), NEW n \in Nat, Begins(s, n)
    PROVE  Begins(s \o t, n)
<1>1. /\ Len(s \o t) = Len(s) + Len(t) /\ Len(s) \in Nat /\ Len(t) \in Nat
      /\ \A i \in 1 .. Len(s) : (s \o t)[i] = s[i]
  BY Glued
<1>2. \A i \in 1 .. n : i \in 1 .. Len(s)  BY <1>1 DEF Begins
<1>3. QED  BY <1>1, <1>2 DEF Begins

\* Nothing comes nearer, and nothing is read.
LEMMA DownSame ==
    ASSUME DownInv, UNCHANGED <<download, saved>>, reading' = "dialog" => reading = "dialog",
           link' # "closed" => link # "closed" /\ Down' = Down
    PROVE  DownInv'
  BY DEF DownInv, Followed, Filling, Counted, SavedWhole

\* Something that does not begin a file, or a file, is appended.
LEMMA DownAppended ==
    ASSUME Typed, DownInv, NEW t \in Seq(Tokens), FollowedIn(t), toClient' = toClient \o t,
           link' # "closed" => link # "closed", UNCHANGED <<inbox, download, saved, reading>>
    PROVE  DownInv'
<1>1. Down' = Down \o t /\ Down \in Seq(Tokens)  BY Behind
<1>2. Followed'  BY <1>1, FollowedAdded DEF DownInv, Followed
<1>3. saved \in Seq(Tokens) /\ saved \o Down \in Seq(Tokens) /\ download.total \in Nat
  BY <1>1, Glued DEF Typed
<1>4. saved \o (Down \o t) = (saved \o Down) \o t
  <2>1. Join(Join(saved, Down), t) = Join(saved, Join(Down, t))  BY <1>1, <1>3, Regrouped
  <2>2. QED  BY <2>1 DEF Join
<1>5. Begins(saved \o Down, download.total) => Begins((saved \o Down) \o t, download.total)
  BY <1>3, BeginsAdded
<1>6. Filling'
  <2>1. Len(Down \o t) = Len(Down) + Len(t) /\ Len(Down) \in Nat /\ Len(t) \in Nat
    BY ONLY <1>1, t \in Seq(Tokens), Glued
  <2>2. download.received \in Nat  BY DEF Typed
  <2>3. download.total <= download.received + Len(Down) =>
          download.total <= download.received + Len(Down')
    BY <1>1, <1>3, <2>1, <2>2
  <2>4. QED  BY <1>1, <1>4, <1>5, <2>3 DEF DownInv, Filling
<1>7. QED  BY <1>2, <1>6 DEF DownInv, Counted, SavedWhole

\* Nothing but the answer to a download says that a file follows.
LEMMA NoFile ==
    ASSUME Typed, NEW k \in Answers \ {"download_rsp"}
    PROVE  Pdu(k, 0) \in Seq(Tokens) /\ FollowedIn(Pdu(k, 0))
<1>1. /\ Pdu(k, 0) \in Seq(Tokens) /\ Len(Pdu(k, 0)) = 2
      /\ Pdu(k, 0)[1].kind = k /\ ~IsHeader(Pdu(k, 0)[2])
  BY PduIs DEF Kinds
<1>2. \A i \in 1 .. 2 : i = 1 \/ i = 2  OBVIOUS
<1>3. QED  BY <1>1, <1>2 DEF FollowedIn

LEMMA UserDown ==
    ASSUME DownInv, (UserStep /\ ~Connect) \/ UpdateFileDate  PROVE DownInv'
<1>1. /\ UNCHANGED <<download, saved, reading, inbox, toClient>>
      /\ link # "closed"
  BY DEF UserStep, Ask, UpdateFile, DownloadFile, Request, HangUp, UpdateFileDate, network
<1>2. Down' = Down  BY <1>1 DEF Down
<1>3. QED  BY <1>1, <1>2, DownSame

\* A connection begins.
LEMMA DownAfresh == ASSUME CleanHeap, Ended, Connect  PROVE DownInv'
<1>1. /\ link = "closed" /\ reading' = "no" /\ inbox' = << >> /\ toClient' = toClient
  BY DEF Connect, network
<1>2. ~download'.active /\ download'.received = 0
  BY DEF Connect, NoDownload, CleanHeap
<1>3. toClient = << >> /\ << >> \o << >> = << >> /\ Len(<< >>) = 0
  BY <1>1, EmptySeq, ConcatEmptySeq DEF Ended
<1>4. FollowedIn(Down')
  <2>1. \A i \in 1 .. Len(Down') : FALSE  BY <1>1, <1>3 DEF Down
  <2>2. QED  BY <2>1 DEF FollowedIn
<1>5. QED  BY <1>1, <1>2, <1>4 DEF DownInv, Followed, Filling, Counted, SavedWhole

LEMMA WriteDown ==
    ASSUME UpInv, DownInv, NEW d, NEW st, NEW file, WriteUploadData(d, st, file),
           UNCHANGED link, UNCHANGED client, link # "closed"
    PROVE  DownInv'
<1>1. UNCHANGED <<inbox, download, saved, reading>>  BY DEF client
<1>2. Typed /\ "upload_ok" \in Answers \ {"download_rsp"}  BY DEF UpInv, Answers
<1>3. CASE toClient' = toClient
  <2>1. Down' = Down  BY <1>1, <1>3 DEF Down
  <2>2. QED  BY <1>1, <2>1, DownSame
<1>4. CASE toClient' = toClient \o Pdu("upload_ok", 0)
  <2>1. Pdu("upload_ok", 0) \in Seq(Tokens) /\ FollowedIn(Pdu("upload_ok", 0))  BY <1>2, NoFile
  <2>2. QED  BY <1>1, <1>2, <1>4, <2>1, DownAppended
<1>5. QED  BY <1>3, <1>4 DEF WriteUploadData

LEMMA ServerDown ==
    ASSUME UpInv, DownInv, Receive \/ Handlers \/ Push \/ HandleClose, miscounted' = {}
    PROVE  DownInv'
<1>1. Typed  BY DEF UpInv
<1>2. ASSUME NEW n \in 1 .. Len(toServer), HandleMessage(n) PROVE DownInv'
  <2>1. link # "closed" /\ UNCHANGED link /\ UNCHANGED client  BY <1>2 DEF HandleMessage
  <2>2. CASE upload.active
    <3>1. WriteUploadData(SubSeq(toServer, 1, n), upload, stored)  BY <1>2, <2>2 DEF HandleMessage
    <3>2. QED  BY <2>1, <3>1, WriteDown
  <2>3. CASE ~upload.active
    <3>1. UNCHANGED <<download, saved, reading>> /\ Down' = Down
      BY <1>2, <2>3 DEF HandleMessage, client, Down
    <3>2. QED  BY <2>1, <3>1, DownSame
  <2>4. QED  BY <2>2, <2>3
<1>3. CASE HandleAsk
  <2>1. /\ UNCHANGED <<inbox, download, saved, reading, link>>
        /\ toClient' = toClient \o Pdu("reply", 0)
    BY <1>3 DEF HandleAsk, client
  <2>2. Pdu("reply", 0) \in Seq(Tokens) /\ FollowedIn(Pdu("reply", 0))
    BY <1>1, NoFile DEF Answers
  <2>3. QED  BY <1>1, <2>1, <2>2, DownAppended
<1>4. CASE HandleUpdateFile
  <2>1. UNCHANGED link /\ UNCHANGED client /\ link # "closed"
    BY <1>4 DEF HandleUpdateFile, Pick, UpInv, Ended
  <2>2. CASE Rest = << >>
    <3>1. UNCHANGED <<download, saved, reading>> /\ Down' = Down
      BY <1>4, <2>1, <2>2 DEF HandleUpdateFile, client, Down
    <3>2. QED  BY <2>1, <3>1, DownSame
  <2>3. CASE Rest # << >>
    <3>1. PICK st, file : WriteUploadData(Rest, st, file)  BY <1>4, <2>3 DEF HandleUpdateFile
    <3>2. QED  BY <2>1, <3>1, WriteDown
  <2>4. QED  BY <2>2, <2>3
<1>5. CASE AnswerDownload
  <2>0. PICK sent \in Sizes : HandleDownloadFile(sent)  BY <1>5 DEF AnswerDownload
  <2>1. PICK n \in Nat : n = Head(recvbuf).size
    BY <1>1, <2>0, TypedPick DEF HandleDownloadFile
  <2>2. /\ UNCHANGED <<inbox, download, saved, reading, link>>
        /\ toClient' = toClient \o Pdu("download_rsp", n) \o FileBytes(n)
    <3>1. sent = n  BY <2>0, <2>1 DEF HandleDownloadFile, Follow
    <3>2. QED  BY <2>0, <2>1, <3>1 DEF HandleDownloadFile, client
  <2>3. /\ File(n, n) \in Seq(Tokens) /\ Len(File(n, n)) = 2 + n /\ toClient' = toClient \o File(n, n)
        /\ \A i \in 1 .. Len(File(n, n)) : IsHeader(File(n, n)[i]) =>
              i = 1 /\ File(n, n)[i].kind = "download_rsp" /\ File(n, n)[i].size = n
        /\ \A i \in 1 .. n : File(n, n)[2 + i].kind = "byte" /\ File(n, n)[2 + i].size = i
    <3>1. /\ Announces(File(n, n), n, n)
          /\ toClient \o Pdu("download_rsp", n) \o FileBytes(n) = toClient \o File(n, n)
      BY <1>1, DownloadAnswer
    <3>2. QED  BY <2>2, <3>1 DEF Announces
  <2>4. FollowedIn(File(n, n))
    <3>1. ASSUME NEW i \in 1 .. Len(File(n, n)), IsHeader(File(n, n)[i])
          PROVE  /\ i + 1 + File(n, n)[i].size <= Len(File(n, n))
                 /\ \A j \in 1 .. File(n, n)[i].size : IsByte(File(n, n)[i + 1 + j], j)
      <4>1. i = 1 /\ File(n, n)[i].size = n  BY <2>3, <3>1
      <4>2. \A j \in 1 .. n : i + 1 + j = 2 + j  BY <4>1
      <4>3. i + 1 + n <= Len(File(n, n))  BY <2>3, <4>1
      <4>4. QED  BY <2>3, <4>1, <4>2, <4>3 DEF IsByte
    <3>2. QED  BY <3>1 DEF FollowedIn
  <2>5. QED  BY <1>1, <2>2, <2>3, <2>4, DownAppended
<1>6. CASE HandleUpdateFileFails \/ ParsingDone \/ TakesGarbage
  <2>1. UNCHANGED <<download, saved, reading, link>> /\ Down' = Down
    BY <1>6 DEF HandleUpdateFileFails, ParsingDone, TakesGarbage, network, client, Down
  <2>2. QED  BY <2>1, DownSame
<1>7. CASE Push
  <2>1. /\ UNCHANGED <<inbox, download, saved, reading, link>>
        /\ toClient' = toClient \o Pdu("push", 0)
    BY <1>7 DEF Push, client
  <2>2. Pdu("push", 0) \in Seq(Tokens) /\ FollowedIn(Pdu("push", 0))
    BY <1>1, NoFile DEF Answers
  <2>3. QED  BY <1>1, <2>1, <2>2, DownAppended
<1>8. CASE HandleClose
  <2>1. UNCHANGED <<download, saved, reading>> /\ link' = "closed"  BY <1>8 DEF HandleClose, client
  <2>2. QED  BY <2>1, DownSame
<1>9. QED  BY <1>2, <1>3, <1>4, <1>5, <1>6, <1>7, <1>8 DEF Receive, Handlers, AnswerDownload

LEMMA ClientDown ==
    ASSUME UpInv, DownInv, Arrive \/ RecvMsg  PROVE DownInv'
<1>1. Typed  BY DEF UpInv
<1>2. ASSUME NEW n \in 1 .. Len(toClient), Deliver(n) PROVE DownInv'
  <2>1. /\ link = "open" /\ inbox' = inbox \o SubSeq(toClient, 1, n)
        /\ toClient' = SubSeq(toClient, n + 1, Len(toClient))
        /\ UNCHANGED <<download, saved, link>>
    BY <1>2 DEF Deliver
  <2>2. reading' = "dialog" => reading = "dialog"  BY <1>2 DEF Deliver
  <2>3. Down' = Down
    <3>1. inbox \in Seq(Tokens) /\ toClient \in Seq(Tokens)  BY <1>1 DEF Typed
    <3>2. (inbox \o SubSeq(toClient, 1, n)) \o SubSeq(toClient, n + 1, Len(toClient)) = inbox \o toClient
      BY <3>1, Moved
    <3>3. QED  BY <2>1, <3>2 DEF Down
  <2>4. QED  BY <2>1, <2>2, <2>3, DownSame
<1>3. CASE TakePdu
  <2> DEFINE pdu == Head(inbox)
  <2>1. /\ ~download.active /\ IsHeader(pdu) /\ reading = "loop" /\ link = "open"
        /\ UNCHANGED <<link, reading>>
    BY <1>3 DEF TakePdu, RecvPdu
  <2>2. /\ pdu = Down[1] /\ pdu \in Tokens
        /\ Len(Down) \in Nat /\ Len(Down) >= 2 /\ Len(Down') = Len(Down) - 2
        /\ \A i \in 1 .. Len(Down') : Down'[i] = Down[i + 2]
        /\ Down' \in Seq(Tokens)
    BY <1>1, <1>3, PduOut
  <2>3. Down \in Seq(Tokens)  BY <1>1, Glued DEF Typed, Down
  <2>4. FollowedIn(Down')
    <3>1. Len(Down') \in Nat  BY <2>2
    <3>2. FollowedIn(Down)  BY <2>1 DEF DownInv, Followed
    <3>3. QED  BY <2>2, <2>3, <3>1, <3>2, FollowedLeft
  <2>5. CASE ~(pdu.kind = "download_rsp" /\ pdu.size > 0)
    <3>1. UNCHANGED <<download, saved>>  BY <1>3, <2>5 DEF TakePdu, RecvPdu
    <3>2. QED  BY <2>1, <2>4, <3>1 DEF DownInv, Followed, Filling, Counted, SavedWhole
  <2>6. CASE pdu.kind = "download_rsp" /\ pdu.size > 0
    <3>0. PICK opens \in BOOLEAN : RecvPdu(opens)  BY <1>3 DEF TakePdu
    <3>1. /\ saved' = << >>
          /\ download' = [download EXCEPT !.active = TRUE, !.total = pdu.size, !.open = opens]
      BY <2>6, <3>0 DEF RecvPdu
    <3>2. download'.active /\ download'.total = pdu.size /\ download'.received = 0
      BY <1>1, <2>1, <3>1 DEF Typed, DownInv, Counted
    <3>3. << >> \o Down' = Down' /\ Len(<< >>) = 0  BY <2>2, Empty, EmptySeq
    <3>4. Begins(Down', pdu.size)
      <4>1. 1 \in 1 .. Len(Down) /\ pdu.size \in Nat  BY <2>2 DEF Tokens
      <4>2. /\ 1 + 1 + pdu.size <= Len(Down)
            /\ \A j \in 1 .. pdu.size : IsByte(Down[1 + 1 + j], j)
        BY <2>1, <2>2, <2>6, <4>1 DEF DownInv, Followed, FollowedIn
      <4>3. ASSUME NEW j \in 1 .. pdu.size PROVE IsByte(Down'[j], j)
        <5>1. j \in 1 .. Len(Down') /\ 1 + 1 + j = j + 2  BY <2>2, <4>1, <4>2
        <5>2. QED  BY <2>2, <4>2, <5>1
      <4>4. pdu.size <= Len(Down')  BY <2>2, <4>1, <4>2
      <4>5. QED  BY <4>3, <4>4 DEF Begins
    <3>5. Filling'
      <4>1. Len(Down') \in Nat /\ pdu.size \in Nat /\ pdu.size <= 0 + Len(Down')
        BY <2>2, <3>4 DEF Tokens, Begins
      <4>2. QED  BY <3>1, <3>2, <3>3, <3>4, <4>1 DEF Filling
    <3>6. QED  BY <2>1, <2>4, <3>2, <3>5 DEF DownInv, Followed, Counted, SavedWhole
  <2>7. QED  BY <2>5, <2>6
<1>4. CASE RecvMsgReturns \/ RecvGarbage
  <2>1. UNCHANGED <<download, saved, link>> /\ Down' = Down
    BY <1>4 DEF RecvMsgReturns, RecvGarbage, network, Down
  <2>2. reading' = "dialog" => reading = "dialog"  BY <1>4 DEF RecvMsgReturns, RecvGarbage
  <2>3. QED  BY <2>1, <2>2, DownSame
<1>5. CASE RecvFile
  <2>1. /\ Down' \in Seq(Tokens) /\ Down = inbox \o Down' /\ NoMore(Down', Down)
        /\ download.open => saved' = saved \o inbox
    BY <1>1, <1>5, FileIn
  <2>2. download.active /\ link = "open"  BY <1>5 DEF RecvFile
  <2>3. Silent(Down)  BY <2>2 DEF UpInv, Answered
  <2>4. Followed'  BY <2>1, <2>3, SilentFollowed DEF NoMore, Followed
  <2>5. /\ download.total <= download.received + Len(Down)
        /\ download.open =>
              download.received = Len(saved) /\ Begins(saved \o Down, download.total)
    BY <2>2 DEF DownInv, Filling
  <2>6. /\ saved \in Seq(Tokens) /\ inbox \in Seq(Tokens) /\ download.total \in Nat
        /\ download \in [active : BOOLEAN, total : Nat, received : Nat, open : BOOLEAN]
    BY <1>1 DEF Typed
  <2>7. /\ Len(inbox) \in Nat /\ Len(Down') \in Nat /\ Len(Down) = Len(inbox) + Len(Down')
        /\ Len(saved \o inbox) = Len(saved) + Len(inbox) /\ saved \o inbox \in Seq(Tokens)
    <3>1. /\ Len(inbox) \in Nat /\ Len(Down') \in Nat
          /\ Len(inbox \o Down') = Len(inbox) + Len(Down')
      BY ONLY <2>1, <2>6, Glued
    <3>2. Len(saved \o inbox) = Len(saved) + Len(inbox) /\ saved \o inbox \in Seq(Tokens)
      BY ONLY <2>6, Glued
    <3>3. QED  BY <2>1, <3>1, <3>2
  <2>8. download.open => saved' \o Down' = saved \o Down
    <3>1. Join(Join(saved, inbox), Down') = Join(saved, Join(inbox, Down'))
      BY <2>1, <2>6, Regrouped
    <3>2. QED  BY <2>1, <3>1 DEF Join
  <2>9. CASE download' = NoDownload /\ reading' = "no"
    BY <2>4, <2>9 DEF NoDownload, DownInv, Filling, Counted, SavedWhole
  <2>10. CASE /\ download' = [download EXCEPT !.received = download.received + Len(inbox)]
              /\ reading' = "dialog" => download.received + Len(inbox) = download.total
    <3>1. /\ download'.active /\ download'.total = download.total
          /\ download'.open = download.open
          /\ download'.received = download.received + Len(inbox)
          /\ download.open => download'.received = Len(saved')
      BY <2>1, <2>2, <2>5, <2>6, <2>7, <2>10
    <3>2. Filling'
      <4>1. download'.total <= download'.received + Len(Down')  BY <2>5, <2>6, <2>7, <3>1
      <4>2. QED  BY <2>5, <2>8, <3>1, <4>1 DEF Filling
    <3>3. SavedWhole'
      <4>1. SUFFICES ASSUME Len(saved') = download.total, download.open
                     PROVE  \A i \in 1 .. Len(saved') : IsByte(saved'[i], i)
        BY <2>1, <2>10, <3>1 DEF SavedWhole, IsByte
      <4>2. \A i \in 1 .. Len(saved') : (saved' \o Down')[i] = saved'[i]
        <5>1. saved' \in Seq(Tokens)  BY <2>1, <2>7, <4>1
        <5>2. QED  BY <2>1, <5>1, Glued
      <4>3. QED  BY <2>5, <2>8, <4>1, <4>2 DEF Begins
    <3>4. QED  BY <2>4, <3>1, <3>2, <3>3 DEF DownInv, Counted
  <2>11. QED  BY <1>5, <2>9, <2>10 DEF RecvFile
<1>6. CASE DialogClosed
  <2>1. /\ UNCHANGED link /\ Down' = Down /\ reading' = "no"
        /\ ~download'.active /\ download'.received = 0
    BY <1>6 DEF DialogClosed, network, Down, NoDownload
  <2>2. QED  BY <2>1 DEF DownInv, Followed, Filling, Counted, SavedWhole
<1>7. QED  BY <1>2, <1>3, <1>4, <1>5, <1>6 DEF Arrive, RecvMsg, TakePdu

LEMMA DownInit == ASSUME CleanHeap  PROVE Init => DownInv
<1> SUFFICES ASSUME Init PROVE DownInv  OBVIOUS
<1>1. /\ inbox = << >> /\ toClient = << >> /\ reading = "no"
      /\ ~download.active /\ download.received = 0
  BY DEF Init, NoDownload, CleanHeap
<1>2. << >> \o << >> = << >> /\ Len(<< >>) = 0  BY ConcatEmptySeq, EmptySeq
<1>3. \A i \in 1 .. Len(Down) : FALSE  BY <1>1, <1>2 DEF Down
<1>4. Followed  BY <1>3 DEF Followed, FollowedIn
<1>5. QED  BY <1>1, <1>4 DEF DownInv, Filling, Counted, SavedWhole

\* Without a miscount so far.
DownHolds == miscounted = {} => DownInv

LEMMA Unforgotten ==
    ASSUME [Next]_vars, ~Connect, miscounted' = {}  PROVE miscounted = {}
  BY Remembered

LEMMA DownStep == ASSUME CleanHeap, UpHolds, DownHolds, [Next]_vars  PROVE DownHolds'
<1>1. CASE UNCHANGED vars
  <2>1. UNCHANGED <<download, saved, reading, link, inbox, toClient, miscounted>>
    BY <1>1 DEF vars, network, client
  <2>2. Down' = Down  BY <2>1 DEF Down
  <2>3. QED  BY <2>1, <2>2, DownSame DEF DownHolds
<1>2. CASE Connect  BY <1>2, DownAfresh DEF UpHolds, DownHolds
<1>3. CASE Next /\ ~Connect
  <2>1. SUFFICES ASSUME miscounted' = {} PROVE DownInv'  BY DEF DownHolds
  <2>2. UpInv /\ DownInv  BY <1>3, <2>1, Unforgotten DEF UpHolds, DownHolds
  <2>3. QED  BY <1>3, <2>1, <2>2, UserDown, ServerDown, ClientDown DEF Next
<1>4. QED  BY <1>1, <1>2, <1>3

\* Of the same users, if recived_ happens to begin at 0 and no upload was
\* miscounted: when recvMsg tells that a download has succeeded, and there was
\* a file to save it to, that file has all its bytes, in order, and nothing
\* else, whoever pushed PDUs to the client meanwhile, unless the server sent
\* another size than was read in its answer.
THEOREM DownloadsAreWhole ==
    ASSUME Patient, CleanHeap
    PROVE  Spec => []("upload" \notin miscounted => SuccessMeansWhole)
<1>1. Init => DownHolds  BY DownInit DEF DownHolds
<1>2. UpHolds /\ DownHolds /\ [Next]_vars => DownHolds'  BY DownStep
<1>3. UpHolds /\ DownHolds => ("upload" \notin miscounted => SuccessMeansWhole)
  <2>1. SUFFICES ASSUME UpHolds, DownHolds, "upload" \notin miscounted, "download" \notin miscounted
                 PROVE  SuccessMeansWhole
    BY DEF SuccessMeansWhole
  <2>2. miscounted = {}  BY <2>1 DEF UpHolds, Typed
  <2>3. SavedWhole  BY <2>1, <2>2 DEF DownHolds, DownInv
  <2>4. QED  BY <2>3 DEF SavedWhole, SuccessMeansWhole
<1>4. QED  BY <1>1, <1>2, <1>3, InStep, PTL DEF Spec
-----------------------------------------------------------------------------
(* When all is quiet.                                                      *)

\* An upload that goes on lacks bytes, unless the file is empty.
Unfinished == upload.active => upload.received < upload.total \/ upload.total = 0

\* Between two calls recvbuf_ has no PDU that could be handled.
Parsed == \/ parsing \/ garbled
          \/ recvbuf = << >> \/ (Len(recvbuf) = 1 /\ IsHeader(Head(recvbuf)))

\* PDUs are sent whole.
WholeIn(s) == \A i \in 1 .. Len(s) : IsHeader(s[i]) => i + 1 <= Len(s) /\ ~IsHeader(s[i + 1])
Whole == link # "closed" => WholeIn(Down)

\* recvMsg returns when of an answer it has the header at most, and of a file
\* not enough.
Looked ==
    reading = "no" =>
        /\ \A i \in 1 .. Len(inbox) : IsAnswer(inbox[i]) => i = Len(inbox)
        /\ download.active => inbox = << >> /\ download.received < download.total

\* A request that was served is answered, or the file is being received.
Pending ==
    link = "open" /\ waiting # "none" /\ Served /\ ~refused => ~Silent(Down) \/ download.active

QuietInv == Unfinished /\ Parsed /\ Whole /\ Looked /\ Pending

\* writeUploadData ends the upload and says so, or waits for more.
LEMMA WriteEnds ==
    ASSUME NEW d \in Seq(Tokens), NEW st \in [active : BOOLEAN, total : Nat, received : Nat], NEW file,
           WriteUploadData(d, st, file)
    PROVE  \/ upload' = NoUpload /\ toClient' = toClient \o Pdu("upload_ok", 0)
           \/ /\ upload'.active = st.active /\ upload'.received < upload'.total
              /\ toClient' = toClient
<1>1. Len(d) \in Nat  BY LenProperties
<1>2. CASE st.received + Len(d) >= st.total  BY <1>2 DEF WriteUploadData
<1>3. CASE ~(st.received + Len(d) >= st.total)
  <2>1. upload' = [st EXCEPT !.received = st.received + Len(d)] /\ toClient' = toClient
    BY <1>3 DEF WriteUploadData
  <2>2. upload'.active = st.active /\ upload'.total = st.total /\ upload'.received = st.received + Len(d)
    BY <2>1
  <2>3. st.received + Len(d) < st.total  BY <1>1, <1>3
  <2>4. QED  BY <2>1, <2>2, <2>3
<1>4. QED  BY <1>2, <1>3

\* What a step of the server does to an upload and to the client's stream.
Sent(t) == toClient' = toClient \o t
Wrote == \/ upload' = NoUpload /\ Sent(Pdu("upload_ok", 0))
         \/ /\ upload'.active /\ (upload'.received < upload'.total \/ upload'.total = 0)
            /\ toClient' = toClient

LEMMA Received ==
    ASSUME Typed, Unfinished, NEW n \in 1 .. Len(toServer), HandleMessage(n)
    PROVE  /\ upload.active => Wrote /\ UNCHANGED <<recvbuf, parsing>>
           /\ ~upload.active => UNCHANGED <<upload, toClient>> /\ parsing'
<1>1. CASE upload.active
  <2>1. WriteUploadData(SubSeq(toServer, 1, n), upload, stored) /\ UNCHANGED <<recvbuf, parsing>>
    BY <1>1 DEF HandleMessage
  <2>2. SubSeq(toServer, 1, n) \in Seq(Tokens)  BY Cut DEF Typed
  <2>3. upload \in [active : BOOLEAN, total : Nat, received : Nat]  BY DEF Typed
  <2>4. QED  BY <1>1, <2>1, <2>2, <2>3, WriteEnds DEF Wrote, Sent
<1>2. CASE ~upload.active  BY <1>2 DEF HandleMessage
<1>3. QED  BY <1>1, <1>2

LEMMA Begun ==
    ASSUME Typed, HandleUpdateFile
    PROVE  Wrote
<1> DEFINE st == [active |-> TRUE, total |-> Head(recvbuf).size, received |-> 0]
           file == [by |-> conn, size |-> Head(recvbuf).size, data |-> << >>]
<1>1. Rest \in Seq(Tokens) /\ Head(recvbuf).size \in Nat
  BY TypedPick DEF HandleUpdateFile
<1>2. st \in [active : BOOLEAN, total : Nat, received : Nat] /\ st.active  BY <1>1
<1>3. CASE Rest = << >>
  <2>1. upload' = st /\ toClient' = toClient  BY <1>3 DEF HandleUpdateFile
  <2>2. upload'.active /\ upload'.received = 0 /\ upload'.total \in Nat  BY <1>1, <2>1
  <2>3. upload'.received < upload'.total \/ upload'.total = 0  BY <2>2
  <2>4. QED  BY <2>1, <2>2, <2>3 DEF Wrote
<1>4. CASE Rest # << >>
  <2>1. WriteUploadData(Rest, st, file)  BY <1>4 DEF HandleUpdateFile
  <2> HIDE DEF st, file
  <2>2. QED  BY <1>1, <1>2, <2>1, WriteEnds DEF Wrote, Sent
<1>5. QED  BY <1>3, <1>4

LEMMA UnfinishedStep == ASSUME Typed, Unfinished, [Next]_vars  PROVE Unfinished'
<1>1. Wrote => Unfinished'  BY DEF Wrote, Unfinished, NoUpload
<1>2. UNCHANGED upload => Unfinished'  BY DEF Unfinished
<1>3. CASE UNCHANGED vars \/ UserStep \/ UpdateFileDate \/ Arrive \/ RecvMsg
  <2>1. UNCHANGED upload
    BY <1>3 DEF vars, server, UserStep, Ask, UpdateFile, DownloadFile, Request, HangUp, Connect,
       UpdateFileDate, Arrive, Deliver, RecvMsg, TakePdu, RecvPdu, RecvMsgReturns, RecvGarbage, RecvFile,
       DialogClosed
  <2>2. QED  BY <1>2, <2>1
<1>4. ASSUME NEW n \in 1 .. Len(toServer), HandleMessage(n) PROVE Unfinished'
  BY <1>1, <1>2, <1>4, Received
<1>5. CASE HandleUpdateFile  BY <1>1, <1>5, Begun
<1>6. CASE \/ HandleAsk \/ HandleUpdateFileFails \/ AnswerDownload \/ ParsingDone
           \/ TakesGarbage \/ Push \/ HandleClose
  <2>1. UNCHANGED upload
    BY <1>6 DEF HandleAsk, HandleUpdateFileFails, AnswerDownload, HandleDownloadFile, ParsingDone, TakesGarbage,
       Push, HandleClose, server
  <2>2. QED  BY <1>2, <2>1
<1>7. QED  BY <1>3, <1>4, <1>5, <1>6 DEF Next, Receive, Handlers, AnswerDownload

LEMMA ParsedStep == ASSUME Typed, Unfinished, Parsed, [Next]_vars  PROVE Parsed'
<1>1. UNCHANGED <<recvbuf, parsing, garbled>> => Parsed'  BY DEF Parsed
<1>2. CASE UNCHANGED vars \/ UserStep \/ UpdateFileDate \/ Arrive \/ RecvMsg \/ Push
  <2>1. UNCHANGED <<recvbuf, parsing, garbled>>
    BY <1>2 DEF vars, server, UserStep, Ask, UpdateFile, DownloadFile, Request, HangUp, Connect,
       UpdateFileDate, Arrive, Deliver, RecvMsg, TakePdu, RecvPdu, RecvMsgReturns, RecvGarbage, RecvFile,
       DialogClosed, Push
  <2>2. QED  BY <1>1, <2>1
<1>3. ASSUME NEW n \in 1 .. Len(toServer), HandleMessage(n) PROVE Parsed'
  <2>1. UNCHANGED garbled  BY <1>3 DEF HandleMessage
  <2>2. QED  BY <1>1, <1>3, <2>1, Received DEF Parsed
<1>4. CASE HandleAsk \/ HandleUpdateFile \/ HandleUpdateFileFails \/ AnswerDownload
  <2>1. parsing'
    BY <1>4 DEF HandleAsk, HandleUpdateFile, HandleUpdateFileFails, AnswerDownload, HandleDownloadFile, Pick
  <2>2. QED  BY <2>1 DEF Parsed
<1>5. CASE ParsingDone  BY <1>5 DEF ParsingDone, Parsed
<1>6. CASE TakesGarbage  BY <1>6 DEF TakesGarbage, Parsed
<1>7. CASE HandleClose  BY <1>7 DEF HandleClose, Parsed
<1>8. QED  BY <1>2, <1>3, <1>4, <1>5, <1>6, <1>7 DEF Next, Receive, Handlers, AnswerDownload

LEMMA WholeAdded ==
    ASSUME NEW s \in Seq(Tokens), NEW t \in Seq(Tokens), WholeIn(s), WholeIn(t)
    PROVE  WholeIn(s \o t)
<1>1. /\ Len(s \o t) = Len(s) + Len(t) /\ Len(s) \in Nat /\ Len(t) \in Nat
      /\ \A i \in 1 .. Len(s) : (s \o t)[i] = s[i]
      /\ \A i \in 1 .. Len(t) : (s \o t)[Len(s) + i] = t[i]
      /\ \A i \in 1 .. Len(s) + Len(t) :
            i \in 1 .. Len(s) \/ (i - Len(s) \in 1 .. Len(t) /\ (s \o t)[i] = t[i - Len(s)])
  BY Glued
<1>2. ASSUME NEW i \in 1 .. Len(s \o t), IsHeader((s \o t)[i])
      PROVE  i + 1 <= Len(s \o t) /\ ~IsHeader((s \o t)[i + 1])
  <2>1. CASE i \in 1 .. Len(s)
    <3>1. i + 1 <= Len(s) /\ ~IsHeader(s[i + 1])  BY <1>1, <1>2, <2>1 DEF WholeIn
    <3>2. i + 1 \in 1 .. Len(s)  BY <1>1, <2>1, <3>1
    <3>3. QED  BY <1>1, <3>1, <3>2
  <2>2. CASE i \notin 1 .. Len(s)
    <3>1. PICK k \in 1 .. Len(t) : k = i - Len(s) /\ (s \o t)[i] = t[k]  BY <1>1, <2>2
    <3>2. k + 1 <= Len(t) /\ ~IsHeader(t[k + 1])  BY <1>2, <3>1 DEF WholeIn
    <3>3. k + 1 \in 1 .. Len(t) /\ Len(s) + (k + 1) = i + 1  BY <1>1, <3>1, <3>2
    <3>4. (s \o t)[i + 1] = t[k + 1]  BY <1>1, <3>3
    <3>5. QED  BY <1>1, <3>2, <3>3, <3>4
  <2>3. QED  BY <2>1, <2>2
<1>3. QED  BY <1>2 DEF WholeIn

LEMMA WholeLeft ==
    ASSUME NEW s, NEW r, NEW d \in Nat, Len(r) \in Nat, Len(s) \in Nat, Len(r) + d = Len(s),
           \A i \in 1 .. Len(r) : r[i] = s[i + d], WholeIn(s)
    PROVE  WholeIn(r)
<1>1. ASSUME NEW i \in 1 .. Len(r), IsHeader(r[i])
      PROVE  i + 1 <= Len(r) /\ ~IsHeader(r[i + 1])
  <2>1. i + d \in 1 .. Len(s) /\ r[i] = s[i + d]  OBVIOUS
  <2>2. (i + d) + 1 <= Len(s) /\ ~IsHeader(s[(i + d) + 1])  BY <1>1, <2>1 DEF WholeIn
  <2>3. i + 1 \in 1 .. Len(r) /\ (i + 1) + d = (i + d) + 1  BY <2>2
  <2>4. r[i + 1] = s[(i + d) + 1]  BY <2>3
  <2>5. QED  BY <2>2, <2>3, <2>4
<1>2. QED  BY <1>1 DEF WholeIn

LEMMA WholePdu ==
    ASSUME Typed, NEW k \in Kinds
    PROVE  Pdu(k, 0) \in Seq(Tokens) /\ WholeIn(Pdu(k, 0))
<1>1. /\ Pdu(k, 0) \in Seq(Tokens) /\ Len(Pdu(k, 0)) = 2 /\ ~IsHeader(Pdu(k, 0)[2])
  BY PduIs
<1>2. \A i \in 1 .. 2 : i = 1 \/ i = 2  OBVIOUS
<1>3. QED  BY <1>1, <1>2 DEF WholeIn

LEMMA WholeFile ==
    ASSUME Typed, NEW n \in Nat, NEW m \in Nat
    PROVE  File(n, m) \in Seq(Tokens) /\ WholeIn(File(n, m))
<1>1. /\ File(n, m) \in Seq(Tokens) /\ Len(File(n, m)) = 2 + m
      /\ \A i \in 1 .. Len(File(n, m)) : IsHeader(File(n, m)[i]) => i = 1
  BY DownloadAnswer DEF Announces
<1>2. 2 \in 1 .. Len(File(n, m)) /\ 2 # 1 /\ 1 + 1 = 2 /\ 2 <= Len(File(n, m))  BY <1>1
<1>3. ~IsHeader(File(n, m)[2])  BY <1>1, <1>2
<1>4. QED  BY <1>1, <1>2, <1>3 DEF WholeIn

\* What the server appends to the output buffer, and whether it answers.
Answering(t) == \E i \in 1 .. Len(t) : IsAnswer(t[i])
Sends == \/ UNCHANGED toClient
         \/ \E t \in Seq(Tokens) : Sent(t) /\ WholeIn(t)
Replies == \E t \in Seq(Tokens) : Sent(t) /\ WholeIn(t) /\ Answering(t)

LEMMA Replying ==
    ASSUME Typed, NEW k \in {"reply", "upload_ok"}, Sent(Pdu(k, 0))
    PROVE  Replies
<1>1. Pdu(k, 0) \in Seq(Tokens) /\ WholeIn(Pdu(k, 0))  BY WholePdu DEF Kinds, Answers
<1>2. Len(Pdu(k, 0)) = 2 /\ Pdu(k, 0)[1].kind = k /\ IsHeader(Pdu(k, 0)[1])
  <2>1. k \in Kinds /\ 0 \in Nat  BY DEF Kinds, Answers
  <2>2. QED  BY <2>1, PduIs
<1>3. 1 \in 1 .. Len(Pdu(k, 0)) /\ IsAnswer(Pdu(k, 0)[1])  BY <1>2 DEF IsAnswer
<1>4. QED  BY <1>1, <1>3 DEF Replies, Answering

LEMMA ReplyingFile ==
    ASSUME Typed, AnswerDownload
    PROVE  Replies
<1>1. PICK n \in Nat, m \in Nat : n = Head(recvbuf).size /\ HandleDownloadFile(m)
  BY TypedPick, TransferAssumption DEF AnswerDownload, HandleDownloadFile
<1>2. toClient' = toClient \o Pdu("download_rsp", n) \o FileBytes(m)
  BY <1>1 DEF HandleDownloadFile
<1>3. Sent(File(n, m))
  <2>1. toClient \o Pdu("download_rsp", n) \o FileBytes(m) = toClient \o File(n, m)
    BY DownloadAnswer
  <2>2. QED  BY <1>2, <2>1 DEF Sent
<1>4. File(n, m) \in Seq(Tokens) /\ WholeIn(File(n, m)) /\ Len(File(n, m)) = 2 + m
  BY WholeFile, DownloadAnswer DEF Announces
<1>5. /\ Pdu("download_rsp", n) \in Seq(Tokens) /\ Len(Pdu("download_rsp", n)) = 2
      /\ Pdu("download_rsp", n)[1].kind = "download_rsp" /\ IsHeader(Pdu("download_rsp", n)[1])
      /\ FileBytes(m) \in Seq(Tokens)
  <2>1. "download_rsp" \in Kinds  BY DEF Kinds, Answers
  <2>2. FileBytes(m) \in Seq(Tokens)  BY FileIs
  <2>3. QED  BY <2>1, <2>2, PduIs
<1>6. 1 \in 1 .. Len(File(n, m)) /\ 1 \in 1 .. 2  BY <1>4
<1>7. File(n, m)[1] = Pdu("download_rsp", n)[1]  BY <1>5, <1>6, Glued DEF File
<1>8. IsAnswer(File(n, m)[1])  BY <1>5, <1>7 DEF IsAnswer
<1>9. QED  BY <1>3, <1>4, <1>6, <1>8 DEF Replies, Answering

LEMMA ServerSends ==
    ASSUME Typed, Unfinished, Receive \/ Handlers \/ Push
    PROVE  Sends /\ UNCHANGED <<link, client>>
<1>1. Wrote => Sends
  BY Replying DEF Wrote, Replies, Sends
<1>2. ASSUME NEW n \in 1 .. Len(toServer), HandleMessage(n) PROVE Sends /\ UNCHANGED <<link, client>>
  <2>1. UNCHANGED <<link, client>>  BY <1>2 DEF HandleMessage
  <2>2. QED  BY <1>1, <1>2, <2>1, Received DEF Sends
<1>3. CASE HandleAsk
  <2>1. Sent(Pdu("reply", 0)) /\ UNCHANGED <<link, client>>  BY <1>3 DEF HandleAsk, Sent
  <2>2. QED  BY <2>1, Replying DEF Replies, Sends
<1>4. CASE HandleUpdateFile
  <2>1. UNCHANGED <<link, client>>  BY <1>4 DEF HandleUpdateFile
  <2>2. QED  BY <1>1, <1>4, <2>1, Begun
<1>5. CASE AnswerDownload
  <2>1. UNCHANGED <<link, client>>  BY <1>5 DEF AnswerDownload, HandleDownloadFile
  <2>2. QED  BY <1>5, <2>1, ReplyingFile DEF Replies, Sends
<1>6. CASE HandleUpdateFileFails \/ ParsingDone \/ TakesGarbage
  BY <1>6 DEF HandleUpdateFileFails, ParsingDone, TakesGarbage, network, Sends
<1>7. CASE Push
  <2>1. Sent(Pdu("push", 0)) /\ UNCHANGED <<link, client>>  BY <1>7 DEF Push, Sent
  <2>2. Pdu("push", 0) \in Seq(Tokens) /\ WholeIn(Pdu("push", 0))
    BY WholePdu DEF Kinds, Answers
  <2>3. QED  BY <2>1, <2>2 DEF Sends
<1>8. QED  BY <1>2, <1>3, <1>4, <1>5, <1>6, <1>7 DEF Receive, Handlers, AnswerDownload

\* Delivery moves the cut, the client takes from the front.
LEMMA Delivered ==
    ASSUME Typed, NEW n \in 1 .. Len(toClient), Deliver(n)
    PROVE  Down' = Down
<1>1. /\ inbox' = inbox \o SubSeq(toClient, 1, n)
      /\ toClient' = SubSeq(toClient, n + 1, Len(toClient))
  BY DEF Deliver
<1>2. inbox \in Seq(Tokens) /\ toClient \in Seq(Tokens)  BY DEF Typed
<1>3. (inbox \o SubSeq(toClient, 1, n)) \o SubSeq(toClient, n + 1, Len(toClient)) = inbox \o toClient
  BY <1>2, Moved
<1>4. QED  BY <1>1, <1>3 DEF Down

LEMMA WholeStep == ASSUME Typed, Ended, Unfinished, Whole, [Next]_vars  PROVE Whole'
<1>1. Typed  OBVIOUS
<1>2. (UNCHANGED link /\ Down' = Down) => Whole'  BY DEF Whole
<1>3. CASE UNCHANGED vars \/ (UserStep /\ ~HangUp /\ ~Connect) \/ UpdateFileDate
  <2>1. UNCHANGED <<link, inbox, toClient>>
    BY <1>3 DEF vars, network, client, UserStep, Ask, UpdateFile, DownloadFile, Request, UpdateFileDate
  <2>2. QED  BY <1>2, <2>1 DEF Down
<1>4. CASE HangUp
  <2>1. link # "closed" /\ Down' = Down  BY <1>4 DEF HangUp, network, Down
  <2>2. QED  BY <2>1 DEF Whole
<1>5. CASE Connect
  <2>1. link = "closed" /\ inbox' = << >> /\ toClient' = toClient  BY <1>5 DEF Connect, network
  <2>2. toClient = << >> /\ << >> \o << >> = << >> /\ Len(<< >>) = 0
    BY <2>1, EmptySeq, ConcatEmptySeq DEF Ended
  <2>3. \A i \in 1 .. Len(Down') : FALSE  BY <2>1, <2>2 DEF Down
  <2>4. QED  BY <2>3 DEF Whole, WholeIn
<1>6. CASE Receive \/ Handlers \/ Push
  <2>1. UNCHANGED <<link, inbox>> /\ Sends  BY <1>1, <1>6, ServerSends DEF client
  <2>2. CASE UNCHANGED toClient  BY <1>2, <2>1, <2>2 DEF Down
  <2>3. ASSUME NEW t \in Seq(Tokens), Sent(t), WholeIn(t) PROVE Whole'
    <3>1. Down' = Down \o t /\ Down \in Seq(Tokens)  BY <1>1, <2>1, <2>3, Behind DEF Sent
    <3>2. QED  BY <2>1, <2>3, <3>1, WholeAdded DEF Whole
  <2>4. QED  BY <2>1, <2>2, <2>3 DEF Sends
<1>7. CASE HandleClose  BY <1>7 DEF HandleClose, Whole
<1>8. CASE Arrive
  <2>1. UNCHANGED link  BY <1>8 DEF Arrive, Deliver
  <2>2. QED  BY <1>1, <1>2, <1>8, <2>1, Delivered DEF Arrive
<1>9. CASE TakePdu
  <2>1. /\ Len(Down) \in Nat /\ Len(Down) >= 2 /\ Len(Down') = Len(Down) - 2
        /\ \A i \in 1 .. Len(Down') : Down'[i] = Down[i + 2]
    BY <1>1, <1>9, PduOut
  <2>2. Len(Down') \in Nat /\ Len(Down') + 2 = Len(Down) /\ 2 \in Nat  BY <2>1
  <2>3. UNCHANGED link /\ link # "closed"  BY <1>9 DEF TakePdu, RecvPdu
  <2>4. WholeIn(Down)  BY <2>3 DEF Whole
  <2>5. WholeIn(Down')  BY <2>1, <2>2, <2>4, WholeLeft
  <2>6. QED  BY <2>5 DEF Whole
<1>10. CASE RecvFile
  <2>1. /\ Down' = toClient /\ Down = inbox \o Down' /\ Down' \in Seq(Tokens)
    BY <1>1, <1>10, FileIn
  <2>2. inbox \in Seq(Tokens)  BY <1>1 DEF Typed
  <2>3. /\ Len(Down) = Len(inbox) + Len(Down') /\ Len(inbox) \in Nat /\ Len(Down') \in Nat
        /\ \A i \in 1 .. Len(Down') : Down[Len(inbox) + i] = Down'[i]
    BY <2>1, <2>2, Glued
  <2>4. Len(Down') + Len(inbox) = Len(Down) /\ Len(Down) \in Nat  BY <2>3
  <2>5. \A i \in 1 .. Len(Down') : Down'[i] = Down[i + Len(inbox)]
    <3>1. \A i \in 1 .. Len(Down') : i + Len(inbox) = Len(inbox) + i  BY <2>3
    <3>2. QED  BY <2>3, <3>1
  <2>6. WholeIn(Down)  BY <1>10 DEF RecvFile, Whole
  <2>7. WholeIn(Down')  BY <2>3, <2>4, <2>5, <2>6, WholeLeft
  <2>8. QED  BY <2>7 DEF Whole
<1>11. CASE RecvMsgReturns \/ RecvGarbage \/ DialogClosed
  <2>1. UNCHANGED <<link, inbox, toClient>>
    BY <1>11 DEF RecvMsgReturns, RecvGarbage, DialogClosed, network
  <2>2. QED  BY <1>2, <2>1 DEF Down
<1>12. QED
  BY <1>3, <1>4, <1>5, <1>6, <1>7, <1>8, <1>9, <1>10, <1>11 DEF Next, RecvMsg, TakePdu

LEMMA LookedStep == ASSUME UpInv, Looked, [Next]_vars, ~Connect  PROVE Looked'
<1>1. CASE \/ UNCHANGED vars \/ (UserStep /\ ~Connect) \/ UpdateFileDate
           \/ Receive \/ Handlers \/ Push \/ HandleClose
  <2>1. UNCHANGED <<reading, inbox, download>>
    BY <1>1 DEF vars, client, UserStep, Ask, UpdateFile, DownloadFile, Request, HangUp,
       UpdateFileDate, Receive, HandleMessage, Handlers, HandleAsk, HandleUpdateFile,
       HandleUpdateFileFails, AnswerDownload, HandleDownloadFile, ParsingDone, TakesGarbage, Push, HandleClose
  <2>2. QED  BY <2>1 DEF Looked
<1>3. CASE Arrive  BY <1>3 DEF Arrive, Deliver, Looked, UpInv, Typed
<1>4. CASE TakePdu \/ RecvGarbage
  <2>1. reading' = "loop"
    <3>1. CASE TakePdu  BY <3>1 DEF TakePdu, RecvPdu
    <3>2. CASE RecvGarbage  BY <3>2 DEF RecvGarbage
    <3>3. QED  BY <1>4, <3>1, <3>2
  <2>2. QED  BY <2>1 DEF Looked
<1>5. CASE RecvMsgReturns
  <2>1. inbox' = inbox /\ ~download'.active /\ (inbox = << >> \/ Len(inbox) = 1)
    BY <1>5 DEF RecvMsgReturns
  <2>2. Len(<< >>) = 0  BY EmptySeq
  <2>3. \A j \in 1 .. Len(inbox') : j = Len(inbox')
    <3>1. CASE inbox = << >>  BY <2>1, <2>2, <3>1
    <3>2. CASE Len(inbox) = 1
      <4>1. \A j \in 1 .. 1 : j = 1  OBVIOUS
      <4>2. QED  BY <2>1, <3>2, <4>1
    <3>3. QED  BY <2>1, <3>1, <3>2
  <2>4. QED  BY <2>1, <2>3 DEF Looked
<1>6. CASE RecvFile
  <2>1. inbox' = << >> /\ Len(<< >>) = 0  BY <1>6, EmptySeq DEF RecvFile
  <2>2. \A j \in 1 .. Len(inbox') : FALSE  BY <2>1
  <2>3. download \in [active : BOOLEAN, total : Nat, received : Nat, open : BOOLEAN]  BY DEF UpInv, Typed
  <2>4. reading' = "no" /\ download'.active => download'.received < download'.total
    BY <1>6, <2>3 DEF RecvFile, NoDownload
  <2>5. QED  BY <2>1, <2>2, <2>4 DEF Looked
<1>7. CASE DialogClosed
  <2>1. inbox' = inbox /\ ~download'.active /\ reading = "dialog"
    BY <1>7 DEF DialogClosed, NoDownload
  <2>2. Silent(Down)  BY <2>1 DEF UpInv, Answered
  <2>3. /\ Len(Down) = Len(inbox) + Len(toClient) /\ Len(inbox) \in Nat /\ Len(toClient) \in Nat
        /\ \A j \in 1 .. Len(inbox) : Down[j] = inbox[j]
    BY Glued DEF Down, UpInv, Typed
  <2>4. \A j \in 1 .. Len(inbox) : ~IsAnswer(inbox[j])  BY <2>2, <2>3 DEF Silent
  <2>5. QED  BY <2>1, <2>4 DEF Looked
<1>8. QED  BY <1>1, <1>3, <1>4, <1>5, <1>6, <1>7 DEF Next, RecvMsg, TakePdu

\* An answer that was sent is on its way.
LEMMA Heard ==
    ASSUME Typed, Replies, UNCHANGED inbox
    PROVE  ~Silent(Down')
<1>1. PICK t \in Seq(Tokens) : Sent(t) /\ Answering(t)  BY DEF Replies
<1>2. Down' = Down \o t /\ Down \in Seq(Tokens)  BY <1>1, Behind DEF Sent
<1>3. /\ Len(Down \o t) = Len(Down) + Len(t) /\ Len(Down) \in Nat /\ Len(t) \in Nat
      /\ \A j \in 1 .. Len(t) : (Down \o t)[Len(Down) + j] = t[j]
  BY <1>2, Glued
<1>4. PICK j \in 1 .. Len(t) : IsAnswer(t[j])  BY <1>1 DEF Answering
<1>5. Len(Down) + j \in 1 .. Len(Down') /\ IsAnswer(Down'[Len(Down) + j])
  BY <1>2, <1>3, <1>4
<1>6. QED  BY <1>5 DEF Silent

LEMMA StillHeard ==
    ASSUME NEW s \in Seq(Tokens), NEW t \in Seq(Tokens), Silent(s \o t)
    PROVE  Silent(s)
<1>1. /\ Len(s \o t) = Len(s) + Len(t) /\ Len(s) \in Nat /\ Len(t) \in Nat
      /\ \A j \in 1 .. Len(s) : (s \o t)[j] = s[j]
  BY Glued
<1>2. \A j \in 1 .. Len(s) : j \in 1 .. Len(s \o t)  BY <1>1
<1>3. QED  BY <1>1, <1>2 DEF Silent

LEMMA PendingKept ==
    ASSUME Pending, Served' => Served, Silent(Down') => Silent(Down),
           UNCHANGED <<link, waiting, refused>>, download.active => download'.active
    PROVE  Pending'
  BY DEF Pending

LEMMA PendingUser ==
    ASSUME Patient, UpInv, (UserStep /\ ~Connect) \/ UpdateFileDate
    PROVE  Pending'
<1>1. ASSUME NEW k \in Requests, NEW n \in Nat, Request(k, n) PROVE Pending'
  <2>1. Up' = Pdu(k, n)' /\ conn' = conn  BY <1>1, RequestIn DEF Request
  <2>2. Len(Pdu(k, n)) = 2  BY PduIs DEF UpInv, Kinds
  <2>3. Up' = Pdu(k, n)  BY <2>1 DEF Pdu
  <2>4. Len(<< >>) = 0  BY EmptySeq
  <2>5. ~Served'  BY <2>2, <2>3, <2>4 DEF Served
  <2>6. QED  BY <2>5 DEF Pending
<1>2. CASE Ask  BY <1>1, <1>2 DEF Ask, Requests
<1>3. ASSUME NEW n \in Sizes, DownloadFile(n) PROVE Pending'
  BY <1>1, <1>3, TransferAssumption DEF DownloadFile, Requests
<1>4. ASSUME NEW n \in Sizes, UpdateFile(n) PROVE Pending'
  BY <1>1, <1>4, TransferAssumption DEF UpdateFile, Requests
<1>5. CASE HangUp  BY <1>5 DEF HangUp, Pending
<1>7. CASE UpdateFileDate
  <2>1. PICK n \in Sizes : toServer' = toServer \o FileBytes(n)  BY <1>7 DEF UpdateFileDate
  <2>2. timer # {} /\ link = "open" /\ UNCHANGED <<recvbuf, upload, refused>>
    BY <1>7 DEF UpdateFileDate, server
  <2>3. n \in Nat  BY <2>1, TransferAssumption
  <2>4. ~Served /\ ~IsSent  BY <2>2 DEF Served, IsSent
  <2>5. CASE Uploading  BY <2>2, <2>5 DEF Uploading, Pending, Served
  <2>6. CASE IsRefused  BY <2>2, <2>6 DEF IsRefused, Pending
  <2>7. ASSUME NEW m \in Sizes, Announced(m) PROVE Pending'
    <3>1. m \in Nat /\ Typed  BY TransferAssumption DEF UpInv
    <3>2. Pdu("upload", m) \in Seq(Tokens) /\ Len(Pdu("upload", m)) = 2
      <4>1. "upload" \in Kinds  BY DEF Kinds, Requests
      <4>2. QED  BY <3>1, <4>1, PduIs
    <3>3. Up = Pdu("upload", m)  BY <2>2, <2>7, <3>2, Empty DEF Announced
    <3>4. Len(Up) = Len(recvbuf) + Len(toServer) /\ Len(recvbuf) \in Nat /\ Len(toServer) \in Nat
      BY <3>1, Glued DEF Up, Typed
    <3>5. /\ toServer' \in Seq(Tokens) /\ Len(toServer') = Len(toServer) + Len(FileBytes(n))
          /\ Len(FileBytes(n)) \in Nat
      <4>1. FileBytes(n) \in Seq(Tokens)  BY <2>3, <3>1, FileIs
      <4>2. QED  BY <2>1, <3>1, <4>1, Glued DEF Typed
    <3>6. Len(Up') = Len(recvbuf) + Len(toServer')
      <4>1. recvbuf \in Seq(Tokens) /\ toServer' \in Seq(Tokens)  BY <3>1, <3>5 DEF Typed
      <4>2. Len(recvbuf \o toServer') = Len(recvbuf) + Len(toServer')  BY ONLY <4>1, Glued
      <4>3. QED  BY <2>2, <4>2 DEF Up
    <3>7. Len(Up') # 0
      <4>1. Len(Up) = 2  BY <3>2, <3>3
      <4>2. QED  BY ONLY <3>4, <3>5, <3>6, <4>1
    <3>8. Len(<< >>) = 0  BY EmptySeq
    <3>9. QED  BY <3>7, <3>8 DEF Pending, Served
  <2>8. QED  BY <2>2, <2>4, <2>5, <2>6, <2>7 DEF UpInv, Requested
<1>8. QED  BY <1>2, <1>3, <1>4, <1>5, <1>7 DEF UserStep

LEMMA PendingServer ==
    ASSUME UpInv, Unfinished, Pending, Receive \/ Handlers \/ Push \/ HandleClose
    PROVE  Pending'
<1>1. Typed  BY DEF UpInv
<1>2. ASSUME Receive \/ Handlers \/ Push
      PROVE  UNCHANGED <<link, inbox, download, waiting, timer>>
  BY <1>1, <1>2, ServerSends DEF client
<1>3. ASSUME Replies, UNCHANGED inbox PROVE Pending'
  <2>1. ~Silent(Down')  BY <1>1, <1>3, Heard
  <2>2. QED  BY <2>1 DEF Pending
<1>4. ASSUME Wrote, UNCHANGED inbox PROVE Pending'
  <2>1. CASE Sent(Pdu("upload_ok", 0))  BY <1>1, <1>3, <1>4, <2>1, Replying
  <2>2. CASE upload'.active  BY <2>2 DEF Pending, Served
  <2>3. QED  BY <1>4, <2>1, <2>2 DEF Wrote
<1>5. ASSUME NEW n \in 1 .. Len(toServer), HandleMessage(n) PROVE Pending'
  <2>1. UNCHANGED <<link, inbox, download, waiting, timer>>  BY <1>2, <1>5 DEF Receive
  <2>2. CASE upload.active  BY <1>1, <1>4, <1>5, <2>1, <2>2, Received
  <2>3. CASE ~upload.active
    <3>1. /\ UNCHANGED <<upload, toClient, refused>>
          /\ recvbuf' = recvbuf \o SubSeq(toServer, 1, n)
          /\ toServer' = SubSeq(toServer, n + 1, Len(toServer))
      BY <1>5, <2>3 DEF HandleMessage
    <3>2. recvbuf \in Seq(Tokens) /\ toServer \in Seq(Tokens)  BY <1>1 DEF Typed
    <3>3. Up' = Up  BY <3>1, <3>2, Moved DEF Up
    <3>4. Down' = Down  BY <2>1, <3>1 DEF Down
    <3>5. QED  BY <2>1, <3>1, <3>3, <3>4, PendingKept DEF Served
  <2>4. QED  BY <2>2, <2>3
<1>6. CASE HandleAsk
  <2>1. Sent(Pdu("reply", 0))  BY <1>6 DEF HandleAsk, Sent
  <2>2. QED  BY <1>1, <1>2, <1>3, <1>6, <2>1, Replying DEF Handlers, AnswerDownload
<1>7. CASE AnswerDownload  BY <1>1, <1>2, <1>3, <1>7, ReplyingFile DEF Handlers, AnswerDownload
<1>8. CASE HandleUpdateFile  BY <1>1, <1>2, <1>4, <1>8, Begun DEF Handlers, AnswerDownload
<1>9. CASE HandleUpdateFileFails  BY <1>9 DEF HandleUpdateFileFails, Pending
<1>10. CASE ParsingDone \/ TakesGarbage
  <2>1. UNCHANGED <<recvbuf, toServer, toClient, upload, refused>>
    BY <1>10 DEF ParsingDone, TakesGarbage, network
  <2>2. UNCHANGED <<link, inbox, download, waiting, timer>>  BY <1>2, <1>10 DEF Handlers, AnswerDownload
  <2>3. Up' = Up /\ Down' = Down  BY <2>1, <2>2 DEF Up, Down
  <2>4. QED  BY <2>1, <2>2, <2>3, PendingKept DEF Served
<1>11. CASE Push
  <2>1. /\ toClient' = toClient \o Pdu("push", 0)
        /\ UNCHANGED <<recvbuf, toServer, upload, refused>>
    BY <1>11 DEF Push, server
  <2>2. UNCHANGED <<link, inbox, download, waiting, timer>>  BY <1>2, <1>11
  <2>3. Pdu("push", 0) \in Seq(Tokens)  BY <1>1, WholePdu DEF Kinds, Answers
  <2>4. Down' = Down \o Pdu("push", 0) /\ Down \in Seq(Tokens)  BY <1>1, <2>1, <2>2, <2>3, Behind
  <2>5. Silent(Down') => Silent(Down)  BY <2>3, <2>4, StillHeard
  <2>6. Up' = Up  BY <2>1 DEF Up
  <2>7. QED  BY <2>1, <2>2, <2>5, <2>6, PendingKept DEF Served
<1>12. CASE HandleClose  BY <1>12 DEF HandleClose, Pending
<1>13. QED
  BY <1>5, <1>6, <1>7, <1>8, <1>9, <1>10, <1>11, <1>12 DEF Receive, Handlers, AnswerDownload

LEMMA PendingClient ==
    ASSUME UpInv, Whole, Pending, Arrive \/ RecvMsg
    PROVE  Pending'
<1>1. Typed  BY DEF UpInv
<1>2. UNCHANGED <<recvbuf, toServer, upload, timer, refused, link>> /\ link = "open"
  <2>1. CASE TakePdu  BY <2>1 DEF TakePdu, RecvPdu, server, network
  <2>2. CASE Arrive \/ RecvMsgReturns \/ RecvGarbage \/ RecvFile \/ DialogClosed
    BY <2>2 DEF Arrive, Deliver, RecvMsgReturns, RecvGarbage, RecvFile, DialogClosed, server, network
  <2>3. QED  BY <2>1, <2>2 DEF RecvMsg, TakePdu
<1>3. Served' => Served  BY <1>2 DEF Served, Up
<1>4. CASE Arrive
  <2>1. UNCHANGED <<waiting, download>>  BY <1>4 DEF Arrive, Deliver
  <2>2. Down' = Down  BY <1>1, <1>4, Delivered DEF Arrive
  <2>3. QED  BY <1>2, <1>3, <2>1, <2>2, PendingKept
<1>5. CASE RecvMsgReturns \/ RecvGarbage
  <2>1. UNCHANGED <<waiting, download, inbox, toClient>>
    BY <1>5 DEF RecvMsgReturns, RecvGarbage, network
  <2>2. QED  BY <1>2, <1>3, <2>1, PendingKept DEF Down
<1>6. CASE DialogClosed
  <2>1. reading = "dialog" /\ waiting' = IF waiting = "download" THEN "none" ELSE waiting
    BY <1>6 DEF DialogClosed
  <2>2. waiting = "download"  BY <2>1 DEF UpInv, Answered
  <2>3. QED  BY <2>1, <2>2 DEF Pending
<1>7. CASE RecvFile
  <2>1. download.active /\ waiting = "download"  BY <1>7 DEF RecvFile, UpInv, Answered
  <2>2. download \in [active : BOOLEAN, total : Nat, received : Nat, open : BOOLEAN]  BY <1>1 DEF Typed
  <2>3. download'.active \/ waiting' = "none"  BY <1>7, <2>1, <2>2 DEF RecvFile
  <2>4. QED  BY <2>3 DEF Pending
<1>8. CASE TakePdu
  <2> DEFINE pdu == Head(inbox)
  <2>1. /\ pdu = Down[1] /\ IsHeader(pdu)
        /\ Len(Down) \in Nat /\ Len(Down) >= 2 /\ Len(Down') = Len(Down) - 2
        /\ \A j \in 1 .. Len(Down') : Down'[j] = Down[j + 2]
    <3>1. IsHeader(pdu)  BY <1>8 DEF TakePdu, RecvPdu
    <3>2. QED  BY <1>1, <1>8, <3>1, PduOut
  <2>2. 1 \in 1 .. Len(Down)  BY <2>1
  <2>3. CASE pdu.kind = "push"
    <3>1. UNCHANGED <<waiting, download>>
      BY <1>1, <1>8, <2>3 DEF TakePdu, RecvPdu, Typed, Requests
    <3>2. ~IsHeader(Down[1 + 1])  BY <1>2, <2>1, <2>2 DEF Whole, WholeIn
    <3>3. ASSUME Silent(Down'), NEW j \in 1 .. Len(Down), IsAnswer(Down[j]) PROVE FALSE
      <4>1. j # 1  BY <2>1, <2>3, <3>3 DEF IsAnswer
      <4>2. j # 1 + 1  BY <3>2, <3>3 DEF IsAnswer
      <4>3. j - 2 \in 1 .. Len(Down') /\ (j - 2) + 2 = j  BY <2>1, <4>1, <4>2
      <4>4. Down'[j - 2] = Down[j]  BY <2>1, <4>3
      <4>5. QED  BY <3>3, <4>3, <4>4 DEF Silent
    <3>4. Silent(Down') => Silent(Down)  BY <3>3 DEF Silent
    <3>5. QED  BY <1>2, <1>3, <3>1, <3>4, PendingKept
  <2>4. CASE pdu.kind # "push"
    <3>1. AnswerTo(pdu, waiting)  BY <2>1, <2>2, <2>4 DEF UpInv, Answered, Fits, IsAnswer
    <3>2. CASE pdu.kind = "download_rsp" /\ pdu.size > 0
      <4>0. PICK opens \in BOOLEAN : RecvPdu(opens)  BY <1>8 DEF TakePdu
      <4>1. download' = [download EXCEPT !.active = TRUE, !.total = pdu.size, !.open = opens]
        BY <3>2, <4>0 DEF RecvPdu
      <4>2. download'.active  BY <1>1, <4>1 DEF Typed
      <4>3. QED  BY <4>2 DEF Pending
    <3>3. CASE ~(pdu.kind = "download_rsp" /\ pdu.size > 0)
      <4>1. waiting' = "none"  BY <1>8, <3>1, <3>3 DEF TakePdu, RecvPdu, AnswerTo
      <4>2. QED  BY <4>1 DEF Pending
    <3>4. QED  BY <3>2, <3>3
  <2>5. QED  BY <2>3, <2>4
<1>9. QED  BY <1>4, <1>5, <1>6, <1>7, <1>8 DEF RecvMsg, TakePdu

LEMMA QuietInit == Init => QuietInv
<1> SUFFICES ASSUME Init PROVE QuietInv  OBVIOUS
<1>1. /\ ~upload.active /\ recvbuf = << >> /\ inbox = << >> /\ toClient = << >>
      /\ ~download.active /\ waiting = "none"
  BY DEF Init, NoUpload, NoDownload
<1>2. << >> \o << >> = << >> /\ Len(<< >>) = 0  BY ConcatEmptySeq, EmptySeq
<1>3. (\A j \in 1 .. Len(Down) : FALSE) /\ (\A j \in 1 .. Len(inbox) : FALSE)
  BY <1>1, <1>2 DEF Down
<1>4. QED  BY <1>1, <1>3 DEF QuietInv, Unfinished, Parsed, Whole, WholeIn, Looked, Pending

\* A connection begins.
LEMMA QuietAfresh ==
    ASSUME UpHolds, Connect, miscounted' = {}  PROVE QuietInv'
<1>1. /\ link = "closed" /\ inbox' = << >> /\ ~download'.active /\ waiting' = "none" /\ ~upload.active
      /\ UNCHANGED <<toClient, recvbuf, parsing, garbled, upload>>
  BY DEF Connect, NoDownload, network
<1>2. toClient = << >> /\ recvbuf = << >>  BY <1>1 DEF UpHolds, Ended
<1>3. << >> \o << >> = << >> /\ Len(<< >>) = 0  BY ConcatEmptySeq, EmptySeq
<1>4. (\A j \in 1 .. Len(Down') : FALSE) /\ (\A j \in 1 .. Len(inbox') : FALSE)
  BY <1>1, <1>2, <1>3 DEF Down
<1>5. QED  BY <1>1, <1>2, <1>4 DEF QuietInv, Unfinished, Parsed, Whole, WholeIn, Looked, Pending

QuietHolds == miscounted = {} => QuietInv

LEMMA QuietStep == ASSUME Patient, UpHolds, QuietHolds, [Next]_vars  PROVE QuietHolds'
<1>1. CASE Connect  BY <1>1, QuietAfresh DEF QuietHolds
<1>2. CASE ~Connect
  <2>1. SUFFICES ASSUME miscounted' = {} PROVE QuietInv'  BY DEF QuietHolds
  <2>2. UpInv /\ QuietInv  BY <1>2, <2>1, Unforgotten DEF UpHolds, QuietHolds
  <2>3. Typed /\ Ended /\ Unfinished /\ Parsed /\ Whole /\ Looked /\ Pending
    BY <2>2 DEF UpInv, QuietInv
  <2>4. Unfinished' /\ Parsed' /\ Whole' /\ Looked'
    BY <1>2, <2>2, <2>3, UnfinishedStep, ParsedStep, WholeStep, LookedStep
  <2>5. Pending'
    <3>1. CASE UNCHANGED vars
      <4>1. /\ UNCHANGED <<recvbuf, toServer, inbox, toClient, upload, timer>>
            /\ UNCHANGED <<link, waiting, refused, download>>
        BY <3>1 DEF vars, network, server, client
      <4>2. QED  BY <2>3, <4>1, PendingKept DEF Served, Up, Down
    <3>2. CASE Next
      BY <1>2, <2>2, <2>3, <3>2, PendingUser, PendingServer, PendingClient DEF Next
    <3>3. QED  BY <3>1, <3>2
  <2>6. QED  BY <2>4, <2>5 DEF QuietInv
<1>3. QED  BY <1>1, <1>2

\* What the parts say together: every place where the request of a user who
\* waits could be is empty.
LEMMA QuietIsAnswered == UpHolds /\ DownHolds /\ QuietHolds => NobodyWaitsInVain
<1> SUFFICES ASSUME UpInv, DownInv, QuietInv, Quiet, link = "open", ~refused,
                    ~(upload.active /\ upload.total = 0), waiting # "none"
             PROVE  FALSE
  BY DEF NobodyWaitsInVain, LeftUnanswered, UpHolds, DownHolds, QuietHolds
<1>1. /\ Typed /\ toServer = << >> /\ toClient = << >> /\ timer = {} /\ ~parsing /\ reading = "no"
      /\ inbox \in Seq(Tokens) /\ recvbuf \in Seq(Tokens)
  BY DEF UpInv, Typed, Quiet
<1>2. Up = recvbuf /\ Down = inbox  BY <1>1, Empty DEF Up, Down
<1>3. Len(recvbuf) = 0 \/ Len(recvbuf) = 1
  <2>1. ~garbled  BY DEF UpInv, Aligned
  <2>2. recvbuf = << >> \/ Len(recvbuf) = 1  BY <1>1, <2>1 DEF QuietInv, Parsed
  <2>3. Len(<< >>) = 0  BY EmptySeq
  <2>4. QED  BY <2>2, <2>3
<1>4. ~IsSent
  <2>1. SUFFICES ASSUME NEW k \in {"ask", "download"}, NEW n \in Nat, Up = Pdu(k, n) PROVE FALSE
    BY DEF IsSent
  <2>2. k \in Kinds  BY DEF Kinds, Requests
  <2>3. Len(Pdu(k, n)) = 2  BY <1>1, <2>2, PduIs
  <2>4. QED  BY <1>2, <1>3, <2>1, <2>3
<1>5. ASSUME NEW n \in Sizes, Announced(n) PROVE FALSE
  <2>1. n \in Nat /\ Up = Pdu("upload", n) \o FileBytes(n)
    BY <1>1, <1>5, TransferAssumption DEF Announced
  <2>2. "upload" \in Kinds  BY DEF Kinds, Requests
  <2>3. Pdu("upload", n) \in Seq(Tokens) /\ Len(Pdu("upload", n)) = 2  BY <1>1, <2>1, <2>2, PduIs
  <2>4. FileBytes(n) \in Seq(Tokens)  BY <1>1, <2>1, FileIs
  <2>5. Len(Up) = 2 + Len(FileBytes(n)) /\ Len(FileBytes(n)) \in Nat
    <3>1. /\ Len(Pdu("upload", n) \o FileBytes(n)) = Len(Pdu("upload", n)) + Len(FileBytes(n))
          /\ Len(FileBytes(n)) \in Nat
      BY ONLY <2>3, <2>4, Glued
    <3>2. QED  BY <2>1, <2>3, <3>1
  <2>6. QED  BY <1>2, <1>3, <2>5
<1>6. ~Uploading
  <2>1. SUFFICES ASSUME Uploading PROVE FALSE  OBVIOUS
  <2>2. stored.data \in Seq(Tokens) /\ upload.total \in Nat  BY <1>1 DEF Typed
  <2>3. stored.data = FileBytes(upload.total)  BY <1>1, <2>1, <2>2, Empty DEF Uploading
  <2>4. Len(stored.data) = upload.total  BY <1>1, <2>2, <2>3, FileIs
  <2>5. upload.received = upload.total /\ upload.active  BY <2>1, <2>4 DEF Uploading
  <2>6. QED  BY <2>2, <2>5 DEF QuietInv, Unfinished
<1>7. Served  BY <1>4, <1>5, <1>6 DEF UpInv, Requested, IsRefused
<1>8. ~download.active
  <2>1. SUFFICES ASSUME download.active PROVE FALSE  OBVIOUS
  <2>2. inbox = << >> /\ download.received < download.total
    BY <1>1, <2>1 DEF QuietInv, Looked
  <2>3. download.total <= download.received + Len(inbox)
    BY <1>2, <2>1 DEF DownInv, Filling
  <2>4. download.total \in Nat /\ download.received \in Nat /\ Len(inbox) = 0
    BY <1>1, <2>2, EmptySeq DEF Typed
  <2>5. QED  BY <2>2, <2>3, <2>4
<1>9. PICK j \in 1 .. Len(inbox) : IsAnswer(inbox[j])
  BY <1>2, <1>7, <1>8 DEF QuietInv, Pending, Silent
<1>10. j = Len(inbox)  BY <1>1, <1>9 DEF QuietInv, Looked
<1>11. j + 1 <= Len(inbox)  BY <1>2, <1>9 DEF QuietInv, Whole, WholeIn, IsAnswer
<1>12. Len(inbox) \in Nat  BY <1>1, LenProperties
<1>13. QED  BY <1>10, <1>11, <1>12

\* Of the same users: when no byte is on its way, both parsers rest and the
\* timer does not run, the request has been answered, unless the server leaves
\* it without an answer (fopen failed, or it read that the file is empty) or
\* the size of a file was misread.  It is the safety half of EveryRequestEnds.
THEOREM QuietMeansAnswered == ASSUME Patient, CleanHeap  PROVE Spec => []NobodyWaitsInVain
<1>1. Init => DownHolds /\ QuietHolds  BY DownInit, QuietInit DEF DownHolds, QuietHolds
<1>2. UpHolds /\ DownHolds /\ QuietHolds /\ [Next]_vars => (DownHolds /\ QuietHolds)'
  BY DownStep, QuietStep
<1>3. UpHolds /\ DownHolds /\ QuietHolds => NobodyWaitsInVain  BY QuietIsAnswered
<1>4. QED  BY <1>1, <1>2, <1>3, InStep, PTL DEF Spec
=============================================================================
