----------------------------- MODULE ChatProofs -----------------------------
(***************************************************************************)
(* Proofs about Chat, for every tokenizer, model, conversation and bound:  *)
(* type correctness, the invariant of k3_prefix.h, the history file, the   *)
(* reuse of a prefix across growing buffers, and the refinement of         *)
(* Conversation.  They rest on one inductive invariant: what the carried   *)
(* state was fed, what a turn has drawn, and how the file and the stream   *)
(* numbers follow the transcript.                                          *)
(***************************************************************************)
EXTENDS Chat, Facts, SequenceTheorems

-----------------------------------------------------------------------------
(* The inductive invariant. *)

(* Rows and recurrent state are those of the ids absorbed, and the record,  *)
(* where there is one, names them.                                          *)
Carried ==
    /\ cached = Len(kvc) /\ Coherent
    /\ fed \notin {NoRecord, <<>>} => fed = ks
    /\ ~mode.incremental => ks = <<>> /\ fed = NoRecord

(* The prompt in hand is the transcript that waits for its answer.          *)
Waiting ==
    (pc \in {"turn", "feed", "drawn"} \/ (pc = "save" /\ Awaits(history))) =>
        /\ Awaits(history)
        /\ prompt = Render(history) /\ np <= MAX_PROMPT

(* What a turn has drawn is, id by id, the model's answer to all before it. *)
Drawing ==
    pc \in {"feed", "drawn"} =>
        /\ np <= T /\ T <= np + gen /\ need <= tmax
        /\ SubSeq(seq, 1, np) = prompt
        /\ \A i \in np + 1 .. T : seq[i] = Answer(SubSeq(seq, 1, i - 1), turn + 1)
        /\ \A i \in np + 1 .. T - 1 : seq[i] \notin Ends
        /\ pc = "feed" => T < np + gen /\ (T > np => seq[T] \notin Ends)
        /\ pc = "drawn" => T > np

(* The ids absorbed begin the sequence; after the first feed only the id    *)
(* just drawn is missing.                                                   *)
Absorbed ==
    (pc \in {"feed", "drawn"} /\ mode.incremental) =>
        /\ cached < T
        /\ SubSeq(seq, 1, cached) = ks
        /\ T > np => cached = T - 1

(* The history file is the transcript but for the change being saved.       *)
Stored ==
    mode.path =>
        /\ pc \in {"read", "turn", "feed", "drawn"} => file = history
        /\ pc = "save" => IsPrefix(file, history) \/ history = Opening(file)

(* Streams are numbered beyond the answers given, and bounded by what was   *)
(* said.                                                                    *)
Rounds(h) == Assistants(h) + (IF Awaits(h) THEN 1 ELSE 0)
Numbered ==
    /\ Rounds(history) <= said /\ Rounds(file) <= said
    /\ tmax > 0 => /\ Assistants(history) <= turn
                   /\ turn + (IF Awaits(history) THEN 1 ELSE 0) <= said

(* Nothing is carried before the model is set up. *)
Empty ==
    /\ tmax = 0 => /\ ks = <<>> /\ cached = 0 /\ fed = NoRecord
                   /\ turn = 0 /\ pc \notin {"feed", "drawn"}
    /\ pc = "off" => history = <<>> /\ tmax = 0

IInv ==
    /\ TypeOK /\ Carried /\ Waiting /\ Drawing /\ Absorbed /\ Stored /\ Numbered /\ Empty

-----------------------------------------------------------------------------
(* Constants and messages. *)

LEMMA Constants ==
    /\ Tok \subseteq Ids /\ Eom \in Ids /\ Eom \in Ends /\ Ends \subseteq Ids
    /\ \A r \in Roles : Open[r] \in Ids /\ Open[r] \notin Ends
    /\ Said \subseteq Seq(Tok) /\ Systems \subseteq Seq(Tok)
    /\ NL \in Nat /\ MAX_PROMPT \in Nat /\ MAX_GEN \in Nat
    /\ MaxLaunches \in Nat /\ MaxSaid \in Nat
BY ChatAssumption DEF Eom, Ids

LEMMA ModeIs ==
    ASSUME mode \in Modes
    PROVE  /\ mode.incremental \in BOOLEAN /\ mode.path \in BOOLEAN
           /\ gen \in Nat /\ gen > 0 /\ gen <= MAX_GEN
BY ChatAssumption DEF gen

(* Text whose length an answer may have is encoded to text ids.             *)
LEMMA Reencoded ==
    ASSUME NEW s \in Seq(Tok), Len(s) <= MAX_GEN
    PROVE  Reencode(s) \in Seq(Tok)
<1>1. Len(s) \in 0 .. MAX_GEN /\ s \in [1 .. Len(s) -> Tok]
  BY LenProperties, Constants
<1>2. s \in BoundedSeq(Tok, MAX_GEN)
  BY <1>1 DEF BoundedSeq, SeqOf
<1>3. QED
  BY <1>2, ChatAssumption

LEMMA MessagesAre ==
    /\ \A u \in Seq(Tok) : /\ user(u) \in Messages /\ user(u).role = "user"
                           /\ system(u) \in Messages /\ system(u).role = "system"
                           /\ assistant(u) \in Messages /\ assistant(u).role = "assistant"
BY DEF Messages, Roles, user, system, assistant

LEMMA HistoryIs ==
    ASSUME NEW h \in Seq(Messages)
    PROVE  /\ Len(h) \in Nat /\ (h = <<>> <=> Len(h) = 0)
           /\ \A i \in 1 .. Len(h) : h[i] \in Messages /\ h[i].role \in Roles /\ h[i].ids \in Seq(Tok)
<1>1. Len(h) \in Nat /\ (h # <<>> => Len(h) # 0) /\ Len(<<>>) = 0
  BY LenProperties, EmptySeq
<1>2. \A i \in 1 .. Len(h) : h[i] \in Messages
  BY ElementOfSeq
<1>3. QED
  BY <1>1, <1>2 DEF Messages

-----------------------------------------------------------------------------
(* The alternation of the transcript (k3_chat_history_validate). *)

LEMMA ValidSplits ==
    ASSUME NEW h \in Seq(Messages), NEW m \in Messages, Valid(h),
           m.role \in {"user", "assistant"},
           Awaits(h) <=> m.role = "assistant"
    PROVE  Valid(Append(h, m))
<1> DEFINE g == Append(h, m)
           n == Len(h)
<1>1. n \in Nat /\ (h = <<>> <=> n = 0) /\ \A i \in 1 .. n : h[i].role \in Roles
  BY HistoryIs
<1>2. Len(g) = n + 1 /\ g[n + 1] = m /\ \A i \in 1 .. n : g[i] = h[i]
  BY AppendProperties
<1>3. Awaits(h) <=> (n # 0 /\ h[n].role = "user")
  BY <1>1 DEF Awaits
<1> DEFINE first(k) == IF k[1].role = "system" THEN 2 ELSE 1
           Right(k, i) == IF k[i].role = "system" THEN i = 1
                          ELSE k[i].role = IF (i - first(k)) % 2 = 0 THEN "user" ELSE "assistant"
<1>4. \A i \in 1 .. n : Right(h, i)
  BY DEF Valid
<1>5. ASSUME NEW i \in 1 .. n PROVE Right(g, i)
  <2>1. 1 \in 1 .. n
    BY <1>1
  <2>2. g[1] = h[1] /\ g[i] = h[i]
    BY <1>2, <2>1
  <2>3. QED
    BY <1>4, <2>2
<1>6. Right(g, n + 1)
  <2>1. CASE n = 0
    <3>1. g[1].role = "user"
      BY <1>2, <1>3, <2>1
    <3>2. QED
      BY <2>1, <3>1
  <2>2. CASE n # 0
    <3>1. g[1] = h[1] /\ first(g) = first(h) /\ first(h) \in {1, 2} /\ g[n + 1] = m
      BY <1>1, <1>2, <2>2
    <3>2. Right(h, n) /\ Right(h, 1)
      <4>1. n \in 1 .. n /\ 1 \in 1 .. n
        BY <1>1, <2>2
      <4> HIDE DEF Right, n
      <4>2. QED
        BY <1>4, <4>1
    <3>3. h[n].role = "system" => n = 1 /\ first(h) = 2
      BY <3>2
    <3>4. n >= first(h) \/ h[n].role = "system"
      BY <1>1, <2>2, <3>1, <3>2
    <3>5. (n + 1 - first(h)) % 2 = IF m.role = "user" THEN 0 ELSE 1
      <4>1. CASE h[n].role = "system"
        <5>1. n = 1 /\ first(h) = 2
          BY <3>3, <4>1
        <5>2. m.role = "user"
          <6> HIDE DEF n
          <6>1. h[n].role # "user"
            BY <4>1
          <6>2. QED
            BY <1>3, <6>1
        <5> HIDE DEF first, n
        <5>3. QED
          BY <5>1, <5>2
      <4>2. CASE h[n].role # "system"
        <5>1. n - first(h) \in Nat
          BY <1>1, <3>1, <3>4, <4>2
        <5>2. (n - first(h)) % 2 = 0 <=> m.role = "assistant"
          BY <1>3, <2>2, <3>2, <4>2
        <5>3. \A k \in Nat : (k + 1) % 2 = IF k % 2 = 0 THEN 1 ELSE 0
          OBVIOUS
        <5>4. n + 1 - first(h) = (n - first(h)) + 1
          BY <1>1, <3>1
        <5>5. (n - first(h) + 1) % 2 = IF m.role = "assistant" THEN 1 ELSE 0
          <6> HIDE DEF first, n
          <6>1. QED
            BY <5>1, <5>2, <5>3
        <5>6. (n + 1 - first(h)) % 2 = (n - first(h) + 1) % 2
          BY <5>4
        <5> HIDE DEF first, n
        <5>7. QED
          BY <5>5, <5>6
      <4>3. QED
        BY <4>1, <4>2
    <3>6. QED
      BY <3>1, <3>5
  <2>3. QED
    BY <2>1, <2>2
<1>7. \A i \in 1 .. n + 1 : Right(g, i)
  BY <1>1, <1>5, <1>6
<1>8. QED
  BY <1>2, <1>7 DEF Valid

LEMMA OpeningIs ==
    ASSUME NEW h \in Seq(Messages)
    PROVE  /\ Opening(h) \in Seq(Messages) /\ Valid(Opening(h))
           /\ ~Awaits(Opening(h)) /\ Assistants(Opening(h)) = 0
<1>1. CASE h # <<>> /\ h[1].role = "system"
  <2> DEFINE g == <<h[1]>>
  <2>1. Opening(h) = g /\ h[1] \in Messages
    <3>1. 1 \in 1 .. Len(h)
      BY <1>1, HistoryIs
    <3>2. QED
      BY <1>1, <3>1, HistoryIs DEF Opening
  <2>2. g \in Seq(Messages) /\ Len(g) = 1 /\ g[1].role = "system"
    BY <1>1, <2>1
  <2> HIDE DEF g
  <2>3. {i \in 1 .. Len(g) : g[i].role = "assistant"} = {}
    BY <2>2
  <2>4. Valid(g) /\ ~Awaits(g)
    BY <2>2 DEF Valid, Awaits
  <2>5. Assistants(g) = 0
    BY <2>3, FS_EmptySet DEF Assistants
  <2>6. QED
    BY <2>1, <2>2, <2>4, <2>5
<1>2. CASE ~(h # <<>> /\ h[1].role = "system")
  <2>1. Opening(h) = <<>> /\ Len(<<>>) = 0
    BY <1>2 DEF Opening
  <2>2. {i \in 1 .. Len(<<>>) : <<>>[i].role = "assistant"} = {}
    BY <2>1
  <2>3. QED
    BY <2>1, <2>2, FS_EmptySet, EmptySeq DEF Valid, Awaits, Assistants
<1>3. QED
  BY <1>1, <1>2

LEMMA NothingSaid ==
    /\ <<>> \in Seq(Messages) /\ Valid(<<>>) /\ ~Awaits(<<>>) /\ Assistants(<<>>) = 0
<1>1. Opening(<<>>) = <<>>
  BY DEF Opening
<1>2. <<>> \in Seq(Messages)
  BY EmptySeq
<1>3. QED
  BY <1>1, <1>2, OpeningIs

LEMMA AssistantsGrow ==
    ASSUME NEW h \in Seq(Messages), NEW m \in Messages
    PROVE  /\ Assistants(h) \in Nat
           /\ Assistants(Append(h, m)) = Assistants(h) + (IF m.role = "assistant" THEN 1 ELSE 0)
<1> DEFINE g == Append(h, m)
           n == Len(h)
           A == {i \in 1 .. n : h[i].role = "assistant"}
           B == {i \in 1 .. Len(g) : g[i].role = "assistant"}
<1>1. n \in Nat /\ Len(g) = n + 1 /\ g[n + 1] = m /\ \A i \in 1 .. n : g[i] = h[i]
  BY LenProperties, AppendProperties
<1>2. IsFiniteSet(A) /\ n + 1 \notin A
  <2>1. IsFiniteSet(1 .. n) /\ A \in SUBSET (1 .. n)
    BY <1>1, FS_Interval
  <2>2. IsFiniteSet(A)
    <3> HIDE DEF A
    <3>1. QED
      BY <2>1, FS_Subset
  <2>3. n + 1 \notin 1 .. n
    <3> HIDE DEF n
    <3>1. QED
      BY <1>1
  <2>4. QED
    BY <2>2, <2>3
<1>3. B = IF m.role = "assistant" THEN A \cup {n + 1} ELSE A
  <2> HIDE DEF g, n
  <2>1. \A i : i \in 1 .. n + 1 <=> i \in 1 .. n \/ i = n + 1
    BY <1>1
  <2>2. \A i : i \in B <=> i \in A \/ (i = n + 1 /\ m.role = "assistant")
    BY <1>1, <1>2, <2>1
  <2> HIDE DEF A, B
  <2>3. QED
    BY <2>2
<1>4. Cardinality(A) \in Nat /\ Cardinality(B) = Cardinality(A) + (IF m.role = "assistant" THEN 1 ELSE 0)
  <2> HIDE DEF A, B, n
  <2>1. Cardinality(A) \in Nat
    BY <1>2, FS_CardinalityType
  <2>2. Cardinality(A \cup {n + 1}) = Cardinality(A) + 1
    BY <1>2, FS_AddElement
  <2>3. QED
    BY <1>3, <2>1, <2>2
<1>5. QED
  BY <1>4 DEF Assistants

LEMMA AssistantsIs ==
    ASSUME NEW h \in Seq(Messages)
    PROVE  Assistants(h) \in Nat
<1>1. user(<<>>) \in Messages
  BY MessagesAre, EmptySeq
<1>2. QED
  BY <1>1, AssistantsGrow

LEMMA PrefixIs ==
    ASSUME NEW h \in Seq(Messages)
    PROVE  IsPrefix(h, h) /\ IsPrefix(<<>>, h)
<1>1. Len(h) \in Nat /\ Len(<<>>) = 0 /\ SubSeq(<<>>, 1, 0) = <<>> /\ SubSeq(h, 1, 0) = <<>>
  BY LenProperties, SubSeqEmpty, EmptySeq
<1>2. QED
  BY <1>1 DEF IsPrefix

LEMMA PrefixGrows ==
    ASSUME NEW h \in Seq(Messages), NEW m \in Messages
    PROVE  IsPrefix(h, Append(h, m))
<1>1. Len(h) \in Nat /\ Append(h, m) \in Seq(Messages) /\ Len(Append(h, m)) = Len(h) + 1
      /\ \A i \in 1 .. Len(h) : Append(h, m)[i] = h[i]
  BY LenProperties, AppendProperties
<1>2. SubSeq(h, 1, Len(h)) = SubSeq(Append(h, m), 1, Len(h))
  <2>1. Len(h) \in 0 .. Len(h) /\ Len(h) <= Len(Append(h, m))
    BY <1>1
  <2>2. QED
    BY <1>1, <2>1, FirstsAgree
<1>3. QED
  BY <1>1, <1>2 DEF IsPrefix

-----------------------------------------------------------------------------
(* The rendered transcript is ids, and ends in the marker of an open turn.  *)

LEMMA RenderIs ==
    ASSUME NEW h \in Seq(Messages)
    PROVE  /\ Render(h) \in Seq(Ids) /\ Len(Render(h)) \in Nat /\ Len(Render(h)) > 0
           /\ Render(h)[Len(Render(h))] \notin Ends
<1> DEFINE N == Len(h)
           S == Seq(Ids)
           Put(c, i) == c \o <<Open[h[i].role]>> \o h[i].ids \o <<Eom>>
           g == [q \in S \X (1 .. N) |-> Put(q[1], q[2])]
<1>1. N \in Nat /\ \A i \in 1 .. N : h[i].role \in Roles /\ h[i].ids \in Seq(Tok)
  BY HistoryIs
<1>2. ASSUME NEW c \in S, NEW i \in 1 .. N PROVE Put(c, i) \in S
  <2>1. Open[h[i].role] \in Ids /\ Eom \in Ids
    BY <1>1, Constants
  <2>2. <<Open[h[i].role]>> \in S /\ <<Eom>> \in S
    BY <2>1
  <2>3. h[i].ids \in S
    BY <1>1, Constants, SeqMonotonic
  <2>4. QED
    BY <1>2, <2>2, <2>3, ConcatProperties
<1>3. g \in [S \X (1 .. N) -> S]
  <2> HIDE DEF Put, S
  <2>1. \A q \in S \X (1 .. N) : q[1] \in S /\ q[2] \in 1 .. N
    OBVIOUS
  <2>2. \A q \in S \X (1 .. N) : Put(q[1], q[2]) \in S
    BY <1>2, <2>1
  <2>3. QED
    BY <2>2
<1>4. <<>> \in S
  BY EmptySeq
<1>5. PICK f \in [0 .. N -> S] : Recurs(f, N, <<>>, g)
  <2> HIDE DEF g, S
  <2>1. QED
    BY <1>1, <1>3, <1>4, Recursion
<1>6. f[0] = <<>> /\ \A n \in 1 .. N : f[n] = Put(f[n - 1], n)
  <2>1. ASSUME NEW n \in 1 .. N PROVE f[n] = Put(f[n - 1], n)
    <3> HIDE DEF Put, S, N
    <3>1. n - 1 \in 0 .. N
      BY <1>1
    <3>2. f[n - 1] \in S
      BY <3>1
    <3>3. <<f[n - 1], n>> \in S \X (1 .. N)
      BY <3>2
    <3>4. f[n] = g[<<f[n - 1], n>>]
      <4> HIDE DEF g
      <4>1. QED
        BY <1>5 DEF Recurs
    <3>5. QED
      BY <3>3, <3>4
  <2>2. QED
    BY <1>5, <2>1 DEF Recurs
<1> DEFINE D(d) == [i \in 0 .. N |-> IF i = 0 THEN <<>> ELSE Put(d[i - 1], i)]
<1>7. f = D(f)
  <2> HIDE DEF Put, S
  <2>1. ASSUME NEW n \in 0 .. N PROVE f[n] = IF n = 0 THEN <<>> ELSE Put(f[n - 1], n)
    <3>1. n # 0 => n \in 1 .. N
      BY <1>1
    <3>2. QED
      BY <1>6, <3>1
  <2>2. QED
    BY <2>1
<1>8. ASSUME NEW d, d = D(d) PROVE d = f
  <2> HIDE DEF Put, S, N
  <2>1. \A n \in 0 .. N : d[n] = IF n = 0 THEN <<>> ELSE Put(d[n - 1], n)
    BY <1>8
  <2> DEFINE B == {n \in 0 .. N : d[n] = f[n]}
  <2>2. 0 \in B
    BY <1>1, <1>6, <2>1
  <2>3. ASSUME NEW n \in 0 .. N - 1, n \in B PROVE n + 1 \in B
    <3>1. n + 1 \in 1 .. N /\ n + 1 \in 0 .. N /\ n + 1 # 0 /\ n + 1 - 1 = n
      BY <1>1
    <3>2. d[n + 1] = Put(d[n], n + 1) /\ f[n + 1] = Put(f[n], n + 1)
      BY <1>6, <2>1, <3>1
    <3>3. QED
      BY <2>3, <3>1, <3>2
  <2>4. \A n \in 0 .. N : n \in B
    <3>1. \A n \in 0 .. N - 1 : n \in B => n + 1 \in B
      BY <2>3
    <3> HIDE DEF B
    <3>2. QED
      BY <1>1, <2>2, <3>1, Climbs
  <2>5. \A n \in 0 .. N : d[n] = f[n]
    BY <2>4
  <2>6. QED
    BY <1>7, <1>8, <2>5
<1>9. (CHOOSE d : d = D(d)) = f
  <2> HIDE DEF D
  <2>1. QED
    BY <1>7, <1>8
<1>10. Render(h) = Append(f[N], Open["assistant"])
  BY <1>9 DEF Render
<1>11. f[N] \in S /\ Open["assistant"] \in Ids /\ Open["assistant"] \notin Ends
  BY <1>1, Constants DEF Roles
<1>12. QED
  <2> HIDE DEF N
  <2>1. /\ Render(h) \in S /\ Len(Render(h)) = Len(f[N]) + 1 /\ Len(f[N]) \in Nat
        /\ Render(h)[Len(f[N]) + 1] = Open["assistant"]
    BY <1>10, <1>11, AppendProperties, LenProperties
  <2>2. QED
    BY <1>11, <2>1

-----------------------------------------------------------------------------
(* The invariant holds at the start and is kept by the input loops. *)

(* What the steps outside a turn leave alone. *)
Engine == <<mode, exact, fed>>

LEMMA CarriedStays ==
    ASSUME Carried, UNCHANGED Engine PROVE Carried'
BY DEF Carried, Coherent, Engine, exact

LEMMA Starts == Init => IInv
<1> SUFFICES ASSUME Init PROVE IInv
  OBVIOUS
<1> USE DEF Init
<1>1. <<>> \in Seq(Messages) /\ <<>> \in Seq(Ids) /\ Len(<<>>) = 0 /\ Valid(<<>>)
      /\ ~Awaits(<<>>) /\ Assistants(<<>>) = 0
  BY NothingSaid, EmptySeq
<1>2. TypeOK
  BY <1>1, Constants DEF TypeOK
<1>3. Carried
  BY <1>1 DEF Carried, Coherent
<1>4. Waiting /\ Drawing /\ Absorbed /\ Stored /\ Empty
  BY DEF Waiting, Drawing, Absorbed, Stored, Empty
<1>5. Numbered
  BY <1>1 DEF Numbered, Rounds
<1>6. QED
  BY <1>2, <1>3, <1>4, <1>5 DEF IInv

LEMMA ExitKeeps ==
    ASSUME IInv, Exit PROVE IInv'
<1> USE DEF Exit
<1>1. <<>> \in Seq(Messages) /\ <<>> \in Seq(Ids) /\ Len(<<>>) = 0 /\ Valid(<<>>)
      /\ ~Awaits(<<>>) /\ Assistants(<<>>) = 0
  BY NothingSaid, EmptySeq
<1>2. TypeOK'
  BY <1>1, Constants DEF IInv, TypeOK
<1>3. Carried'
  BY <1>1 DEF Carried, Coherent
<1>4. Waiting' /\ Drawing' /\ Absorbed' /\ Stored' /\ Empty'
  BY DEF Waiting, Drawing, Absorbed, Stored, Empty
<1>5. Numbered'
  BY <1>1 DEF IInv, TypeOK, Numbered, Rounds
<1>6. QED
  BY <1>2, <1>3, <1>4, <1>5 DEF IInv

(* What the conversation may begin with. *)
LEMMA SystemIs ==
    ASSUME NEW s \in Systems
    PROVE  /\ <<system(s)>> \in Seq(Messages) /\ Valid(<<system(s)>>)
           /\ ~Awaits(<<system(s)>>) /\ Assistants(<<system(s)>>) = 0
<1>1. system(s) \in Messages /\ system(s).role = "system"
  BY Constants, MessagesAre
<1> DEFINE h == <<system(s)>>
<1>2. h \in Seq(Messages) /\ Len(h) = 1 /\ h[1] = system(s)
  BY <1>1
<1>3. h # <<>>
  BY <1>2, HistoryIs
<1>4. Opening(h) = h
  BY <1>1, <1>2, <1>3 DEF Opening
<1> HIDE DEF h
<1>5. QED
  BY <1>2, <1>4, OpeningIs DEF h

LEMMA LaunchKeeps ==
    ASSUME IInv, Launch PROVE IInv'
<1> USE DEF Launch
<1>1. /\ TypeOK /\ Carried /\ Numbered /\ Empty
      /\ tmax = 0 /\ turn = 0 /\ ks = <<>> /\ cached = 0 /\ fed = NoRecord
  BY DEF IInv, Empty
<1>2. history' \in Seq(Messages) /\ Valid(history') /\ Rounds(history') <= said
  <2>1. PICK given \in {<<>>} \cup {<<system(s)>> : s \in Systems} :
           LET had == IF mode'.path THEN Loaded ELSE <<>>
           IN  history' = IF had = <<>> THEN given ELSE had
    OBVIOUS
  <2>2. given \in Seq(Messages) /\ Valid(given) /\ Rounds(given) = 0
    <3>1. CASE given = <<>>
      BY <3>1, NothingSaid DEF Rounds
    <3>2. CASE given # <<>>
      <4>1. PICK s \in Systems : given = <<system(s)>>
        BY <3>2
      <4>2. QED
        BY <4>1, SystemIs DEF Rounds
    <3>3. QED
      BY <3>1, <3>2
  <2>3. said \in Nat /\ file \in Seq(Messages) /\ Valid(file) /\ Rounds(file) <= said
    BY <1>1, Constants DEF TypeOK, Numbered
  <2>4. history' = given \/ history' = file
    BY <2>1 DEF Loaded
  <2>5. QED
    BY <2>2, <2>3, <2>4
<1>3. TypeOK'
  BY <1>1, <1>2, Constants DEF TypeOK, exact
<1>4. Carried'
  BY <1>1 DEF Carried, Coherent, exact, NoRecord
<1>5. Waiting' /\ Drawing' /\ Absorbed' /\ Stored' /\ Empty'
  BY <1>1 DEF Waiting, Drawing, Absorbed, Stored, Empty, exact
<1>6. Numbered'
  BY <1>1, <1>2 DEF Numbered
<1>7. QED
  BY <1>3, <1>4, <1>5, <1>6 DEF IInv

LEMMA ResumesKeeps ==
    ASSUME IInv, Resumes PROVE IInv'
<1> USE DEF Resumes
<1>1. TypeOK'
  BY RenderIs DEF IInv, TypeOK, talk, exact
<1>2. Carried'
  BY CarriedStays DEF IInv, Engine
<1>3. Waiting'
  BY DEF Waiting, Renders, np, talk
<1>4. Drawing' /\ Absorbed'
  BY DEF Drawing, Absorbed
<1>5. Stored'
  BY PrefixIs DEF IInv, TypeOK, Stored, talk
<1>6. Numbered' /\ Empty'
  BY DEF IInv, Numbered, Empty, talk, exact
<1>7. QED
  BY <1>1, <1>2, <1>3, <1>4, <1>5, <1>6 DEF IInv

LEMMA SaysKeeps ==
    ASSUME IInv, NEW u \in Said, Says(u) PROVE IInv'
<1> USE DEF Says
<1>1. TypeOK /\ history \in Seq(Messages) /\ user(u) \in Messages /\ user(u).role = "user"
  BY Constants, MessagesAre DEF IInv, TypeOK
<1>2. /\ history' \in Seq(Messages) /\ Valid(history') /\ IsPrefix(history, history')
      /\ Assistants(history') = Assistants(history) /\ Assistants(history) \in Nat
      /\ Awaits(history')
  <2>1. history' \in Seq(Messages) /\ IsPrefix(history, history')
    BY <1>1, AppendProperties, PrefixGrows
  <2>2. Valid(history')
    BY <1>1, ValidSplits DEF TypeOK
  <2>3. Assistants(history') = Assistants(history) /\ Assistants(history) \in Nat
    BY <1>1, AssistantsGrow
  <2>4. Awaits(history')
    BY <1>1, AppendProperties DEF Awaits
  <2>5. QED
    BY <2>1, <2>2, <2>3, <2>4
<1>3. TypeOK'
  <2>1. prompt' \in Seq(Ids)
    BY <1>2, RenderIs
  <2>2. said' \in 0 .. MaxSaid
    BY <1>1, Constants DEF TypeOK
  <2>3. QED
    BY <1>1, <1>2, <2>1, <2>2 DEF TypeOK, exact
<1>4. Carried'
  BY CarriedStays DEF IInv, Engine
<1>5. Waiting'
  BY <1>2 DEF Waiting, Renders, np
<1>6. Drawing' /\ Absorbed'
  BY DEF Drawing, Absorbed
<1>7. Stored'
  BY <1>2 DEF IInv, Stored
<1>8. Numbered'
  <2>1. turn \in Nat /\ said \in Nat /\ said' = said + 1
    BY <1>1, Constants DEF TypeOK
  <2>2. Rounds(history) <= said /\ Rounds(file) <= said
    BY DEF IInv, Numbered
  <2>3. Rounds(history) = Assistants(history) /\ Rounds(history') = Assistants(history) + 1
    BY <1>2 DEF Rounds
  <2>4. Rounds(file) \in Nat
    BY <1>1, AssistantsIs DEF TypeOK, Rounds
  <2>5. tmax > 0 => Assistants(history) <= turn /\ turn + 0 <= said
    BY DEF IInv, Numbered
  <2>6. Rounds(history') <= said' /\ Rounds(file') <= said'
    BY <1>2, <2>1, <2>2, <2>3, <2>4
  <2>7. tmax' > 0 => Assistants(history') <= turn' /\ turn' + 1 <= said'
    BY <1>2, <2>1, <2>5
  <2>8. QED
    BY <1>2, <2>6, <2>7 DEF Numbered
<1>9. Empty'
  BY DEF IInv, Empty, exact
<1>10. QED
  BY <1>3, <1>4, <1>5, <1>6, <1>7, <1>8, <1>9 DEF IInv

LEMMA TooLongKeeps ==
    ASSUME IInv, NEW u \in Said, TooLong(u) PROVE IInv'
<1> USE DEF TooLong, Withdrawn
<1>1. TypeOK'
  BY Constants DEF IInv, TypeOK, exact
<1>2. Carried'
  BY CarriedStays DEF IInv, Engine
<1>3. Waiting' /\ Drawing' /\ Absorbed'
  BY DEF IInv, Waiting, Drawing, Absorbed
<1>4. Stored' /\ Empty'
  BY DEF IInv, Stored, Empty, exact
<1>5. Numbered'
  <2>1. turn \in Nat /\ said \in Nat /\ said' = said + 1
    BY Constants DEF IInv, TypeOK
  <2>2. Rounds(history) \in Nat /\ Rounds(file) \in Nat
    BY AssistantsIs DEF IInv, TypeOK, Rounds
  <2>3. QED
    BY <2>1, <2>2 DEF IInv, Numbered
<1>6. QED
  BY <1>1, <1>2, <1>3, <1>4, <1>5 DEF IInv

LEMMA ResetsKeeps ==
    ASSUME IInv, Resets PROVE IInv'
<1> USE DEF Resets
<1>1. history' \in Seq(Messages) /\ Valid(history') /\ ~Awaits(history') /\ Assistants(history') = 0
  BY OpeningIs DEF IInv, TypeOK
<1>2. TypeOK'
  BY <1>1 DEF IInv, TypeOK, exact
<1>3. Carried'
  BY CarriedStays DEF IInv, Engine
<1>4. Waiting' /\ Drawing' /\ Absorbed'
  BY <1>1 DEF Waiting, Drawing, Absorbed
<1>5. Stored' /\ Empty'
  BY DEF IInv, Stored, Empty, exact
<1>6. Numbered'
  <2>1. turn \in Nat /\ said \in Nat
    BY Constants DEF IInv, TypeOK
  <2>2. QED
    BY <1>1, <2>1 DEF IInv, Numbered, Rounds
<1>7. QED
  BY <1>1, <1>2, <1>3, <1>4, <1>5, <1>6 DEF IInv

LEMMA SavesKeeps ==
    ASSUME IInv, Saves PROVE IInv'
<1> USE DEF Saves
<1>1. TypeOK'
  BY DEF IInv, TypeOK, exact
<1>2. Carried'
  BY CarriedStays DEF IInv, Engine
<1>3. Waiting'
  BY DEF IInv, Waiting, np
<1>4. Drawing' /\ Absorbed'
  BY DEF Drawing, Absorbed
<1>5. Stored' /\ Empty' /\ Numbered'
  BY DEF IInv, Stored, Empty, Numbered, exact
<1>6. QED
  BY <1>1, <1>2, <1>3, <1>4, <1>5 DEF IInv

-----------------------------------------------------------------------------
(* The lengths of a turn. *)

LEMMA Lengths ==
    ASSUME TypeOK
    PROVE  /\ np \in Nat /\ T \in Nat /\ gen \in Nat /\ gen > 0 /\ gen <= MAX_GEN
           /\ need = np + gen + 1 /\ need \in Nat
           /\ Len(ks) \in Nat /\ tmax \in Nat /\ turn \in Nat
BY ModeIs, LenProperties, Constants DEF TypeOK, np, T, need

LEMMA SetsUpKeeps ==
    ASSUME IInv, SetsUp PROVE IInv'
<1> USE DEF SetsUp
<1>1. TypeOK /\ Waiting /\ Empty /\ Numbered /\ Carried /\ Awaits(history) /\ Assistants(history) \in Nat
      /\ need \in Nat /\ need > 0
  <2>1. Awaits(history)
    BY DEF IInv, Waiting
  <2>2. need \in Nat /\ need > 0
    BY Lengths DEF IInv
  <2>3. Assistants(history) \in Nat
    BY AssistantsIs DEF IInv, TypeOK
  <2>4. QED
    BY <2>1, <2>2, <2>3 DEF IInv
<1>2. fed' \in {<<>>, NoRecord} /\ cached = 0 /\ (~mode.incremental => fed' = NoRecord)
  BY <1>1 DEF Empty
<1>3. TypeOK'
  <2>1. <<>> \in Seq(Ids)
    BY EmptySeq
  <2>2. tmax' \in 0 .. MAX_PROMPT + MAX_GEN
    BY <1>1, Constants
  <2>3. fed' \in Seq(Ids) \cup {NoRecord}
    BY <1>2, <2>1
  <2>4. turn' \in Nat
    BY <1>1
  <2>5. cached' <= tmax'
    BY <1>1, <1>2 DEF exact
  <2>6. QED
    BY <1>1, <2>2, <2>3, <2>4, <2>5 DEF TypeOK, talk, exact
<1>4. Carried'
  BY <1>1, <1>2 DEF Carried, Coherent, exact
<1>5. Waiting'
  BY <1>1 DEF Waiting, talk, np
<1>6. Drawing' /\ Absorbed' /\ Stored'
  BY DEF IInv, Drawing, Absorbed, Stored, talk
<1>7. Numbered'
  <2>1. Rounds(history) = Assistants(history) + 1 /\ Rounds(history) <= said /\ Rounds(file) <= said
    BY <1>1 DEF Numbered, Rounds
  <2>2. QED
    BY <1>1, <2>1 DEF Numbered, Rounds, talk
<1>8. Empty'
  BY <1>1, Constants DEF Empty
<1>9. QED
  BY <1>3, <1>4, <1>5, <1>6, <1>7, <1>8 DEF IInv

-----------------------------------------------------------------------------
(* A turn begins: what was carried is reused whole, or cleared. *)

LEMMA SmallerOf ==
    ASSUME NEW m \in Nat, NEW n \in Nat
    PROVE  /\ Min({m, n}) \in {m, n} /\ Min({m, n}) <= m /\ Min({m, n}) <= n
           /\ Max({m, n}) \in {m, n} /\ Max({m, n}) >= m /\ Max({m, n}) >= n
<1> DEFINE S == {m, n}
<1>1. IsFiniteSet(S)
  <2>1. IsFiniteSet({}) /\ S = ({} \cup {m}) \cup {n}
    BY FS_EmptySet
  <2>2. IsFiniteSet({} \cup {m})
    BY <2>1, FS_AddElement
  <2>3. IsFiniteSet(({} \cup {m}) \cup {n})
    BY <2>2, FS_AddElement
  <2>4. QED
    BY <2>1, <2>3
<1>2. (\A x \in S : x \in Int) /\ S # {} /\ m \in S /\ n \in S
  OBVIOUS
<1> HIDE DEF S
<1>3. /\ Max(S) \in S /\ \A y \in S : Max(S) >= y
      /\ Min(S) \in S /\ \A y \in S : Min(S) <= y
  BY <1>1, <1>2, MaxExists, MinExists
<1>4. QED
  BY <1>2, <1>3 DEF S

LEMMA KeptIs ==
    ASSUME TypeOK, Carried
    PROVE  IF fed \in {NoRecord, <<>>} THEN Kept = <<>> ELSE Kept = ks
<1>1. cached \in Nat /\ Len(<<>>) = 0 /\ <<>> \in Seq(Ids) /\ Len(ks) = cached
  BY EmptySeq, LenProperties DEF TypeOK, Carried, Coherent
<1>2. CASE fed = NoRecord
  BY <1>2 DEF Kept
<1>3. CASE fed = <<>> /\ fed # NoRecord
  <2>1. Kept = SubSeq(<<>>, 1, Min({cached, 0})) /\ Min({cached, 0}) \in {cached, 0} /\ Min({cached, 0}) <= 0
    BY <1>1, <1>3, SmallerOf DEF Kept
  <2>2. Min({cached, 0}) \in Int /\ Min({cached, 0}) < 1
    BY <1>1, <2>1
  <2>3. SubSeq(<<>>, 1, Min({cached, 0})) = <<>>
    BY <2>2, SubSeqEmpty
  <2>4. QED
    BY <1>3, <2>1, <2>3
<1>4. CASE fed \notin {NoRecord, <<>>}
  <2>1. fed = ks /\ fed \in Seq(Ids) /\ Len(fed) = cached
    BY <1>1, <1>4 DEF Carried, TypeOK
  <2>2. Min({cached, Len(fed)}) = Len(fed)
    BY <1>1, <2>1, SmallerOf
  <2>3. Kept = fed
    BY <1>4, <2>1, <2>2, SubSeqFull DEF Kept
  <2>4. QED
    BY <1>4, <2>1, <2>3
<1>5. QED
  BY <1>2, <1>3, <1>4

(* Taken up where it was left. *)
TakenUp ==
    /\ mode.incremental /\ fed' = ks /\ UNCHANGED <<exact, cleared>>
    /\ 0 < cached /\ cached < np /\ SubSeq(prompt, 1, cached) = ks
(* Cleared. *)
StartedOver ==
    /\ fed' \in {NoRecord, <<>>} /\ (~mode.incremental => fed' = NoRecord)
    /\ ks' = <<>> /\ kvc' = <<>> /\ cached' = 0 /\ cleared' = NL

LEMMA RegrownIs ==
    ASSUME TypeOK, Carried, NEW record \in Regrown
    PROVE  /\ record \in {NoRecord, <<>>, ks}
           /\ ~mode.incremental => record = NoRecord
<1>1. Kept \in {<<>>, ks} /\ fed \in {NoRecord, <<>>, ks}
  BY KeptIs DEF Carried
<1>2. record \in {Kept, NoRecord, fed} /\ (~mode.incremental => record = fed)
  BY DEF Regrown
<1>3. QED
  BY <1>1, <1>2 DEF Carried

LEMMA BeginsEither ==
    ASSUME TypeOK, Carried, Begins PROVE TakenUp \/ StartedOver
<1>1. PICK record \in Regrown :
         IF mode.incremental /\ Reusable(record) /\ Len(record) = cached
         THEN fed' = record /\ UNCHANGED <<exact, cleared>>
         ELSE /\ fed' = IF record = NoRecord THEN NoRecord ELSE <<>>
              /\ ks' = <<>> /\ kvc' = <<>> /\ cached' = 0
              /\ cleared' = NL
  BY DEF Begins
<1>2. record \in {NoRecord, <<>>, ks} /\ (~mode.incremental => record = NoRecord)
  BY RegrownIs
<1>3. CASE mode.incremental /\ Reusable(record) /\ Len(record) = cached
  <2>1. record # NoRecord /\ 0 < Len(record) /\ Len(record) < np /\ SubSeq(prompt, 1, Len(record)) = record
    BY <1>3 DEF Reusable
  <2>2. Len(<<>>) = 0
    BY EmptySeq
  <2>3. record = ks
    BY <1>2, <2>1, <2>2
  <2>4. TakenUp
    BY <1>1, <1>3, <2>1, <2>3 DEF TakenUp
  <2>5. QED
    BY <2>4
<1>4. CASE ~(mode.incremental /\ Reusable(record) /\ Len(record) = cached)
  BY <1>1, <1>2, <1>4 DEF StartedOver
<1>5. QED
  BY <1>3, <1>4

LEMMA BeginsKeeps ==
    ASSUME IInv, Begins PROVE IInv'
<1>1. /\ TypeOK /\ Carried /\ Empty /\ Waiting /\ Numbered /\ pc = "turn" /\ pc' = "feed" /\ tmax > 0
      /\ need <= MAX_PROMPT + MAX_GEN /\ tmax' = Max({need, tmax}) /\ seq' = prompt
      /\ UNCHANGED <<mode, talk, prompt, turn, launches, said>>
  BY DEF IInv, Begins
<1>2. /\ np \in Nat /\ gen \in Nat /\ gen > 0 /\ need = np + gen + 1 /\ need \in Nat
      /\ tmax \in Nat /\ Len(ks) \in Nat
  BY <1>1, Lengths
<1>3. tmax' \in {need, tmax} /\ tmax' >= need /\ tmax' >= tmax
  BY <1>1, <1>2, SmallerOf
<1>4. prompt \in Seq(Ids) /\ np > 0
  <2>1. history \in Seq(Messages) /\ prompt = Render(history)
    BY <1>1 DEF TypeOK, Waiting
  <2>2. QED
    BY <2>1, RenderIs DEF np
<1>5. TakenUp \/ StartedOver
  BY <1>1, BeginsEither DEF IInv
<1>6. TypeOK'
  <2>1. tmax' \in 0 .. MAX_PROMPT + MAX_GEN
    BY <1>1, <1>2, <1>3 DEF TypeOK
  <2>2. CASE TakenUp
    <3>1. fed' \in Seq(Ids)
      BY <1>1, <2>2 DEF TypeOK, TakenUp
    <3>2. cached' <= tmax'
      BY <1>1, <1>2, <1>3, <2>2 DEF TypeOK, TakenUp, exact, Carried, Coherent
    <3>3. QED
      BY <1>1, <1>4, <2>1, <2>2, <3>1, <3>2 DEF TypeOK, TakenUp, talk, exact
  <2>3. CASE StartedOver
    <3>1. <<>> \in Seq(Ids) /\ Len(<<>>) = 0 /\ NL \in 0 .. NL
      BY EmptySeq, Constants
    <3>2. cached' <= tmax'
      BY <1>2, <1>3, <2>3 DEF StartedOver
    <3>3. QED
      BY <1>1, <1>4, <2>1, <2>3, <3>1, <3>2 DEF TypeOK, StartedOver, talk
  <2>4. QED
    BY <1>5, <2>2, <2>3
<1>7. Carried'
  <2>1. CASE TakenUp
    BY <1>1, <2>1 DEF Carried, Coherent, TakenUp, exact
  <2>2. CASE StartedOver
    <3>1. Len(<<>>) = 0
      BY EmptySeq
    <3>2. QED
      BY <1>1, <2>2, <3>1 DEF Carried, Coherent, StartedOver
  <2>3. QED
    BY <1>5, <2>1, <2>2
<1>8. Waiting'
  BY <1>1 DEF Waiting, talk, np
<1>9. T' = np /\ np' = np /\ gen' = gen /\ need' = need
  BY <1>1 DEF T, np, gen, need
<1>10. Drawing'
  <2>1. SubSeq(seq', 1, np') = prompt'
    BY <1>1, <1>4, <1>9, SubSeqFull DEF np
  <2>2. np' <= T' /\ T' <= np' + gen' /\ need' <= tmax' /\ T' < np' + gen' /\ ~(T' > np')
    BY <1>2, <1>3, <1>9
  <2>3. \A i \in np' + 1 .. T' : FALSE
    BY <1>2, <1>9
  <2>4. \A i \in np' + 1 .. T' - 1 : FALSE
    BY <1>2, <1>9
  <2> HIDE DEF T, np, need
  <2>5. QED
    BY <1>1, <2>1, <2>2, <2>3, <2>4 DEF Drawing
<1>11. Absorbed'
  <2>1. ~(T' > np') /\ T' = np
    BY <1>2, <1>9
  <2>2. cached' < T' /\ SubSeq(seq', 1, cached') = ks'
    <3>1. CASE TakenUp
      BY <1>1, <1>9, <3>1 DEF TakenUp, exact
    <3>2. CASE StartedOver
      BY <1>1, <1>4, <1>9, <3>2, SubSeqEmpty DEF StartedOver
    <3>3. QED
      BY <1>5, <3>1, <3>2
  <2>3. QED
    BY <2>1, <2>2 DEF Absorbed
<1>12. Stored' /\ Numbered' /\ Empty'
  <2>1. Stored'
    BY <1>1 DEF IInv, Stored, talk
  <2>2. Numbered'
    BY <1>1, <1>2, <1>3 DEF Numbered, talk
  <2>3. Empty'
    BY <1>1, <1>2, <1>3 DEF Empty
  <2>4. QED
    BY <2>1, <2>2, <2>3
<1>13. QED
  BY <1>6, <1>7, <1>8, <1>10, <1>11, <1>12 DEF IInv

-----------------------------------------------------------------------------
(* The steps of a turn. *)

(* The rows of the first c ids of s, with those of what follows behind.     *)
GrownRows(grown, rows, s, c) ==
    /\ \A i \in 1 .. c : rows[i] = SubSeq(SubSeq(s, 1, c), 1, i)
    /\ grown \in [1 .. Len(s) -> {grown[i] : i \in 1 .. Len(s)}]
    /\ \A i \in 1 .. Len(s) :
          grown[i] = IF i <= c THEN rows[i]
                     ELSE SubSeq(s, 1, c) \o SubSeq(SubSeq(s, c + 1, Len(s)), 1, i - c)
AllRows(grown, s) == Len(grown) = Len(s) /\ \A i \in 1 .. Len(s) : grown[i] = SubSeq(s, 1, i)

LEMMA RowsGrow ==
    ASSUME NEW S, NEW s \in Seq(S), NEW c \in 0 .. Len(s) - 1, NEW rows, NEW grown,
           GrownRows(grown, rows, s, c)
    PROVE  AllRows(grown, s)
<1>1. Len(s) \in Nat /\ c \in Nat /\ c < Len(s) /\ \A i \in 1 .. Len(s) : s[i] \in S
  BY LenProperties, ElementOfSeq
<1>2. ASSUME NEW i \in 1 .. Len(s) PROVE grown[i] = SubSeq(s, 1, i)
  <2>1. CASE i <= c
    <3>1. SubSeq(SubSeq(s, 1, c), 1, i) = SubSeq(s, 1, i)
      BY <1>1, <2>1, FirstsOfFirsts
    <3>2. i \in 1 .. c
      BY <1>1, <2>1
    <3>3. QED
      BY <2>1, <3>1, <3>2 DEF GrownRows
  <2>2. CASE i > c
    <3>1. grown[i] = SubSeq(s, 1, c) \o SubSeq(SubSeq(s, c + 1, Len(s)), 1, i - c)
      <4>1. ~(i <= c)
        BY <1>1, <2>2
      <4>2. QED
        BY <4>1 DEF GrownRows
    <3>2. SubSeq(SubSeq(s, c + 1, Len(s)), 1, i - c) = SubSeq(s, c + 1, i)
      <4>1. /\ c + 1 \in 1 .. Len(s) /\ Len(s) \in 1 .. Len(s)
            /\ 1 \in 1 .. Len(s) - (c + 1) + 1 /\ i - c \in 1 .. Len(s) - (c + 1) + 1
            /\ c + 1 + 1 - 1 = c + 1 /\ c + 1 + (i - c) - 1 = i
        BY <1>1, <2>2
      <4>2. SubSeq(SubSeq(s, c + 1, Len(s)), 1, i - c) = SubSeq(s, c + 1 + 1 - 1, c + 1 + (i - c) - 1)
        BY ONLY <4>1, s \in Seq(S), SubSeqOfSubSeq
      <4>3. QED
        BY <4>1, <4>2
    <3>3. SubSeq(s, 1, c) \o SubSeq(s, c + 1, i) = SubSeq(s, 1, i)
      <4>1. 1 \in 1 .. Len(s) + 1 /\ c \in 1 - 1 .. Len(s) /\ i \in c .. Len(s)
        BY <1>1, <2>2
      <4>2. QED
        BY <4>1, ConcatAdjacentSubSeq
    <3>4. QED
      BY <3>1, <3>2, <3>3
  <2>3. QED
    BY <1>1, <2>1, <2>2
<1>3. Len(grown) = Len(s)
  BY <1>1, FunIsSeq DEF GrownRows
<1>4. QED
  BY <1>2, <1>3 DEF AllRows

(* An incremental turn feeds exactly what the state lacks of the sequence.  *)
LEMMA FedIs ==
    ASSUME TypeOK, Carried, Drawing, Absorbed, pc = "feed", mode.incremental
    PROVE  /\ from = cached /\ cached \in 0 .. T - 1 /\ T \in Nat
           /\ Fed = SubSeq(seq, cached + 1, T) /\ Fed \in Seq(Ids) /\ cached + Len(Fed) = T
           /\ ks = SubSeq(seq, 1, cached) /\ ks \o Fed = seq
<1>1. /\ np \in Nat /\ T \in Nat /\ Len(ks) \in Nat /\ cached = Len(ks)
      /\ seq \in Seq(Ids) /\ T = Len(seq)
  BY Lengths DEF Carried, Coherent, TypeOK, T
<1>2. np <= T /\ cached < T /\ SubSeq(seq, 1, cached) = ks /\ (T > np => cached = T - 1)
  BY DEF Drawing, Absorbed
<1>3. from = cached
  <2> HIDE DEF T, np
  <2>1. QED
    BY <1>1, <1>2 DEF from
<1>4. Fed = SubSeq(seq, cached + 1, T)
  BY <1>3 DEF Fed
<1>5. Fed \in Seq(Ids) /\ Len(Fed) = T - cached
  <2>1. \A i \in cached + 1 .. T : seq[i] \in Ids
    BY <1>1, ElementOfSeq
  <2>2. cached + 1 \in Int /\ T \in Int /\ cached + 1 <= T /\ T - (cached + 1) + 1 = T - cached
    <3> HIDE DEF T
    <3>1. QED
      BY <1>1, <1>2
  <2>3. QED
    BY <1>4, <2>1, <2>2, SubSeqProperties
<1>6. ks \o Fed = seq
  <2>1. 1 \in 1 .. Len(seq) + 1 /\ cached \in 1 - 1 .. Len(seq) /\ Len(seq) \in cached .. Len(seq)
    BY <1>1, <1>2
  <2>2. SubSeq(seq, 1, cached) \o SubSeq(seq, cached + 1, Len(seq)) = SubSeq(seq, 1, Len(seq))
    BY <1>1, <2>1, ConcatAdjacentSubSeq
  <2>3. QED
    BY <1>1, <1>2, <1>4, <2>2, SubSeqFull
<1>7. QED
  <2> HIDE DEF T
  <2>1. QED
    BY <1>1, <1>2, <1>3, <1>4, <1>5, <1>6

(* What one feed leaves: the state and the rows of the whole sequence, and  *)
(* a record that names them or none.                                        *)
Swallowed ==
    /\ ks' = seq /\ cached' = T /\ Len(kvc') = T
    /\ \A i \in 1 .. T : kvc'[i] = SubSeq(seq, 1, i)
    /\ fed' \in {NoRecord, <<>>, seq}

LEMMA FeedSwallows ==
    ASSUME TypeOK, Carried, Drawing, Absorbed, Feeds, mode.incremental
    PROVE  Swallowed
<1>1. /\ pc = "feed"
      /\ ks' = ks \o Fed /\ cached' = cached + Len(Fed) /\ fed' = Recorded
      /\ kvc' = [i \in 1 .. cached + Len(Fed) |->
                    IF i <= cached THEN kvc[i] ELSE ks \o SubSeq(Fed, 1, i - cached)]
  BY DEF Feeds
<1>2. /\ from = cached /\ cached \in 0 .. T - 1 /\ T \in Nat
      /\ Fed = SubSeq(seq, cached + 1, T) /\ Fed \in Seq(Ids) /\ cached + Len(Fed) = T
      /\ ks = SubSeq(seq, 1, cached) /\ ks \o Fed = seq
  BY <1>1, FedIs
<1>3. Len(kvc') = T /\ \A i \in 1 .. T : kvc'[i] = SubSeq(seq, 1, i)
  <2>1. seq \in Seq(Ids) /\ T = Len(seq)
    BY DEF TypeOK, T
  <2>2. \A i \in 1 .. cached : kvc[i] = SubSeq(SubSeq(seq, 1, cached), 1, i)
    BY <1>2 DEF Carried, Coherent
  <2>3. /\ kvc' \in [1 .. Len(seq) -> {kvc'[i] : i \in 1 .. Len(seq)}]
        /\ \A i \in 1 .. Len(seq) :
              kvc'[i] = IF i <= cached THEN kvc[i]
                        ELSE SubSeq(seq, 1, cached) \o SubSeq(SubSeq(seq, cached + 1, Len(seq)), 1, i - cached)
    BY <1>1, <1>2, <2>1
  <2>4. cached \in 0 .. Len(seq) - 1
    BY <1>2, <2>1
  <2>5. GrownRows(kvc', kvc, seq, cached)
    BY <2>2, <2>3 DEF GrownRows
  <2>6. AllRows(kvc', seq)
    BY <2>1, <2>4, <2>5, RowsGrow
  <2>7. QED
    BY <2>1, <2>6 DEF AllRows
<1>4. fed' \in {NoRecord, <<>>, seq}
  <2>1. CASE fed = NoRecord \/ T > tmax \/ from > Len(fed)
    BY <1>1, <2>1 DEF Recorded
  <2>2. CASE ~(fed = NoRecord \/ T > tmax \/ from > Len(fed))
    <3>1. fed' = SubSeq(fed, 1, cached) \o Fed /\ ~(cached > Len(fed)) /\ fed # NoRecord
      BY <1>1, <1>2, <2>2 DEF Recorded
    <3>2. ks \in Seq(Ids) /\ Len(ks) = cached
      BY DEF TypeOK, Carried, Coherent
    <3>3. SubSeq(fed, 1, cached) = ks
      <4>1. CASE fed = <<>>
        <5>1. cached = 0 /\ Len(ks) = 0
          BY <1>2, <3>1, <3>2, <4>1, EmptySeq
        <5>2. ks = <<>> /\ SubSeq(fed, 1, 0) = <<>>
          BY <3>2, <5>1, EmptySeq, SubSeqEmpty
        <5>3. QED
          BY <5>1, <5>2
      <4>2. CASE fed # <<>>
        <5>1. fed = ks
          BY <3>1, <4>2 DEF Carried
        <5>2. QED
          BY <3>2, <5>1, SubSeqFull
      <4>3. QED
        BY <4>1, <4>2
    <3>4. QED
      BY <1>2, <3>1, <3>3
  <2>3. QED
    BY <2>1, <2>2
<1>5. QED
  BY <1>1, <1>2, <1>3, <1>4 DEF Swallowed

LEMMA FeedDraws ==
    ASSUME TypeOK, Carried, Drawing, Absorbed, Feeds
    PROVE  \E id \in Ids : /\ id = Answer(seq, turn + 1)
                           /\ seq' = Append(seq, id)
                           /\ pc' = IF id \in Ends \/ T + 1 = np + gen THEN "drawn" ELSE "feed"
<1>1. PICK id \in Ids : /\ Draws(id)
                       /\ seq' = Append(seq, id)
                       /\ pc' = IF id \in Ends \/ T + 1 = np + gen THEN "drawn" ELSE "feed"
  BY DEF Feeds
<1>2. id = Answer(seq, turn + 1)
  <2>1. CASE mode.incremental
    <3>1. pc = "feed"
      BY DEF Feeds
    <3>2. ks \o Fed = seq /\ Coherent
      BY <2>1, <3>1, FedIs DEF Carried
    <3>3. QED
      BY <1>1, <2>1, <3>2 DEF Draws
  <2>2. CASE ~mode.incremental
    BY <1>1, <2>2 DEF Draws
  <2>3. QED
    BY <2>1, <2>2
<1>3. QED
  BY <1>1, <1>2

LEMMA FeedsKeeps ==
    ASSUME IInv, Feeds PROVE IInv'
<1>1. /\ TypeOK /\ Carried /\ Waiting /\ Drawing /\ Absorbed /\ Stored /\ Numbered /\ Empty
      /\ pc = "feed" /\ UNCHANGED <<mode, talk, prompt, tmax, turn, cleared, launches, said>>
  BY DEF IInv, Feeds
<1>2. PICK id \in Ids : /\ id = Answer(seq, turn + 1)
                       /\ seq' = Append(seq, id)
                       /\ pc' = IF id \in Ends \/ T + 1 = np + gen THEN "drawn" ELSE "feed"
  BY <1>1, FeedDraws
<1>3. /\ np \in Nat /\ T \in Nat /\ gen \in Nat /\ need = np + gen + 1 /\ tmax \in Nat
      /\ seq \in Seq(Ids) /\ T = Len(seq)
  BY <1>1, Lengths DEF TypeOK, T
<1>4. /\ np <= T /\ T < np + gen /\ need <= tmax /\ SubSeq(seq, 1, np) = prompt
      /\ \A i \in np + 1 .. T : seq[i] = Answer(SubSeq(seq, 1, i - 1), turn + 1)
      /\ \A i \in np + 1 .. T - 1 : seq[i] \notin Ends
      /\ (T > np => seq[T] \notin Ends)
  BY <1>1 DEF Drawing
<1>5. /\ seq' \in Seq(Ids) /\ Len(seq') = T + 1 /\ seq'[T + 1] = id
      /\ \A i \in 1 .. T : seq'[i] = seq[i]
      /\ \A n \in 0 .. T : SubSeq(seq', 1, n) = SubSeq(seq, 1, n)
  <2>1. /\ seq' \in Seq(Ids) /\ Len(seq') = T + 1 /\ seq'[T + 1] = id
        /\ \A i \in 1 .. T : seq'[i] = seq[i]
    BY <1>2, <1>3, AppendProperties
  <2>2. ASSUME NEW n \in 0 .. T PROVE SubSeq(seq', 1, n) = SubSeq(seq, 1, n)
    <3>1. n \in 0 .. Len(seq') /\ n <= Len(seq) /\ \A i \in 1 .. n : seq'[i] = seq[i]
      <4> HIDE DEF T
      <4>1. QED
        BY <1>3, <2>1
    <3>2. QED
      BY <1>3, <2>1, <3>1, FirstsAgree
  <2>3. QED
    BY <2>1, <2>2
<1>6. T' = T + 1 /\ np' = np /\ gen' = gen /\ need' = need /\ SubSeq(seq, 1, T) = seq
  BY <1>1, <1>3, <1>5, SubSeqFull DEF T, np, gen, need
<1>7. mode.incremental => Swallowed
  BY <1>1, FeedSwallows DEF IInv
<1>8. ~mode.incremental => UNCHANGED <<exact, fed>>
  BY DEF Feeds
<1>9. TypeOK'
  <2>1. pc' \in {"feed", "drawn"}
    BY <1>2
  <2>2. CASE mode.incremental
    <3>1. ks' \in Seq(Ids) /\ cached' = Len(kvc') /\ fed' \in Seq(Ids) \cup {NoRecord}
      BY <1>3, <1>7, <2>2, EmptySeq DEF Swallowed
    <3>2. cached' <= tmax'
      <4>1. cached' = T /\ T <= tmax
        <5> HIDE DEF T, np, need
        <5>1. QED
          BY <1>3, <1>4, <1>7, <2>2 DEF Swallowed
      <4>2. QED
        BY <1>1, <4>1
    <3>3. QED
      BY <1>1, <1>5, <2>1, <3>1, <3>2 DEF TypeOK, talk
  <2>3. CASE ~mode.incremental
    BY <1>1, <1>5, <1>8, <2>1, <2>3 DEF TypeOK, talk, exact
  <2>4. QED
    BY <2>2, <2>3
<1>10. Carried'
  <2>1. CASE mode.incremental
    <3>1. Coherent' /\ cached' = Len(kvc')
      BY <1>3, <1>7, <2>1 DEF Swallowed, Coherent
    <3>2. fed' \in {NoRecord, <<>>, ks'} /\ mode'.incremental
      BY <1>1, <1>7, <2>1 DEF Swallowed
    <3>3. QED
      BY <3>1, <3>2 DEF Carried
  <2>2. CASE ~mode.incremental
    BY <1>1, <1>8, <2>2 DEF Carried, Coherent, exact
  <2>3. QED
    BY <2>1, <2>2
<1>11. Waiting'
  <2>1. Awaits(history) /\ prompt = Render(history) /\ np <= MAX_PROMPT
    BY <1>1 DEF Waiting
  <2>2. QED
    BY <1>1, <1>6, <2>1 DEF Waiting, talk
<1>12. Drawing'
  <2>1. np' <= T' /\ T' <= np' + gen' /\ need' <= tmax'
    <3> HIDE DEF T, np, need
    <3>1. QED
      BY <1>1, <1>3, <1>4, <1>6
  <2>2. SubSeq(seq', 1, np') = prompt'
    BY <1>1, <1>3, <1>4, <1>5, <1>6
  <2>3. ASSUME NEW i \in np + 1 .. T + 1
        PROVE  seq'[i] = Answer(SubSeq(seq', 1, i - 1), turn + 1)
    <3>1. i - 1 \in 0 .. T /\ SubSeq(seq', 1, i - 1) = SubSeq(seq, 1, i - 1)
      <4>1. i - 1 \in 0 .. T
        <5> HIDE DEF T, np
        <5>1. QED
          BY <1>3
      <4>2. QED
        BY <1>5, <4>1
    <3>2. CASE i = T + 1
      <4>1. i - 1 = T
        <5> HIDE DEF T
        <5>1. QED
          BY <1>3, <3>2
      <4>2. QED
        BY <1>2, <1>5, <1>6, <3>1, <3>2, <4>1
    <3>3. CASE i # T + 1
      <4>1. i \in np + 1 .. T /\ i \in 1 .. T
        <5> HIDE DEF T, np
        <5>1. QED
          BY <1>3, <3>3
      <4>2. QED
        BY <1>4, <1>5, <3>1, <4>1
    <3>4. QED
      BY <3>2, <3>3
  <2>4. ASSUME NEW i \in np + 1 .. T PROVE seq'[i] \notin Ends
    <3>1. i \in 1 .. T /\ (i \in np + 1 .. T - 1 \/ (i = T /\ T > np))
      <4> HIDE DEF T, np
      <4>1. QED
        BY <1>3
    <3>2. QED
      BY <1>4, <1>5, <3>1
  <2>5. pc' = "feed" => T' < np' + gen' /\ seq'[T'] \notin Ends
    <3>1. pc' = "feed" => id \notin Ends /\ T + 1 # np + gen
      BY <1>2
    <3> HIDE DEF T, np
    <3>2. QED
      BY <1>3, <1>4, <1>5, <1>6, <3>1
  <2>6. T' > np' /\ T' - 1 = T
    <3> HIDE DEF T, np
    <3>1. QED
      BY <1>3, <1>4, <1>6
  <2>7. turn' = turn
    BY <1>1
  <2>8. \A i \in np' + 1 .. T' : seq'[i] = Answer(SubSeq(seq', 1, i - 1), turn' + 1)
    BY <1>6, <2>3, <2>7
  <2>9. \A i \in np' + 1 .. T' - 1 : seq'[i] \notin Ends
    BY <1>6, <2>4, <2>6
  <2> HIDE DEF T, np, need
  <2>10. QED
    BY <2>1, <2>2, <2>5, <2>6, <2>8, <2>9 DEF Drawing
<1>13. Absorbed'
  <2>1. CASE mode.incremental
    <3>1. cached' = T /\ ks' = seq
      BY <1>7, <2>1 DEF Swallowed
    <3>2. cached' < T' /\ cached' = T' - 1 /\ SubSeq(seq', 1, cached') = ks'
      <4>1. SubSeq(seq', 1, T) = seq
        BY <1>3, <1>5, <1>6
      <4>2. QED
        BY <1>3, <1>6, <3>1, <4>1
    <3>3. QED
      BY <3>2 DEF Absorbed
  <2>2. CASE ~mode.incremental
    BY <1>1, <2>2 DEF Absorbed
  <2>3. QED
    BY <2>1, <2>2
<1>14. Stored' /\ Numbered' /\ Empty'
  <2>1. tmax # 0
    BY <1>1 DEF Empty
  <2>2. QED
    BY <1>1, <1>2, <2>1 DEF Stored, Numbered, Empty, talk
<1>15. QED
  BY <1>9, <1>10, <1>11, <1>12, <1>13, <1>14 DEF IInv

(* The text of an answer.                                                   *)
LEMMA RawIs ==
    ASSUME IInv, pc = "drawn", raw \in Seq(Tok)
    PROVE  assistant(Reencode(raw)) \in Messages
<1>1. /\ np \in Nat /\ T \in Nat /\ gen \in Nat /\ gen <= MAX_GEN /\ seq \in Seq(Ids) /\ T = Len(seq)
      /\ np < T /\ T <= np + gen
  BY Lengths DEF IInv, Drawing, TypeOK, T
<1>2. Len(raw) = T - 1 - np
  <2>1. \A i \in np + 1 .. T - 1 : seq[i] \in Ids
    BY <1>1, ElementOfSeq
  <2>2. np + 1 \in Int /\ T - 1 \in Int
    BY <1>1
  <2>3. Len(SubSeq(seq, np + 1, T - 1)) = IF np + 1 <= T - 1 THEN T - 1 - (np + 1) + 1 ELSE 0
    BY <2>1, <2>2, SubSeqProperties
  <2>4. raw = SubSeq(seq, np + 1, T - 1)
    BY DEF raw
  <2> HIDE DEF raw, T, np
  <2>5. QED
    BY <1>1, <2>3, <2>4
<1>3. Len(raw) <= MAX_GEN
  <2> HIDE DEF raw, T, np
  <2>1. QED
    BY <1>1, <1>2, Constants
<1>4. Reencode(raw) \in Seq(Tok)
  BY <1>3, Reencoded
<1>5. QED
  BY <1>4, MessagesAre

LEMMA AnswersKeeps ==
    ASSUME IInv, Answers PROVE IInv'
<1> DEFINE m == assistant(Reencode(raw))
<1>1. /\ TypeOK /\ Carried /\ Waiting /\ Stored /\ Numbered /\ Empty
      /\ pc = "drawn" /\ pc' = "save" /\ history' = Append(history, m) /\ turn' = turn + 1
      /\ m \in Messages /\ m.role = "assistant"
      /\ UNCHANGED <<mode, file, prompt, seq, tmax, exact, fed, cleared, launches, said>>
  <2>1. pc = "drawn" /\ raw \in Seq(Tok)
    BY DEF Answers
  <2>2. m \in Messages
    BY <2>1, RawIs
  <2>3. m.role = "assistant"
    BY DEF assistant
  <2>4. QED
    BY <2>1, <2>2, <2>3 DEF Answers, IInv
<1> HIDE DEF m
<1>2. history \in Seq(Messages) /\ Valid(history) /\ Awaits(history)
  BY <1>1 DEF TypeOK, Waiting
<1>3. /\ history' \in Seq(Messages) /\ Valid(history') /\ IsPrefix(history, history')
      /\ Assistants(history') = Assistants(history) + 1 /\ Assistants(history) \in Nat
      /\ ~Awaits(history')
  <2>1. history' \in Seq(Messages) /\ IsPrefix(history, history')
    BY <1>1, <1>2, AppendProperties, PrefixGrows
  <2>2. Valid(history')
    BY <1>1, <1>2, ValidSplits
  <2>3. Assistants(history') = Assistants(history) + 1 /\ Assistants(history) \in Nat
    BY <1>1, <1>2, AssistantsGrow
  <2>4. ~Awaits(history')
    BY <1>1, <1>2, AppendProperties DEF Awaits
  <2>5. QED
    BY <2>1, <2>2, <2>3, <2>4
<1>4. turn \in Nat /\ said \in Nat /\ tmax > 0
  <2>1. tmax \in Nat /\ tmax # 0
    BY <1>1, Lengths DEF Empty
  <2>2. QED
    BY <1>1, <2>1, Constants DEF TypeOK
<1>5. TypeOK'
  BY <1>1, <1>3, <1>4 DEF TypeOK, exact
<1>6. Carried'
  BY <1>1, CarriedStays DEF Engine
<1>7. Waiting' /\ Drawing' /\ Absorbed'
  BY <1>1, <1>3 DEF Waiting, Drawing, Absorbed
<1>8. Stored'
  BY <1>1, <1>3 DEF Stored
<1>9. Numbered'
  <2>1. Assistants(history) <= turn /\ turn + 1 <= said /\ Rounds(file) <= said
    BY <1>1, <1>2, <1>4 DEF Numbered
  <2>2. Rounds(history') = Assistants(history) + 1
    BY <1>3 DEF Rounds
  <2>3. Rounds(history') <= said /\ turn' <= said /\ Assistants(history') <= turn'
    BY <1>1, <1>3, <1>4, <2>1, <2>2
  <2>4. turn' + 0 = turn'
    BY <1>1, <1>4
  <2>5. QED
    BY <1>1, <1>3, <2>1, <2>3, <2>4 DEF Numbered
<1>10. Empty'
  BY <1>1, <1>4 DEF Empty
<1>11. QED
  BY <1>5, <1>6, <1>7, <1>8, <1>9, <1>10 DEF IInv

LEMMA Stutters ==
    ASSUME IInv, UNCHANGED vars PROVE IInv'
<1> USE DEF vars, talk, exact
<1>1. TypeOK'
  BY DEF IInv, TypeOK
<1>2. Carried'
  BY CarriedStays DEF IInv, Engine
<1>3. T' = T /\ np' = np /\ gen' = gen /\ need' = need
  BY DEF T, np, gen, need
<1>4. Waiting' /\ Drawing' /\ Absorbed'
  BY <1>3 DEF IInv, Waiting, Drawing, Absorbed
<1>5. Stored' /\ Numbered' /\ Empty'
  BY DEF IInv, Stored, Numbered, Empty
<1>6. QED
  BY <1>1, <1>2, <1>4, <1>5 DEF IInv

LEMMA Steps ==
    ASSUME IInv, [Next]_vars PROVE IInv'
<1>1. CASE UNCHANGED vars
  BY <1>1, Stutters
<1>2. ASSUME NEW u \in Said, Says(u) \/ TooLong(u) PROVE IInv'
  BY <1>2, SaysKeeps, TooLongKeeps
<1>3. CASE Launch \/ Resumes \/ Resets \/ Saves \/ Exit
  BY <1>3, LaunchKeeps, ResumesKeeps, ResetsKeeps, SavesKeeps, ExitKeeps
<1>4. CASE SetsUp \/ Begins \/ Feeds \/ Answers
  BY <1>4, SetsUpKeeps, BeginsKeeps, FeedsKeeps, AnswersKeeps
<1>5. QED
  BY <1>1, <1>2, <1>3, <1>4 DEF Next

-----------------------------------------------------------------------------
(* Invariants. *)

(* What the engine carries, what a turn has drawn and what is stored agree  *)
(* as IInv says in every reachable state of the REPL.                       *)
THEOREM InvHolds == Spec => []IInv
<1>1. Init => IInv
  BY Starts
<1>2. IInv /\ [Next]_vars => IInv'
  BY Steps
<1>3. QED
  BY <1>1, <1>2, PTL DEF Spec

(* Type correctness, the alternation of the transcript on both sides of the *)
(* file, and no KV row beyond the buffers chat_resize allocated, for any    *)
(* conversation, tokenizer and model (k3_chat.c:78-103, k3_run.c:617-726).  *)
THEOREM TypesHold == Spec => []TypeOK
<1>1. IInv => TypeOK
  BY DEF IInv
<1>2. QED
  BY <1>1, InvHolds, PTL

(* The invariant of k3_prefix.h: the record, where there is one, is exactly *)
(* the ids the current state was built from, in position order.             *)
THEOREM RecordHolds == Spec => []RecordIsState
<1>1. IInv => RecordIsState
  BY DEF IInv, Carried, Coherent, RecordIsState
<1>2. QED
  BY <1>1, InvHolds, PTL

(* Whenever the REPL asks for a line the history file holds the transcript, *)
(* whatever was refused, reset or left before (k3_run.c:771-802).           *)
THEOREM FileHolds == Spec => []FileIsHistory
<1>1. IInv => FileIsHistory
  BY DEF IInv, Stored, FileIsHistory
<1>2. QED
  BY <1>1, InvHolds, PTL

-----------------------------------------------------------------------------
(* Reuse. *)

LEMMA BeginsReuses ==
    ASSUME IInv, Begins, fed' # NoRecord, fed # NoRecord, fed = ks,
           cached > 0, cached < np, SubSeq(prompt, 1, cached) = ks
    PROVE  cached' = cached
<1>1. TypeOK /\ Carried /\ mode.incremental /\ Len(ks) = cached /\ cached \in Nat
  BY LenProperties DEF IInv, Carried, Coherent, TypeOK
<1>2. ks # <<>>
  BY <1>1, EmptySeq
<1>3. Kept = ks
  BY <1>1, <1>2, KeptIs
<1>4. PICK record \in Regrown :
         IF mode.incremental /\ Reusable(record) /\ Len(record) = cached
         THEN fed' = record /\ UNCHANGED <<exact, cleared>>
         ELSE /\ fed' = IF record = NoRecord THEN NoRecord ELSE <<>>
              /\ ks' = <<>> /\ kvc' = <<>> /\ cached' = 0
              /\ cleared' = NL
  BY DEF Begins
<1>5. record \in {ks, NoRecord}
  BY <1>3 DEF Regrown
<1>6. record = ks
  BY <1>4, <1>5 DEF Reusable
<1>7. Reusable(record)
  BY <1>1, <1>6 DEF Reusable
<1>8. QED
  BY <1>1, <1>4, <1>6, <1>7 DEF exact

(* A turn whose prompt goes on from what the state was fed prefills the new *)
(* tail alone, also when the buffers grow for it, unless the record could   *)
(* not be grown with them (k3_prefix_grow, k3_prefix_reuse).                *)
THEOREM TailReused == Spec => ReusesTail
<1> DEFINE Goes == /\ pc = "turn" /\ pc' = "feed" /\ fed' # NoRecord
                   /\ fed # NoRecord /\ fed = ks /\ cached > 0 /\ cached < np
                   /\ SubSeq(prompt, 1, cached) = ks
<1>1. ASSUME IInv, [Next]_vars, Goes PROVE cached' = cached
  <2>1. CASE Begins
    BY <1>1, <2>1, BeginsReuses
  <2>2. CASE ~Begins
    <3>1. Next
      BY <1>1 DEF vars
    <3>2. \A u \in Said : ~Says(u) /\ ~TooLong(u)
      BY <1>1 DEF Says, TooLong
    <3>3. ~Launch /\ ~Resumes /\ ~Resets /\ ~Saves /\ ~SetsUp /\ ~Feeds /\ ~Answers /\ ~Exit
      BY <1>1 DEF Launch, Resumes, Resets, Saves, SetsUp, Feeds, Answers, Exit
    <3>4. QED
      BY <2>2, <3>1, <3>2, <3>3 DEF Next
  <2>3. QED
    BY <2>1, <2>2
<1>2. IInv /\ [Next]_vars => [Goes => cached' = cached]_vars
  BY <1>1
<1>3. QED
  BY <1>2, InvHolds, PTL DEF Spec, ReusesTail

-----------------------------------------------------------------------------
(* Refinement. *)

(* The first n ids of the sequence, and the whole of it for n beyond.       *)
Early(n) == IF n <= T - np THEN SubSeq(seq, 1, np + n) ELSE seq

LEMMA EarlyGrows ==
    ASSUME IInv, pc = "drawn", seq[T] \in Ends, NEW n \in Nat \ {0}
    PROVE  LET c == Early(n - 1) IN
           Early(n) = IF c[Len(c)] \in Ends /\ n > 1 THEN c
                      ELSE Append(c, Answer(c, turn + 1))
<1>1. /\ np \in Nat /\ T \in Nat /\ np < T /\ seq \in Seq(Ids) /\ T = Len(seq)
      /\ \A i \in np + 1 .. T : seq[i] = Answer(SubSeq(seq, 1, i - 1), turn + 1)
      /\ \A i \in np + 1 .. T - 1 : seq[i] \notin Ends
  BY Lengths DEF IInv, Drawing, TypeOK, T
<1> DEFINE c == Early(n - 1)
<1>2. CASE n <= T - np
  <2> DEFINE k == np + n
  <2>1. /\ k \in np + 1 .. T /\ k \in 1 .. Len(seq) /\ k - 1 \in 0 .. Len(seq)
        /\ n - 1 <= T - np /\ np + (n - 1) = k - 1
    <3> HIDE DEF T, np
    <3>1. QED
      BY <1>1, <1>2
  <2>2. c = SubSeq(seq, 1, k - 1) /\ Early(n) = SubSeq(seq, 1, k)
    BY <1>2, <2>1 DEF Early
  <2>3. seq[k] \in Ids
    BY <1>1, <2>1, ElementOfSeq
  <2>4. c \in Seq(Ids) /\ Len(c) = k - 1 /\ \A i \in 1 .. k - 1 : c[i] = seq[i]
    <3> DEFINE j == k - 1
    <3>1. j \in 0 .. Len(seq) /\ seq \in Seq(Ids)
      BY <1>1, <2>1
    <3> HIDE DEF j, c
    <3>2. /\ SubSeq(seq, 1, j) \in Seq(Ids) /\ Len(SubSeq(seq, 1, j)) = j
          /\ \A i \in 1 .. j : SubSeq(seq, 1, j)[i] = seq[i]
      BY ONLY <3>1, Firsts
    <3>3. QED
      BY <2>2, <3>2 DEF j
  <2>5. Early(n) = Append(c, Answer(c, turn + 1))
    <3>1. 1 \in 1 .. Len(seq) /\ k \in 1 .. Len(seq)
      BY <1>1, <2>1
    <3>2. SubSeq(seq, 1, k) = SubSeq(seq, 1, k - 1) \o <<seq[k]>>
      BY <1>1, <3>1, SubSeqRecursiveSecond
    <3>3. Append(c, seq[k]) = c \o <<seq[k]>>
      BY <2>3, <2>4, AppendIsConcat
    <3>4. seq[k] = Answer(c, turn + 1)
      BY <1>1, <2>1, <2>2
    <3>5. QED
      BY <2>2, <3>2, <3>3, <3>4
  <2>6. n > 1 => c[Len(c)] \notin Ends
    <3>1. SUFFICES ASSUME n > 1 PROVE c[Len(c)] \notin Ends
      OBVIOUS
    <3>2. k - 1 \in np + 1 .. T - 1 /\ k - 1 \in 1 .. k - 1
      <4> HIDE DEF T, np
      <4>1. QED
        BY <1>1, <1>2, <3>1
    <3>3. QED
      BY <1>1, <2>4, <3>2
  <2>7. QED
    BY <2>5, <2>6
<1>3. CASE ~(n <= T - np)
  <2>1. n - 1 >= T - np /\ n > 1 /\ np + (T - np) = T
    <3> HIDE DEF T, np
    <3>1. QED
      BY <1>1, <1>3
  <2>2. c = seq
    <3>1. CASE n - 1 <= T - np
      <4>1. n - 1 = T - np
        <5> HIDE DEF T, np
        <5>1. QED
          BY <1>1, <2>1, <3>1
      <4>2. c = SubSeq(seq, 1, T)
        BY <2>1, <3>1, <4>1 DEF Early
      <4>3. QED
        BY <1>1, <4>2, SubSeqFull
    <3>2. CASE ~(n - 1 <= T - np)
      BY <3>2 DEF Early
    <3>3. QED
      BY <3>1, <3>2
  <2>3. Early(n) = seq
    BY <1>3 DEF Early
  <2>4. QED
    BY <1>1, <2>1, <2>2, <2>3
<1>4. QED
  BY <1>2, <1>3

(* A turn that ended has drawn the reply of the specification.              *)
LEMMA ReplyIs ==
    ASSUME IInv, pc = "drawn", seq[T] \in Ends
    PROVE  Talk!Reply(history, turn + 1) = Reencode(raw)
<1> DEFINE N == MAX_GEN
           D(d) == [i \in 0 .. N |->
                       IF i = 0 THEN Render(history)
                       ELSE LET c == d[i - 1]
                            IN IF c[Len(c)] \in Ends /\ i > 1 THEN c
                               ELSE Append(c, Answer(c, turn + 1))]
           f == [i \in 0 .. N |-> Early(i)]
<1>1. /\ N \in Nat /\ np \in Nat /\ T \in Nat /\ np < T /\ T - np <= N
      /\ seq \in Seq(Ids) /\ T = Len(seq)
      /\ SubSeq(seq, 1, np) = prompt /\ prompt = Render(history)
  <2>1. gen \in Nat /\ gen <= MAX_GEN /\ T <= np + gen
    BY Lengths DEF IInv, Drawing
  <2>2. MAX_GEN \in Nat /\ np \in Nat /\ T \in Nat /\ np < T
    BY Constants, Lengths DEF IInv, Drawing
  <2>3. T - np <= MAX_GEN
    <3> HIDE DEF T, np, gen
    <3>1. QED
      BY <2>1, <2>2
  <2>4. QED
    BY <2>2, <2>3 DEF IInv, Drawing, Waiting, TypeOK, T
<1>2. Early(0) = Render(history)
  <2>1. 0 <= T - np /\ np + 0 = np
    <3> HIDE DEF T, np
    <3>1. QED
      BY <1>1
  <2>2. QED
    BY <1>1, <2>1 DEF Early
<1>3. f = D(f)
  <2>1. ASSUME NEW i \in 0 .. N
        PROVE  f[i] = IF i = 0 THEN Render(history)
                      ELSE LET c == f[i - 1]
                           IN IF c[Len(c)] \in Ends /\ i > 1 THEN c
                              ELSE Append(c, Answer(c, turn + 1))
    <3>1. CASE i = 0
      BY <1>2, <3>1
    <3>2. CASE i # 0
      <4>1. i \in Nat \ {0} /\ i - 1 \in 0 .. N
        BY <1>1, <3>2
      <4>2. f[i] = Early(i) /\ f[i - 1] = Early(i - 1)
        BY <4>1
      <4>3. QED
        BY <3>2, <4>1, <4>2, EarlyGrows
    <3>3. QED
      BY <3>1, <3>2
  <2> HIDE DEF f, N
  <2>2. f = [i \in 0 .. N |-> f[i]]
    BY DEF f
  <2>3. QED
    BY <2>1, <2>2
<1>4. ASSUME NEW d, d = D(d) PROVE d = f
  <2> DEFINE Next1(c, i) == IF c[Len(c)] \in Ends /\ i > 1 THEN c ELSE Append(c, Answer(c, turn + 1))
  <2>1. /\ \A n \in 0 .. N : d[n] = IF n = 0 THEN Render(history) ELSE Next1(d[n - 1], n)
        /\ \A n \in 0 .. N : f[n] = IF n = 0 THEN Render(history) ELSE Next1(f[n - 1], n)
    <3> HIDE DEF f, N
    <3>1. QED
      BY <1>3, <1>4
  <2> HIDE DEF f, N, Next1
  <2> DEFINE B == {n \in 0 .. N : d[n] = f[n]}
  <2>2. 0 \in B
    BY <1>1, <2>1
  <2>3. ASSUME NEW n \in 0 .. N - 1, n \in B PROVE n + 1 \in B
    <3>1. n + 1 \in 0 .. N /\ n + 1 # 0 /\ n + 1 - 1 = n
      BY <1>1
    <3>2. d[n + 1] = Next1(d[n], n + 1) /\ f[n + 1] = Next1(f[n], n + 1)
      BY <2>1, <3>1
    <3>3. QED
      BY <2>3, <3>1, <3>2
  <2>4. \A n \in 0 .. N : n \in B
    <3>1. \A n \in 0 .. N - 1 : n \in B => n + 1 \in B
      BY <2>3
    <3> HIDE DEF B
    <3>2. QED
      BY <1>1, <2>2, <3>1, Climbs
  <2>5. \A n \in 0 .. N : d[n] = f[n]
    BY <2>4
  <2>6. d = [n \in 0 .. N |-> d[n]] /\ f = [n \in 0 .. N |-> f[n]]
    BY <1>4 DEF f
  <2>7. QED
    BY <2>5, <2>6
<1>5. (CHOOSE d : d = D(d)) = f
  <2> HIDE DEF D, f
  <2>1. QED
    BY <1>3, <1>4
<1>6. f[N] = seq
  <2>1. f[N] = Early(N)
    BY <1>1
  <2>2. CASE N <= T - np
    <3>1. np + N = T
      <4> HIDE DEF T, np, N
      <4>1. QED
        BY <1>1, <2>2
    <3>2. QED
      BY <1>1, <2>1, <2>2, <3>1, SubSeqFull DEF Early
  <2>3. CASE ~(N <= T - np)
    BY <2>1, <2>3 DEF Early
  <2>4. QED
    BY <2>2, <2>3
<1>7. Talk!Grown(history, turn + 1, MAX_GEN) = f[N]
  <2> HIDE DEF f
  <2>1. QED
    BY <1>5 DEF Talk!Grown
<1>8. Talk!Grown(history, turn + 1, MAX_GEN) = seq /\ Len(Render(history)) = np
  BY <1>1, <1>6, <1>7 DEF np
<1>9. QED
  BY <1>1, <1>8 DEF Talk!Reply, raw

LEMMA LaunchBegins ==
    ASSUME IInv, Launch PROVE Talk!Begin
<1>1. PICK given \in {<<>>} \cup {<<system(s)>> : s \in Systems} :
         LET had == IF mode'.path THEN Loaded ELSE <<>>
         IN  history' = IF had = <<>> THEN given ELSE had
  BY DEF Launch
<1>2. given \in {<<>>} \cup {<<Talk!system(s)>> : s \in Systems}
  BY DEF system, Talk!system
<1>3. history' \in {<<>>, file} \cup {<<Talk!system(s)>> : s \in Systems}
  BY <1>1, <1>2 DEF Loaded
<1>4. file' = IF mode'.path THEN history' ELSE file
  BY DEF Launch
<1>5. mode'.path => IsPrefix(file, history')
  <2>1. SUFFICES ASSUME mode'.path PROVE IsPrefix(file, history')
    OBVIOUS
  <2>2. history' = file \/ file = <<>>
    BY <1>1, <2>1 DEF Loaded
  <2>3. file \in Seq(Messages) /\ history' \in Seq(Messages)
    BY LaunchKeeps DEF IInv, TypeOK
  <2>4. QED
    BY <2>2, <2>3, PrefixIs
<1>6. file' \in {file} \cup {h \in {history'} : Talk!IsPrefix(file, h)}
  BY <1>4, <1>5 DEF IsPrefix, Talk!IsPrefix
<1>7. pc = "off" /\ pc' # "off"
  BY DEF Launch
<1>8. QED
  BY <1>3, <1>6, <1>7 DEF Talk!Begin

LEMMA SavesStores ==
    ASSUME IInv, Saves PROVE [Talk!Next]_(Talk!vars)
<1>1. /\ pc # "off" /\ pc' # "off" /\ UNCHANGED history
      /\ file' = IF mode.path THEN history ELSE file
  BY DEF Saves
<1>2. CASE mode.path
  <2>1. IsPrefix(file, history) \/ history = Opening(file)
    BY <1>2 DEF IInv, Stored, Saves
  <2>2. Talk!IsPrefix(file, history) \/ history = Talk!Opening(file)
    BY <2>1 DEF IsPrefix, Talk!IsPrefix, Opening, Talk!Opening
  <2>3. Talk!Store
    BY <1>1, <1>2, <2>2 DEF Talk!Store
  <2>4. QED
    BY <2>3 DEF Talk!Next
<1>3. CASE ~mode.path
  BY <1>1, <1>3 DEF Talk!vars
<1>4. QED
  BY <1>2, <1>3

LEMMA AnswersReplies ==
    ASSUME IInv, Answers PROVE Talk!Replies
<1>1. /\ pc = "drawn" /\ seq[T] \in Ends /\ pc' # "off"
      /\ history' = Append(history, assistant(Reencode(raw))) /\ UNCHANGED file
  BY DEF Answers
<1>2. Talk!Reply(history, turn + 1) = Reencode(raw)
  BY <1>1, ReplyIs
<1>3. history' = Append(history, Talk!assistant(Talk!Reply(history, turn + 1)))
  BY <1>1, <1>2 DEF assistant, Talk!assistant
<1>4. Talk!Awaits(history)
  BY <1>1 DEF IInv, Waiting, Awaits, Talk!Awaits
<1>5. turn + 1 \in Talk!Answered(history) + 1 .. MaxSaid + 1
  <2>1. Talk!Answered(history) = Assistants(history)
    BY DEF Talk!Answered, Assistants, Talk!Cardinality, Cardinality
  <2>2. /\ Assistants(history) \in Nat /\ turn \in Nat /\ said \in 0 .. MaxSaid /\ MaxSaid \in Nat
        /\ Assistants(history) <= turn /\ turn + 1 <= said
    <3>1. tmax > 0 /\ Awaits(history)
      BY <1>1, Lengths DEF IInv, Empty, Waiting
    <3>2. QED
      BY <3>1, AssistantsIs, Constants DEF IInv, TypeOK, Numbered
  <2>3. QED
    BY <2>1, <2>2
<1>6. QED
  BY <1>1, <1>3, <1>4, <1>5 DEF Talk!Replies

LEMMA StepImplements ==
    ASSUME IInv, [Next]_vars PROVE [Talk!Next]_(Talk!vars)
<1>1. CASE UNCHANGED vars \/ Resumes \/ SetsUp \/ Begins \/ Feeds
  <2>1. UNCHANGED <<history, file>> /\ (pc # "off" <=> pc' # "off")
    BY <1>1 DEF vars, talk, Resumes, SetsUp, Begins, Feeds
  <2>2. QED
    BY <2>1 DEF Talk!vars
<1>2. ASSUME NEW u \in Said, Says(u) PROVE Talk!Next
  <2>1. /\ pc # "off" /\ pc' # "off" /\ UNCHANGED file
        /\ ~Talk!Awaits(history) /\ history' = Append(history, Talk!user(u))
    BY <1>2 DEF Says, Awaits, Talk!Awaits, user, Talk!user
  <2>2. QED
    BY <2>1 DEF Talk!Next, Talk!Ask
<1>3. ASSUME NEW u \in Said, TooLong(u) PROVE UNCHANGED Talk!vars
  BY <1>3 DEF TooLong, Withdrawn, Talk!vars
<1>4. CASE Launch
  BY <1>4, LaunchBegins DEF Talk!Next
<1>5. CASE Resets
  BY <1>5 DEF Resets, Opening, Talk!Opening, Awaits, Talk!Awaits, Talk!Reset, Talk!Next
<1>6. CASE Saves
  BY <1>6, SavesStores
<1>7. CASE Answers
  BY <1>7, AnswersReplies DEF Talk!Next
<1>8. CASE Exit
  BY <1>8 DEF Exit, Talk!Close, Talk!Next
<1>9. QED
  BY <1>1, <1>2, <1>3, <1>4, <1>5, <1>6, <1>7, <1>8 DEF Next

(* The REPL implements Conversation: an answer is the one the specification *)
(* gives for the transcript and the stream, whatever was reused from        *)
(* earlier turns, and the file is only ever the transcript, grown or reset. *)
THEOREM Refinement == Spec => KeepsConversation
<1>1. Init => Talk!Init
  BY DEF Init, Talk!Init
<1>2. IInv /\ [Next]_vars => [Talk!Next]_(Talk!vars)
  BY StepImplements
<1>3. QED
  BY <1>1, <1>2, InvHolds, PTL DEF Spec, KeepsConversation, Talk!Spec
=============================================================================
