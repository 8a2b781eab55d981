---------------------------- MODULE StatusProofs -----------------------------
(***************************************************************************)
(* Proofs about StatusRequests.                                            *)
(***************************************************************************)
EXTENDS StatusRequests, Induction, SequenceTheorems, TLAPS

(* Reading a JSON text: the reader's state behind each of its tokens. *)

Marks == {"{", "}", "[", "]", ",", "name", "members", "server"}
Toks(V) == [t : Marks, v : V]
Brackets == {"{", "["}
Readers == [ok : BOOLEAN, stack : Seq(Brackets), prev : Marks]
Begun == [ok |-> TRUE, stack |-> <<"{">>, prev |-> "{"]
Reads(st, stack, prev) == st \in Readers /\ st.ok /\ st.stack = stack /\ st.prev = prev

\* text is read without an error, and leaves the brackets of stack open.
At(text, V, stack, prev) ==
  /\ text \in Seq(Toks(V)) /\ text # <<>> /\ text[1] = J!Tok("{")
  /\ stack \in Seq(Brackets)
  /\ \E r : /\ r[1] = Begun
            /\ \A i \in 2 .. Len(text) : r[i] = J!ReadTok(r[i - 1], text[i])
            /\ Reads(r[Len(text)], stack, prev)

LEMMA AtNext ==
  ASSUME NEW V, NEW text, NEW stack, NEW prev, At(text, V, stack, prev), NEW tok \in Toks(V),
         NEW over \in Seq(Brackets), NEW last,
         \A st : Reads(st, stack, prev) => Reads(J!ReadTok(st, tok), over, last)
  PROVE  At(Append(text, tok), V, over, last)
<1> DEFINE n == Len(text)
<1>1. text \in Seq(Toks(V)) /\ text # <<>> /\ text[1] = J!Tok("{") BY DEF At
<1>2. n \in Nat \ {0} BY <1>1, EmptySeq
<1>3. PICK r : /\ r[1] = Begun
               /\ \A i \in 2 .. n : r[i] = J!ReadTok(r[i - 1], text[i])
               /\ Reads(r[n], stack, prev)
  BY DEF At
<1> DEFINE q == [i \in 1 .. n + 1 |-> IF i <= n THEN r[i] ELSE J!ReadTok(r[n], tok)]
           more == Append(text, tok)
<1>4. /\ more \in Seq(Toks(V)) /\ more # <<>> /\ Len(more) = n + 1
      /\ \A i \in 1 .. n : more[i] = text[i]
      /\ more[n + 1] = tok
  <2>1. /\ more \in Seq(Toks(V)) /\ more # <<>> /\ Len(more) = Len(text) + 1
        /\ \A i \in 1 .. Len(text) : more[i] = text[i]
        /\ more[Len(text) + 1] = tok
    <3> DEFINE T == Toks(V)
    <3>1. text \in Seq(T) /\ tok \in T BY <1>1
    <3> HIDE DEF n, T
    <3>2. /\ more \in Seq(T) /\ more # <<>> /\ Len(more) = Len(text) + 1
          /\ \A i \in 1 .. Len(text) : more[i] = text[i]
          /\ more[Len(text) + 1] = tok
      BY <3>1, AppendProperties
    <3> QED BY <3>2 DEF T
  <2> QED BY <2>1
<1>5. more[1] = J!Tok("{")
  <2>1. 1 \in 1 .. n BY <1>2
  <2> QED BY <1>1, <1>4, <2>1
<1>6. q[1] = Begun /\ q[n + 1] = J!ReadTok(r[n], tok) BY <1>2, <1>3
<1>7. ASSUME NEW i \in 2 .. n + 1 PROVE q[i] = J!ReadTok(q[i - 1], more[i])
  <2>1. CASE i <= n
    <3>1. i \in 2 .. n /\ i - 1 \in 1 .. n /\ i - 1 <= n /\ i \in 1 .. n BY <1>2, <2>1
    <3>2. q[i] = r[i] /\ q[i - 1] = r[i - 1] /\ more[i] = text[i] BY <1>4, <2>1, <3>1
    <3> QED BY <1>3, <3>1, <3>2
  <2>2. CASE i = n + 1
    <3>1. i - 1 = n /\ n \in 1 .. n + 1 BY <1>2, <2>2
    <3>2. q[i - 1] = r[n] BY <1>2, <3>1
    <3> QED BY <1>4, <1>6, <2>2, <3>2
  <2> QED BY <1>2, <2>1, <2>2
<1>8. Reads(q[n + 1], over, last) BY <1>3, <1>6
<1> HIDE DEF q, more, n
<1> QED BY <1>4, <1>5, <1>6, <1>7, <1>8 DEF At, more, n

LEMMA Tokens ==
  ASSUME NEW V, <<>> \in V
  PROVE  /\ \A t \in Marks : J!Tok(t) \in Toks(V) /\ J!Tok(t).t = t
         /\ \A v \in V : J!Name(v) \in Toks(V) /\ J!Name(v).t = "name"
<1>1. ASSUME NEW t \in Marks PROVE J!Tok(t) \in Toks(V) /\ J!Tok(t).t = t BY DEF J!Tok, Toks
<1>2. ASSUME NEW v \in V PROVE J!Name(v) \in Toks(V) /\ J!Name(v).t = "name"
  BY DEF J!Name, Toks, Marks
<1> QED BY <1>1, <1>2

LEMMA LibraryOps == \A s : J!Last(s) = Last(s) /\ J!Front(s) = Front(s)
BY DEF J!Last, J!Front, Last, Front

\* A token that opens and closes nothing.
LEMMA AtPlain ==
  ASSUME NEW V, NEW text, NEW stack, NEW prev, At(text, V, stack, prev), stack # <<>>,
         NEW tok \in Toks(V), tok.t \notin {"{", "[", "}", "]"},
         J!Follows(Last(stack), prev, tok.t)
  PROVE  At(Append(text, tok), V, stack, tok.t)
<1>1. stack \in Seq(Brackets) BY DEF At
<1>2. ASSUME NEW st, Reads(st, stack, prev) PROVE Reads(J!ReadTok(st, tok), stack, tok.t)
  <2>1. J!ReadTok(st, tok) = [st EXCEPT !.prev = tok.t]
    BY <1>2, LibraryOps DEF Reads, J!ReadTok, J!Opens
  <2>2. [st EXCEPT !.prev = tok.t].stack = stack /\ [st EXCEPT !.prev = tok.t].prev = tok.t
        /\ [st EXCEPT !.prev = tok.t].ok /\ [st EXCEPT !.prev = tok.t] \in Readers
    BY <1>2 DEF Reads, Readers, Toks
  <2> QED BY <2>1, <2>2 DEF Reads
<1> QED BY <1>1, <1>2, AtNext

LEMMA FrontAppend ==
  ASSUME NEW T, NEW stack \in Seq(T), NEW o \in T
  PROVE  /\ Append(stack, o) \in Seq(T) /\ Append(stack, o) # <<>>
         /\ Last(Append(stack, o)) = o /\ Front(Append(stack, o)) = stack
<1> DEFINE n == Len(stack)
           more == Append(stack, o)
<1>1. /\ n \in Nat /\ more \in Seq(T) /\ more # <<>> /\ Len(more) = n + 1
      /\ \A i \in 1 .. n : more[i] = stack[i]
      /\ more[n + 1] = o
  BY AppendProperties, EmptySeq, LenProperties
<1> HIDE DEF more
<1>2. Last(more) = o BY <1>1 DEF Last
<1>3. Front(more) = SubSeq(more, 1, n) BY <1>1 DEF Front
<1>4. /\ SubSeq(more, 1, n) \in Seq(T) /\ Len(SubSeq(more, 1, n)) = n
      /\ \A i \in 1 .. n : SubSeq(more, 1, n)[i] = stack[i]
  <2>1. \A i \in 1 .. n : more[i] \in T BY <1>1, ElementOfSeq
  <2> QED BY <1>1, <2>1, SubSeqProperties
<1>5. SubSeq(more, 1, n) = stack BY <1>4, SeqEqual
<1> QED BY <1>1, <1>2, <1>3, <1>5 DEF more

LEMMA FrontLastOf ==
  ASSUME NEW T, NEW stack \in Seq(T), stack # <<>>
  PROVE  /\ stack = Append(Front(stack), Last(stack))
         /\ Front(stack) \in Seq(T) /\ Last(stack) \in T
<1> DEFINE n == Len(stack)
           f == Front(stack)
           more == Append(f, Last(stack))
<1>1. n \in Nat \ {0} BY EmptySeq, LenProperties
<1>2. \A i \in 1 .. n : stack[i] \in T BY ElementOfSeq
<1>3. f = SubSeq(stack, 1, n - 1) BY DEF Front
<1>4. /\ f \in Seq(T) /\ Len(f) = n - 1
      /\ \A i \in 1 .. n - 1 : f[i] = stack[i]
  <2>1. \A i \in 1 .. n - 1 : stack[i] \in T BY <1>1, <1>2
  <2>2. /\ SubSeq(stack, 1, n - 1) \in Seq(T) /\ Len(SubSeq(stack, 1, n - 1)) = n - 1
        /\ \A i \in 1 .. n - 1 : SubSeq(stack, 1, n - 1)[i] = stack[i]
    <3> DEFINE m == n - 1
    <3>1. m \in Nat /\ 1 + m - 1 = m BY <1>1
    <3>2. \A i \in 1 .. m : stack[i] \in T BY <2>1
    <3>3. /\ SubSeq(stack, 1, m) \in Seq(T)
          /\ Len(SubSeq(stack, 1, m)) = IF 1 <= m THEN m - 1 + 1 ELSE 0
          /\ \A i \in 1 .. m - 1 + 1 : SubSeq(stack, 1, m)[i] = stack[1 + i - 1]
      BY <3>1, <3>2, SubSeqProperties
    <3> HIDE DEF m
    <3>4. Len(SubSeq(stack, 1, m)) = m BY <3>1, <3>3
    <3>5. \A i \in 1 .. m : i \in 1 .. m - 1 + 1 /\ 1 + i - 1 = i BY <3>1
    <3>6. \A i \in 1 .. m : SubSeq(stack, 1, m)[i] = stack[i] BY <3>3, <3>5
    <3> QED BY <3>3, <3>4, <3>6 DEF m
  <2> QED BY <1>3, <2>2
<1>5. Last(stack) = stack[n] /\ Last(stack) \in T BY <1>1, <1>2 DEF Last
<1>6. /\ more \in Seq(T) /\ Len(more) = n
      /\ \A i \in 1 .. n - 1 : more[i] = f[i]
      /\ more[n] = Last(stack)
  <2> HIDE DEF f
  <2>1. Len(f) \in Nat /\ n = Len(f) + 1 BY <1>1, <1>4
  <2> QED BY <1>4, <1>5, <2>1, AppendProperties
<1>7. \A i \in 1 .. n : more[i] = stack[i] BY <1>1, <1>4, <1>5, <1>6
<1> HIDE DEF more, f
<1>8. more = stack BY <1>6, <1>7, SeqEqual
<1> QED BY <1>4, <1>5, <1>8 DEF more, f

\* A bracket that opens,
LEMMA AtOpen ==
  ASSUME NEW V, NEW text, NEW stack, NEW prev, At(text, V, stack, prev), stack # <<>>,
         NEW tok \in Toks(V), tok.t \in Brackets,
         J!Follows(Last(stack), prev, tok.t)
  PROVE  At(Append(text, tok), V, Append(stack, tok.t), tok.t)
<1> DEFINE over == Append(stack, tok.t)
<1>1. over \in Seq(Brackets) BY FrontAppend DEF At
<1>2. ASSUME NEW st, Reads(st, stack, prev) PROVE Reads(J!ReadTok(st, tok), over, tok.t)
  <2> DEFINE next == [st EXCEPT !.stack = over, !.prev = tok.t]
  <2>1. J!ReadTok(st, tok) = next
    BY <1>2, LibraryOps DEF Reads, J!ReadTok, J!Opens, Brackets
  <2> HIDE DEF over
  <2>2. next.stack = over /\ next.prev = tok.t /\ next.ok /\ next \in Readers
    BY <1>1, <1>2 DEF Reads, Readers, Toks
  <2> QED BY <2>1, <2>2 DEF Reads
<1> HIDE DEF over
<1> QED BY <1>1, <1>2, AtNext DEF over

\* and one that closes.
LEMMA AtClose ==
  ASSUME NEW V, NEW text, NEW stack \in Seq(Brackets), NEW o \in Brackets, NEW prev,
         At(text, V, Append(stack, o), prev),
         NEW tok \in Toks(V), tok.t \in {"}", "]"}, J!Closes(tok.t) = o,
         J!Follows(o, prev, tok.t)
  PROVE  At(Append(text, tok), V, stack, tok.t)
<1> DEFINE more == Append(stack, o)
<1>1. more # <<>> /\ Last(more) = o /\ Front(more) = stack BY FrontAppend
<1> HIDE DEF more
<1>2. ASSUME NEW st, Reads(st, more, prev) PROVE Reads(J!ReadTok(st, tok), stack, tok.t)
  <2> DEFINE next == [st EXCEPT !.ok = TRUE, !.stack = stack, !.prev = tok.t]
             good == Last(st.stack) = J!Closes(tok.t)
  <2>1. J!ReadTok(st, tok) = [st EXCEPT !.ok = good, !.stack = Front(st.stack), !.prev = tok.t]
    BY <1>1, <1>2, LibraryOps DEF Reads, J!ReadTok, J!Opens
  <2>2. good = TRUE /\ Front(st.stack) = stack BY <1>1, <1>2 DEF Reads
  <2>3. next.stack = stack /\ next.prev = tok.t /\ next.ok /\ next \in Readers
    BY <1>2 DEF Reads, Readers, Toks
  <2> HIDE DEF good
  <2> QED BY <2>1, <2>2, <2>3 DEF Reads
<1> QED BY <1>2, AtNext DEF more

\* A sequence that is written out is appended token by token.
LEMMA Spelled ==
  ASSUME NEW T, NEW text \in Seq(T), NEW a \in T, NEW b \in T, NEW c \in T, NEW d \in T
  PROVE  /\ text \o <<a>> = Append(text, a)
         /\ text \o <<a, b>> = Append(Append(text, a), b)
         /\ text \o <<a, b, c>> = Append(Append(Append(text, a), b), c)
         /\ text \o <<a, b, c>> \in Seq(T)
         /\ text \o <<a, b, c, d>> = Append(Append(Append(Append(text, a), b), c), d)
         /\ text \o <<a, b, c, d>> = (text \o <<a, b>>) \o <<c, d>>
         /\ text \o <<a>> \in Seq(T) /\ text \o <<a, b>> \in Seq(T)
         /\ text \o <<a, b, c, d>> \in Seq(T)
<1>1. ASSUME NEW s \in Seq(T), NEW x \in T, NEW y \in T
      PROVE  s \o <<x, y>> = Append(Append(s, x), y) /\ s \o <<x, y>> \in Seq(T)
  OBVIOUS
<1>2. text \o <<a>> = Append(text, a) /\ text \o <<a>> \in Seq(T) OBVIOUS
<1>8. <<a, b>> \in Seq(T) /\ <<c, d>> \in Seq(T) /\ <<a, b, c, d>> = <<a, b>> \o <<c, d>> OBVIOUS
<1>3. text \o <<a, b, c, d>> = (text \o <<a, b>>) \o <<c, d>>
  BY <1>8, ConcatAssociative
<1>6. text \o <<a, b, c>> = Append(text \o <<a, b>>, c) OBVIOUS
<1> DEFINE s == text \o <<a, b>>
<1>4. s = Append(Append(text, a), b) /\ s \in Seq(T) BY <1>1
<1> HIDE DEF s
<1>5. s \o <<c, d>> = Append(Append(s, c), d) /\ s \o <<c, d>> \in Seq(T) BY <1>1, <1>4
<1>7. Append(s, c) \in Seq(T) BY <1>4
<1> QED BY <1>2, <1>3, <1>4, <1>5, <1>6, <1>7 DEF s

LEMMA SpelledPair ==
  ASSUME NEW T, NEW text \in Seq(T), NEW a \in T, NEW b \in T
  PROVE  /\ text \o <<a>> = Append(text, a) /\ text \o <<a>> \in Seq(T)
         /\ text \o <<a, b>> = Append(Append(text, a), b) /\ text \o <<a, b>> \in Seq(T)
         /\ text \o <<a, b>> # text
<1>1. /\ text \o <<a>> = Append(text, a) /\ text \o <<a>> \in Seq(T)
      /\ text \o <<a, b>> = Append(Append(text, a), b) /\ text \o <<a, b>> \in Seq(T)
  OBVIOUS
<1>2. Len(text \o <<a, b>>) = Len(text) + 2 /\ Len(text) \in Nat OBVIOUS
<1>3. text \o <<a, b>> # text BY <1>2
<1> QED BY <1>1, <1>3

(* A list whose last comma waits for what comes next. *)

\* What an item of an object or an array ends with.
Ends(stack) == IF Last(stack) = "{" THEN {"}", "]", "members"} ELSE {"}"}

Comma(text, V, stack) ==
  \E b, p : At(b, V, stack, p) /\ p \in Ends(stack) /\ text = Append(b, J!NEXT)

LEMMA CommaReads ==
  ASSUME NEW V, <<>> \in V, NEW text, NEW stack, stack # <<>>, Comma(text, V, stack)
  PROVE  /\ At(text, V, stack, ",") /\ text \in Seq(Toks(V))
         /\ \E p \in Ends(stack) : At(Front(text), V, stack, p)
<1>1. PICK b, p : At(b, V, stack, p) /\ p \in Ends(stack) /\ text = Append(b, J!NEXT)
  BY DEF Comma
<1>2. J!NEXT \in Toks(V) /\ J!NEXT.t = "," BY Tokens DEF J!NEXT, Marks
<1>3. At(text, V, stack, ",")
  <2>1. J!Follows(Last(stack), p, ",") BY <1>1 DEF J!Follows, Ends
  <2> QED BY <1>1, <1>2, <2>1, AtPlain
<1>4. Front(text) = b
  <2>1. b \in Seq(Toks(V)) BY <1>1 DEF At
  <2> QED BY <1>1, <1>2, <2>1, FrontAppend
<1>5. text \in Seq(Toks(V)) BY <1>3 DEF At
<1> QED BY <1>1, <1>3, <1>4, <1>5

(* The members of an object: servers, and the nodes of a filter. *)

LEMMA ServerNode ==
  ASSUME NEW V, <<>> \in V, NEW key \in V, NEW buf \in Seq(Toks(V))
  PROVE  /\ J!SetServerNode(buf, key) \in Seq(Toks(V))
         /\ \A stack \in Seq(Brackets), p \in {"{", ","} :
              At(buf, V, Append(stack, "{"), p) =>
                Comma(J!SetServerNode(buf, key), V, Append(stack, "{"))
<1> DEFINE T == Toks(V)
           a == J!Name(key)
           b == J!Tok("{")
           c == J!Tok("members")
           d == J!Tok("}")
           e == J!Tok(",")
<1>1. a \in T /\ b \in T /\ c \in T /\ d \in T /\ e \in T
      /\ a.t = "name" /\ b.t = "{" /\ c.t = "members" /\ d.t = "}" /\ e.t = ","
  BY Tokens DEF Marks
<1>2. J!SetServerNode(buf, key) = buf \o (<<a, b>> \o <<c, d, e>>)
  BY DEF J!SetServerNode, J!FMT_SERVER, J!OBJECT_S, J!OBJECT_E, J!NEXT
<1> DEFINE t1 == Append(buf, a)
           t2 == Append(t1, b)
           t3 == Append(t2, c)
           t4 == Append(t3, d)
           t5 == Append(t4, e)
<1> HIDE DEF a, b, c, d, e, T
<1>3. J!SetServerNode(buf, key) = t5 /\ t5 \in Seq(T)
  <2>0. buf \in Seq(T) BY DEF T
  <2>6. a \in T /\ b \in T /\ c \in T /\ d \in T /\ e \in T BY <1>1
  <2>1. <<a, b>> \in Seq(T) /\ <<c, d, e>> \in Seq(T) BY <2>6
  <2>2. buf \o (<<a, b>> \o <<c, d, e>>) = (buf \o <<a, b>>) \o <<c, d, e>>
    BY <2>0, <2>1, ConcatAssociative
  <2>3. buf \o <<a, b>> = t2 /\ t2 \in Seq(T) BY <2>6, <2>0, Spelled
  <2> HIDE DEF t2
  <2>4. t2 \o <<c, d, e>> = t5 /\ t5 \in Seq(T) BY <2>6, <2>3, Spelled
  <2> QED BY <1>2, <2>2, <2>3, <2>4
<1>4. ASSUME NEW stack \in Seq(Brackets), NEW p \in {"{", ","},
             At(buf, V, Append(stack, "{"), p)
      PROVE  Comma(t5, V, Append(stack, "{"))
  <2> DEFINE in == Append(stack, "{")
             over == Append(in, "{")
  <2>0. "{" \in Brackets BY DEF Brackets
  <2>1. in \in Seq(Brackets) /\ in # <<>> /\ Last(in) = "{" /\ over \in Seq(Brackets)
        /\ over # <<>> /\ Last(over) = "{"
    BY <2>0, FrontAppend
  <2> HIDE DEF in
  <2>2. At(t1, V, in, "name")
    <3>1. J!Follows(Last(in), p, "name") BY <2>1 DEF J!Follows
    <3> QED BY <1>1, <1>4, <2>1, <3>1, AtPlain DEF T, in
  <2>3. At(t2, V, over, "{")
    <3>1. J!Follows(Last(in), "name", "{") BY DEF J!Follows
    <3> QED BY <1>1, <2>0, <2>1, <2>2, <3>1, AtOpen DEF T
  <2>4. At(t3, V, over, "members")
    <3>1. J!Follows(Last(over), "{", "members") BY DEF J!Follows
    <3> QED BY <1>1, <2>1, <2>3, <3>1, AtPlain DEF T
  <2>5. At(t4, V, in, "}")
    <3>1. J!Follows("{", "members", "}") /\ J!Closes("}") = "{" BY DEF J!Follows, J!Closes
    <3> QED BY <1>1, <2>0, <2>1, <2>4, <3>1, AtClose DEF T
  <2> QED BY <2>1, <2>5 DEF Comma, Ends, J!NEXT, e, in
<1> QED BY <1>3, <1>4 DEF T

\* seq has n elements, at the positions D; E has 0 in front.
Positions(n, D, E, seq, X) == n \in Nat /\ D = 1 .. n /\ E = 0 .. n /\ seq \in [D -> X]

ServerChain(c, V, n, D, E, buf, walk) ==
  /\ c \in [E -> Seq(Toks(V))]
  /\ c[0] = buf /\ c[n] = J!SetServer(buf, walk)
  /\ \A i \in D :
       c[i] = IF walk[i][1] = "NO" THEN J!SetServerNode(c[i - 1], walk[i]) ELSE c[i - 1]

LEMMA ServerFold ==
  ASSUME NEW V, <<>> \in V, NEW n, NEW D, NEW E, NEW walk, Positions(n, D, E, walk, V), NEW buf \in Seq(Toks(V))
  PROVE  \E c : ServerChain(c, V, n, D, E, buf, walk)
<1>0. n \in Nat /\ D = 1 .. n /\ E = 0 .. n /\ walk \in [D -> V] BY DEF Positions
<1> DEFINE A == Seq(Toks(V))
           f == [q \in A \X V |->
                   IF q[2][1] = "NO" THEN J!SetServerNode(q[1], q[2]) ELSE q[1]]
           Is(g) == g = [s \in SUBSET D |->
                           IF s = {} THEN buf
                           ELSE IF walk[Highest(s)][1] = "NO"
                                THEN J!SetServerNode(g[s \ {Highest(s)}], walk[Highest(s)])
                                ELSE g[s \ {Highest(s)}]]
           h == CHOOSE g : Is(g)
<1>1. f \in [A \X V -> A] /\ buf \in A BY ServerNode
<1>2. \A b \in A, k \in V :
        f[<<b, k>>] = IF k[1] = "NO" THEN J!SetServerNode(b, k) ELSE b
  OBVIOUS
<1>3. J!SetServer(buf, walk) = h[D]
  BY <1>0 DEF J!SetServer, J!FoldLeft, J!MapThenFoldSet, J!Max, Highest
<1> HIDE DEF f, A
<1>4. Is(h)
  <2>1. PICK g \in [SUBSET D -> A] : Folds(g, f, buf, walk, D) BY <1>0, <1>1, FoldExists
  <2>2. \A s \in SUBSET D : s # {} => g[s \ {Highest(s)}] \in A /\ walk[Highest(s)] \in V
    BY <1>0, HighestOf
  <2>3. \A s \in SUBSET D : s # {} =>
          f[<<g[s \ {Highest(s)}], walk[Highest(s)]>>]
            = IF walk[Highest(s)][1] = "NO"
              THEN J!SetServerNode(g[s \ {Highest(s)}], walk[Highest(s)])
              ELSE g[s \ {Highest(s)}]
    BY <1>2, <2>2
  <2>4. Is(g) BY <2>1, <2>3 DEF Folds
  <2> QED BY <2>4
<1> HIDE DEF h
<1> DEFINE c == [k \in E |-> h[1 .. k]]
<1>5. c[0] = buf /\ c[n] = h[D]
  <2>1. 1 .. 0 = {} /\ 0 \in E /\ n \in E BY <1>0
  <2> QED BY <1>0, <1>4, <2>1
<1>6. \A k \in D : c[k] = IF walk[k][1] = "NO" THEN J!SetServerNode(c[k - 1], walk[k])
                         ELSE c[k - 1]
  <2> SUFFICES ASSUME NEW k \in D
               PROVE  c[k] = IF walk[k][1] = "NO" THEN J!SetServerNode(c[k - 1], walk[k])
                             ELSE c[k - 1]
    OBVIOUS
  <2>1. 1 .. k \in SUBSET D /\ 1 \in 1 .. k /\ k \in E /\ k - 1 \in E BY <1>0
  <2>2. Highest(1 .. k) = k /\ (1 .. k) \ {k} = 1 .. k - 1 BY <1>0, HighestUpTo
  <2>3. h[1 .. k] = IF walk[k][1] = "NO" THEN J!SetServerNode(h[1 .. k - 1], walk[k])
                    ELSE h[1 .. k - 1]
    BY <1>4, <2>1, <2>2
  <2>4. c[k] = h[1 .. k] /\ c[k - 1] = h[1 .. k - 1] BY <2>1
  <2> QED BY <2>3, <2>4
<1> HIDE DEF Is, c
<1>7. \A k \in D : c[k - 1] \in A => c[k] = f[<<c[k - 1], walk[k]>>] BY <1>0, <1>2, <1>6
<1>8. \A k \in E : c[k] \in A
  <2>1. Chained(n, D, E, A, V, walk, f, c) BY <1>0, <1>1, <1>5, <1>7 DEF Chained
  <2> QED BY <2>1, FoldChain
<1>9. c \in [E -> A] BY <1>8 DEF c
<1> QED BY <1>3, <1>5, <1>6, <1>9 DEF A, ServerChain

NodesChain(c, V, n, D, E, buf, nodes) ==
  /\ c \in [E -> Seq(Toks(V))]
  /\ c[0] = buf /\ c[n] = J!FoldLeft(J!SetFilterNode, buf, nodes)
  /\ \A i \in D : c[i] = J!SetFilterNode(c[i - 1], nodes[i])

\* The nodes of a filter are written one after the other.
LEMMA NodesFold ==
  ASSUME NEW V, <<>> \in V, NEW K, \A k \in K : J!PositionKey(k, 2) \in V,
         NEW buf \in Seq(Toks(V)),
         NEW n, NEW D, NEW E, NEW nodes, Positions(n, D, E, nodes, K)
  PROVE  \E c : NodesChain(c, V, n, D, E, buf, nodes)
<1>0. n \in Nat /\ D = 1 .. n /\ E = 0 .. n /\ nodes \in [D -> K] BY DEF Positions
<1> DEFINE A == Seq(Toks(V))
           f == [q \in A \X K |-> J!SetFilterNode(q[1], q[2])]
           Is(g) == g = [s \in SUBSET D |->
                           IF s = {} THEN buf
                           ELSE J!SetFilterNode(g[s \ {Highest(s)}], nodes[Highest(s)])]
           h == CHOOSE g : Is(g)
<1>1. f \in [A \X K -> A] /\ buf \in A BY ServerNode DEF J!SetFilterNode
<1>2. \A b \in A, k \in K : f[<<b, k>>] = J!SetFilterNode(b, k) OBVIOUS
<1>3. J!FoldLeft(J!SetFilterNode, buf, nodes) = h[D]
  BY <1>0 DEF J!FoldLeft, J!MapThenFoldSet, J!Max, Highest
<1> HIDE DEF f, A
<1>4. Is(h)
  <2>1. PICK g \in [SUBSET D -> A] : Folds(g, f, buf, nodes, D) BY <1>0, <1>1, FoldExists
  <2>2. \A s \in SUBSET D : s # {} => g[s \ {Highest(s)}] \in A /\ nodes[Highest(s)] \in K BY <1>0, HighestOf
  <2>3. \A s \in SUBSET D : s # {} =>
          f[<<g[s \ {Highest(s)}], nodes[Highest(s)]>>] = J!SetFilterNode(g[s \ {Highest(s)}], nodes[Highest(s)])
    BY <1>2, <2>2
  <2>4. Is(g) BY <2>1, <2>3 DEF Folds
  <2> QED BY <2>4
<1> HIDE DEF h
<1> DEFINE c == [k \in E |-> h[1 .. k]]
<1>5. c[0] = buf /\ c[n] = h[D]
  <2>1. 1 .. 0 = {} /\ 0 \in E /\ n \in E BY <1>0
  <2> QED BY <1>0, <1>4, <2>1
<1>6. \A k \in D : c[k] = J!SetFilterNode(c[k - 1], nodes[k])
  <2> SUFFICES ASSUME NEW k \in D PROVE c[k] = J!SetFilterNode(c[k - 1], nodes[k]) OBVIOUS
  <2>1. 1 .. k \in SUBSET D /\ 1 \in 1 .. k /\ k \in E /\ k - 1 \in E BY <1>0
  <2>2. Highest(1 .. k) = k /\ (1 .. k) \ {k} = 1 .. k - 1 BY <1>0, HighestUpTo
  <2>3. h[1 .. k] = J!SetFilterNode(h[1 .. k - 1], nodes[k]) BY <1>4, <2>1, <2>2
  <2>4. c[k] = h[1 .. k] /\ c[k - 1] = h[1 .. k - 1] BY <2>1
  <2> QED BY <2>3, <2>4
<1> HIDE DEF Is, c
<1>7. \A k \in D : c[k - 1] \in A => c[k] = f[<<c[k - 1], nodes[k]>>] BY <1>0, <1>2, <1>6
<1>8. \A k \in E : c[k] \in A
  <2>1. Chained(n, D, E, A, K, nodes, f, c) BY <1>0, <1>1, <1>5, <1>7 DEF Chained
  <2> QED BY <2>1, FoldChain
<1>9. c \in [E -> A] BY <1>8 DEF c
<1> QED BY <1>3, <1>5, <1>6, <1>9 DEF A, NodesChain

LEMMA UpstreamNode ==
  ASSUME NEW V, <<>> \in V, NEW name, J!EscapeJson(name) \in V, NEW buf \in Seq(Toks(V))
  PROVE  /\ J!SetUpstreamNode(buf, name) \in Seq(Toks(V))
         /\ \A stack \in Seq(Brackets), p \in {"[", ","} :
              At(buf, V, Append(stack, "["), p) =>
                Comma(J!SetUpstreamNode(buf, name), V, Append(stack, "["))
<1> DEFINE T == Toks(V)
           a == J!Tok("{")
           b == [t |-> "server", v |-> J!EscapeJson(name)]
           c == J!Tok(",")
           d == J!Tok("members")
           e == J!Tok("}")
<1>1. /\ a \in T /\ b \in T /\ c \in T /\ d \in T /\ e \in T
      /\ a.t = "{" /\ b.t = "server" /\ c.t = "," /\ d.t = "members" /\ e.t = "}"
  <2>1. b \in T /\ b.t = "server" BY DEF Toks, Marks
  <2> QED BY <2>1, Tokens DEF Marks
<1>2. J!SetUpstreamNode(buf, name) = buf \o <<a, b, c, d, e, c>>
  BY DEF J!SetUpstreamNode, J!FMT_UPSTREAM, J!OBJECT_E, J!NEXT
<1> DEFINE t1 == Append(buf, a)
           t2 == Append(t1, b)
           t3 == Append(t2, c)
           t4 == Append(t3, d)
           t5 == Append(t4, e)
           t6 == Append(t5, c)
<1> HIDE DEF a, b, c, d, e, T
<1>3. J!SetUpstreamNode(buf, name) = t6 /\ t6 \in Seq(T)
  <2>0. buf \in Seq(T) BY DEF T
  <2>1. a \in T /\ b \in T /\ c \in T /\ d \in T /\ e \in T BY <1>1
  <2>2. buf \o <<a, b, c, d, e, c>> = (buf \o <<a, b, c, d>>) \o <<e, c>> BY <2>0, <2>1
  <2>3. buf \o <<a, b, c, d>> = t4 /\ t4 \in Seq(T) BY <2>0, <2>1, Spelled
  <2> HIDE DEF t4
  <2>4. t4 \o <<e, c>> = t6 /\ t6 \in Seq(T) BY <2>1, <2>3, Spelled
  <2> QED BY <1>2, <2>2, <2>3, <2>4
<1>4. ASSUME NEW stack \in Seq(Brackets), NEW p \in {"[", ","},
             At(buf, V, Append(stack, "["), p)
      PROVE  Comma(t6, V, Append(stack, "["))
  <2> DEFINE in == Append(stack, "[")
             over == Append(in, "{")
  <2>0. "{" \in Brackets /\ "[" \in Brackets BY DEF Brackets
  <2>1. in \in Seq(Brackets) /\ in # <<>> /\ Last(in) = "[" /\ over \in Seq(Brackets)
        /\ over # <<>> /\ Last(over) = "{"
    BY <2>0, FrontAppend
  <2> HIDE DEF in
  <2>2. At(t1, V, over, "{")
    <3>1. J!Follows(Last(in), p, "{") BY <2>1 DEF J!Follows
    <3> QED BY <1>1, <1>4, <2>0, <2>1, <3>1, AtOpen DEF T, in
  <2>3. At(t2, V, over, "server")
    <3>1. J!Follows(Last(over), "{", "server") BY DEF J!Follows
    <3> QED BY <1>1, <2>1, <2>2, <3>1, AtPlain DEF T
  <2>4. At(t3, V, over, ",")
    <3>1. J!Follows(Last(over), "server", ",") BY DEF J!Follows
    <3> QED BY <1>1, <2>1, <2>3, <3>1, AtPlain DEF T
  <2>5. At(t4, V, over, "members")
    <3>1. J!Follows(Last(over), ",", "members") BY <2>1 DEF J!Follows
    <3> QED BY <1>1, <2>1, <2>4, <3>1, AtPlain DEF T
  <2>6. At(t5, V, in, "}")
    <3>1. J!Follows("{", "members", "}") /\ J!Closes("}") = "{" BY DEF J!Follows, J!Closes
    <3> QED BY <1>1, <2>0, <2>1, <2>5, <3>1, AtClose DEF T
  <2> QED BY <2>1, <2>6 DEF Comma, Ends, J!NEXT, c, in
<1> QED BY <1>3, <1>4 DEF T

AddressesChain(c, V, n, D, E, buf, addrs) ==
  /\ c \in [E -> Seq(Toks(V))]
  /\ c[0] = buf /\ c[n] = J!FoldLeft(J!SetUpstreamNode, buf, addrs)
  /\ \A i \in D : c[i] = J!SetUpstreamNode(c[i - 1], addrs[i])

\* The addresses of an upstream are,
LEMMA AddressesFold ==
  ASSUME NEW V, <<>> \in V, NEW N, \A a \in N : J!EscapeJson(a) \in V,
         NEW buf \in Seq(Toks(V)),
         NEW n, NEW D, NEW E, NEW addrs, Positions(n, D, E, addrs, N)
  PROVE  \E c : AddressesChain(c, V, n, D, E, buf, addrs)
<1>0. n \in Nat /\ D = 1 .. n /\ E = 0 .. n /\ addrs \in [D -> N] BY DEF Positions
<1> DEFINE A == Seq(Toks(V))
           f == [q \in A \X N |-> J!SetUpstreamNode(q[1], q[2])]
           Is(g) == g = [s \in SUBSET D |->
                           IF s = {} THEN buf
                           ELSE J!SetUpstreamNode(g[s \ {Highest(s)}], addrs[Highest(s)])]
           h == CHOOSE g : Is(g)
<1>1. f \in [A \X N -> A] /\ buf \in A BY UpstreamNode
<1>2. \A b \in A, k \in N : f[<<b, k>>] = J!SetUpstreamNode(b, k) OBVIOUS
<1>3. J!FoldLeft(J!SetUpstreamNode, buf, addrs) = h[D]
  BY <1>0 DEF J!FoldLeft, J!MapThenFoldSet, J!Max, Highest
<1> HIDE DEF f, A
<1>4. Is(h)
  <2>1. PICK g \in [SUBSET D -> A] : Folds(g, f, buf, addrs, D) BY <1>0, <1>1, FoldExists
  <2>2. \A s \in SUBSET D : s # {} => g[s \ {Highest(s)}] \in A /\ addrs[Highest(s)] \in N BY <1>0, HighestOf
  <2>3. \A s \in SUBSET D : s # {} =>
          f[<<g[s \ {Highest(s)}], addrs[Highest(s)]>>] = J!SetUpstreamNode(g[s \ {Highest(s)}], addrs[Highest(s)])
    BY <1>2, <2>2
  <2>4. Is(g) BY <2>1, <2>3 DEF Folds
  <2> QED BY <2>4
<1> HIDE DEF h
<1> DEFINE c == [k \in E |-> h[1 .. k]]
<1>5. c[0] = buf /\ c[n] = h[D]
  <2>1. 1 .. 0 = {} /\ 0 \in E /\ n \in E BY <1>0
  <2> QED BY <1>0, <1>4, <2>1
<1>6. \A k \in D : c[k] = J!SetUpstreamNode(c[k - 1], addrs[k])
  <2> SUFFICES ASSUME NEW k \in D PROVE c[k] = J!SetUpstreamNode(c[k - 1], addrs[k]) OBVIOUS
  <2>1. 1 .. k \in SUBSET D /\ 1 \in 1 .. k /\ k \in E /\ k - 1 \in E BY <1>0
  <2>2. Highest(1 .. k) = k /\ (1 .. k) \ {k} = 1 .. k - 1 BY <1>0, HighestUpTo
  <2>3. h[1 .. k] = J!SetUpstreamNode(h[1 .. k - 1], addrs[k]) BY <1>4, <2>1, <2>2
  <2>4. c[k] = h[1 .. k] /\ c[k - 1] = h[1 .. k - 1] BY <2>1
  <2> QED BY <2>3, <2>4
<1> HIDE DEF Is, c
<1>7. \A k \in D : c[k - 1] \in A => c[k] = f[<<c[k - 1], addrs[k]>>] BY <1>0, <1>2, <1>6
<1>8. \A k \in E : c[k] \in A
  <2>1. Chained(n, D, E, A, N, addrs, f, c) BY <1>0, <1>1, <1>5, <1>7 DEF Chained
  <2> QED BY <2>1, FoldChain
<1>9. c \in [E -> A] BY <1>8 DEF c
<1> QED BY <1>3, <1>5, <1>6, <1>9 DEF A, AddressesChain

AloneChain(c, V, n, D, E, buf, walk) ==
  /\ c \in [E -> Seq(Toks(V))]
  /\ c[0] = buf /\ c[n] = J!SetUpstreamAlone(buf, walk)
  /\ \A i \in D : c[i] = IF walk[i][1] = "UA" THEN J!SetUpstreamNode(c[i - 1], J!PositionKey(walk[i], 1)) ELSE c[i - 1]

\* and the upstreams outside of a group.
LEMMA AloneFold ==
  ASSUME NEW V, <<>> \in V, NEW K, \A k \in K : J!EscapeJson(J!PositionKey(k, 1)) \in V,
         NEW buf \in Seq(Toks(V)),
         NEW n, NEW D, NEW E, NEW walk, Positions(n, D, E, walk, K)
  PROVE  \E c : AloneChain(c, V, n, D, E, buf, walk)
<1>0. n \in Nat /\ D = 1 .. n /\ E = 0 .. n /\ walk \in [D -> K] BY DEF Positions
<1> DEFINE A == Seq(Toks(V))
           f == [q \in A \X K |-> IF q[2][1] = "UA" THEN J!SetUpstreamNode(q[1], J!PositionKey(q[2], 1)) ELSE q[1]]
           Is(g) == g = [s \in SUBSET D |->
                           IF s = {} THEN buf
                           ELSE IF walk[Highest(s)][1] = "UA" THEN J!SetUpstreamNode(g[s \ {Highest(s)}], J!PositionKey(walk[Highest(s)], 1)) ELSE g[s \ {Highest(s)}]]
           h == CHOOSE g : Is(g)
<1>1. f \in [A \X K -> A] /\ buf \in A BY UpstreamNode
<1>2. \A b \in A, k \in K : f[<<b, k>>] = IF k[1] = "UA" THEN J!SetUpstreamNode(b, J!PositionKey(k, 1)) ELSE b OBVIOUS
<1>3. J!SetUpstreamAlone(buf, walk) = h[D]
  BY <1>0 DEF J!SetUpstreamAlone, J!FoldLeft, J!MapThenFoldSet, J!Max, Highest
<1> HIDE DEF f, A
<1>4. Is(h)
  <2>1. PICK g \in [SUBSET D -> A] : Folds(g, f, buf, walk, D) BY <1>0, <1>1, FoldExists
  <2>2. \A s \in SUBSET D : s # {} => g[s \ {Highest(s)}] \in A /\ walk[Highest(s)] \in K BY <1>0, HighestOf
  <2>3. \A s \in SUBSET D : s # {} =>
          f[<<g[s \ {Highest(s)}], walk[Highest(s)]>>] = IF walk[Highest(s)][1] = "UA" THEN J!SetUpstreamNode(g[s \ {Highest(s)}], J!PositionKey(walk[Highest(s)], 1)) ELSE g[s \ {Highest(s)}]
    BY <1>2, <2>2
  <2>4. Is(g) BY <2>1, <2>3 DEF Folds
  <2> QED BY <2>4
<1> HIDE DEF h
<1> DEFINE c == [k \in E |-> h[1 .. k]]
<1>5. c[0] = buf /\ c[n] = h[D]
  <2>1. 1 .. 0 = {} /\ 0 \in E /\ n \in E BY <1>0
  <2> QED BY <1>0, <1>4, <2>1
<1>6. \A k \in D : c[k] = IF walk[k][1] = "UA" THEN J!SetUpstreamNode(c[k - 1], J!PositionKey(walk[k], 1)) ELSE c[k - 1]
  <2> SUFFICES ASSUME NEW k \in D PROVE c[k] = IF walk[k][1] = "UA" THEN J!SetUpstreamNode(c[k - 1], J!PositionKey(walk[k], 1)) ELSE c[k - 1] OBVIOUS
  <2>1. 1 .. k \in SUBSET D /\ 1 \in 1 .. k /\ k \in E /\ k - 1 \in E BY <1>0
  <2>2. Highest(1 .. k) = k /\ (1 .. k) \ {k} = 1 .. k - 1 BY <1>0, HighestUpTo
  <2>3. h[1 .. k] = IF walk[k][1] = "UA" THEN J!SetUpstreamNode(h[1 .. k - 1], J!PositionKey(walk[k], 1)) ELSE h[1 .. k - 1] BY <1>4, <2>1, <2>2
  <2>4. c[k] = h[1 .. k] /\ c[k - 1] = h[1 .. k - 1] BY <2>1
  <2> QED BY <2>3, <2>4
<1> HIDE DEF Is, c
<1>7. \A k \in D : c[k - 1] \in A => c[k] = f[<<c[k - 1], walk[k]>>] BY <1>0, <1>2, <1>6
<1>8. \A k \in E : c[k] \in A
  <2>1. Chained(n, D, E, A, K, walk, f, c) BY <1>0, <1>1, <1>5, <1>7 DEF Chained
  <2> QED BY <2>1, FoldChain
<1>9. c \in [E -> A] BY <1>8 DEF c
<1> QED BY <1>3, <1>5, <1>6, <1>9 DEF A, AloneChain

(* Sections: lists that are opened, written item by item, and closed or taken  *)
(* back.                                                                      *)

InObject(stack) == stack \in Seq(Brackets) /\ stack # <<>> /\ Last(stack) = "{"
MemberNext(text, V, stack) ==
  InObject(stack) /\ \E p \in {"{", ","} : At(text, V, stack, p)
Closing(o) == IF o = "{" THEN "}" ELSE "]"

\* An object or an array is opened,
LEMMA OpenSection ==
  ASSUME NEW V, <<>> \in V, NEW name \in V, NEW o \in Brackets, NEW stack, NEW text,
         MemberNext(text, V, stack)
  PROVE  LET opened == text \o <<J!Name(name), J!Tok(o)>>
         IN /\ At(opened, V, Append(stack, o), o) /\ opened # text
            /\ opened \in Seq(Toks(V))
<1> DEFINE T == Toks(V)
           a == J!Name(name)
           b == J!Tok(o)
           t1 == Append(text, a)
           t2 == Append(t1, b)
<1>1. a \in T BY Tokens
<1>2. b \in T BY Tokens DEF Marks, Brackets
<1>3. text \in Seq(T) BY DEF At, MemberNext
<1>4. a.t = "name" /\ b.t = o BY Tokens DEF Marks, Brackets
<1> HIDE DEF a, b, T
<1>5. text \o <<a, b>> = t2 /\ t2 # text /\ t2 \in Seq(T)
  <2>1. text \o <<a, b>> # text /\ text \o <<a, b>> = t2 /\ text \o <<a, b>> \in Seq(T)
    BY <1>1, <1>2, <1>3, SpelledPair
  <2> QED BY <2>1
<1>6. PICK p \in {"{", ","} : At(text, V, stack, p) BY DEF MemberNext
<1>7. At(t1, V, stack, "name")
  <2>1. Last(stack) = "{" /\ stack # <<>> BY DEF InObject, MemberNext
  <2>2. J!Follows(Last(stack), p, "name") BY <2>1 DEF J!Follows
  <2> QED BY <1>1, <1>4, <1>6, <2>1, <2>2, AtPlain DEF T
<1>8. At(t2, V, Append(stack, o), o)
  <2>1. Last(stack) = "{" /\ stack # <<>> BY DEF InObject, MemberNext
  <2>2. J!Follows(Last(stack), "name", o) BY DEF J!Follows, Brackets
  <2> QED BY <1>2, <1>4, <1>7, <2>1, <2>2, AtOpen DEF T
<1> QED BY <1>5, <1>8 DEF a, b, T

\* and closed in place of its last comma,
LEMMA CloseSection ==
  ASSUME NEW V, <<>> \in V, NEW stack \in Seq(Brackets), NEW o \in Brackets, NEW text,
         Comma(text, V, Append(stack, o))
  PROVE  /\ At(Front(text) \o <<J!Tok(Closing(o))>>, V, stack, Closing(o))
         /\ Front(text) \in Seq(Toks(V))
<1> DEFINE over == Append(stack, o)
           T == Toks(V)
           f == Front(text)
           a == J!Tok(Closing(o))
<1>1. over # <<>> /\ Last(over) = o BY FrontAppend
<1> HIDE DEF over
<1>2. PICK p \in Ends(over) : At(f, V, over, p) BY <1>1, CommaReads DEF over
<1>3. a \in T BY Tokens DEF Marks, Closing
<1>4. a.t = Closing(o) BY Tokens DEF Marks, Closing
<1>5. f \in Seq(T) BY <1>2 DEF At
<1> HIDE DEF T, f, a
<1>6. f \o <<a>> = Append(f, a) BY <1>3, <1>5, SpelledPair
<1>7. At(Append(f, a), V, stack, Closing(o))
  <2>1. J!Follows(o, p, Closing(o)) BY <1>1, <1>2 DEF Ends, J!Follows, Closing, Brackets
  <2>2. a.t \in {"}", "]"} /\ J!Closes(a.t) = o BY <1>4 DEF J!Closes, Closing, Brackets
  <2> QED BY <1>2, <1>3, <1>4, <2>1, <2>2, AtClose DEF over, T
<1> QED BY <1>5, <1>6, <1>7 DEF f, a, T

\* and what follows waits behind a comma again.
LEMMA CloseComma ==
  ASSUME NEW V, <<>> \in V, NEW stack, InObject(stack), NEW o \in Brackets, NEW text,
         Comma(text, V, Append(stack, o))
  PROVE  Comma(Front(text) \o <<J!Tok(Closing(o)), J!NEXT>>, V, stack)
<1> DEFINE T == Toks(V)
           f == Front(text)
           x == J!Tok(Closing(o))
           y == J!NEXT
           b == f \o <<x>>
<1>0. stack \in Seq(Brackets) BY DEF InObject
<1>1. At(b, V, stack, Closing(o)) BY <1>0, CloseSection
<1>2. Closing(o) \in Ends(stack) BY DEF Ends, Closing, InObject
<1>3. x \in T BY Tokens DEF Marks, Closing
<1>4. y \in T BY Tokens DEF Marks, J!NEXT
<1>5. f \in Seq(T) BY <1>0, CloseSection
<1> HIDE DEF T, f, x, y
<1>6. f \o <<x, y>> = Append(Append(f, x), y) /\ b = Append(f, x)
  BY <1>3, <1>4, <1>5, SpelledPair
<1>7. f \o <<x, y>> = Append(b, y) BY <1>6
<1> HIDE DEF b
<1> QED BY <1>1, <1>2, <1>7 DEF Comma, f, x, y

\* A list that may still be empty.
Listing(text, buf, V, stack) == text = buf \/ Comma(text, V, stack)

\* Each item of a list is left out, or written where one may stand.
Items(c, n, buf, V, stack) ==
  /\ n \in Nat /\ c[0] = buf
  /\ \A i \in 1 .. n :
       \/ c[i] = c[i - 1]
       \/ Listing(c[i - 1], buf, V, stack) => Comma(c[i], V, stack)

LEMMA ListingItems ==
  ASSUME NEW c, NEW n, NEW buf, NEW V, NEW stack, Items(c, n, buf, V, stack)
  PROVE  /\ \A i \in 0 .. n : Listing(c[i], buf, V, stack)
         /\ \A j \in 1 .. n :
              (Listing(c[j - 1], buf, V, stack) => Comma(c[j], V, stack)) => Comma(c[n], V, stack)
<1> DEFINE T == {i \in 0 .. n : Listing(c[i], buf, V, stack)}
<1>1. n \in Nat /\ 0 \in T BY DEF Items, Listing
<1>2. ASSUME NEW i \in 0 .. n - 1, i \in T PROVE i + 1 \in T
  <2>1. i + 1 \in 1 .. n /\ i + 1 \in 0 .. n /\ (i + 1) - 1 = i BY <1>1
  <2>2. Listing(c[i + 1], buf, V, stack) BY <1>2, <2>1 DEF Items, Listing
  <2> QED BY <2>1, <2>2
<1> HIDE DEF T
<1>3. \A i \in 0 .. n : i \in T BY <1>1, <1>2, InductTo
<1>4. ASSUME NEW j \in 1 .. n, Listing(c[j - 1], buf, V, stack) => Comma(c[j], V, stack)
      PROVE  Comma(c[n], V, stack)
  <2> DEFINE S == {i \in 0 .. n : i >= j => Comma(c[i], V, stack)}
  <2>1. 0 \in S BY <1>1
  <2>2. ASSUME NEW i \in 0 .. n - 1, i \in S PROVE i + 1 \in S
    <3>1. i + 1 \in 1 .. n /\ i + 1 \in 0 .. n /\ (i + 1) - 1 = i /\ i \in 0 .. n BY <1>1
    <3>2. Listing(c[i], buf, V, stack) BY <1>3, <3>1 DEF T
    <3>3. CASE i + 1 = j BY <1>4, <3>1, <3>2, <3>3
    <3>4. CASE i + 1 > j
      <4>1. Comma(c[i], V, stack) BY <2>2, <3>1, <3>4
      <4>2. Comma(c[i + 1], V, stack) BY <3>1, <3>2, <4>1 DEF Items
      <4> QED BY <3>1, <4>2
    <3>5. CASE i + 1 < j BY <3>1, <3>5
    <3> QED BY <3>1, <3>3, <3>4, <3>5
  <2> HIDE DEF S
  <2>3. \A i \in 0 .. n : i \in S BY <1>1, <2>1, <2>2, InductTo
  <2>4. n \in 0 .. n /\ n >= j BY <1>1
  <2> QED BY <2>3, <2>4 DEF S
<1> QED BY <1>3, <1>4 DEF T

LEMMA MemberPlaces ==
  ASSUME NEW V, <<>> \in V, NEW stack, NEW text
  PROVE  /\ InObject(stack) /\ Comma(text, V, stack) => MemberNext(text, V, stack)
         /\ stack \in Seq(Brackets) =>
              /\ InObject(Append(stack, "{"))
              /\ At(text, V, Append(stack, "{"), "{") => MemberNext(text, V, Append(stack, "{"))
<1>1. ASSUME InObject(stack), Comma(text, V, stack) PROVE MemberNext(text, V, stack)
  <2>1. stack # <<>> BY <1>1 DEF InObject
  <2>2. At(text, V, stack, ",") BY <1>1, <2>1, CommaReads
  <2> QED BY <1>1, <2>2 DEF MemberNext
<1>2. ASSUME stack \in Seq(Brackets) PROVE InObject(Append(stack, "{"))
  <2>1. "{" \in Brackets BY DEF Brackets
  <2> QED BY <1>2, <2>1, FrontAppend DEF InObject
<1> QED BY <1>1, <1>2 DEF MemberNext

(* The page begins. *)

LEMMA PageStart ==
  ASSUME NEW V, <<>> \in V
  PROVE  /\ InObject(<<"{">>) /\ <<"{">> = Append(<<>>, "{")
         /\ Comma(J!SetMain(J!FMT_S, J!NoOom), V, <<"{">>)
<1> DEFINE s == <<"{">>
           T == Toks(V)
           z == J!Tok("{")
           a == J!Tok("members")
           b == J!NEXT
           w == <<z>>
<1>1. "{" \in Brackets /\ <<>> \in Seq(Brackets) BY DEF Brackets
<1>2. s = Append(<<>>, "{") OBVIOUS
<1>3. InObject(s) BY <1>1, <1>2, FrontAppend DEF InObject
<1>4. z \in T BY Tokens DEF Marks
<1>5. a \in T BY Tokens DEF Marks
<1>6. b \in T BY Tokens DEF Marks, J!NEXT
<1>7. a.t = "members" BY Tokens DEF Marks
<1>8. w \in Seq(T) /\ w # <<>> /\ w[1] = z /\ Len(w) = 1
  <2> HIDE DEF z, T
  <2> QED BY <1>4
<1>9. At(w, V, s, "{")
  <2>1. Reads(Begun, s, "{")
    <3>1. Begun.ok = TRUE /\ Begun.stack = s /\ Begun.prev = "{" BY DEF Begun
    <3>2. Begun \in Readers
      <4>1. s \in Seq(Brackets) BY <1>3 DEF InObject
      <4> QED BY <4>1 DEF Readers, Begun, Marks
    <3> QED BY <3>1, <3>2 DEF Reads
  <2> DEFINE r == [i \in {1} |-> Begun]
  <2>2. r[1] = Begun OBVIOUS
  <2>3. \A i \in 2 .. 1 : FALSE OBVIOUS
  <2>4. s \in Seq(Brackets) BY <1>3 DEF InObject
  <2> HIDE DEF r, w, s, z
  <2> QED BY <1>8, <2>1, <2>2, <2>3, <2>4 DEF At, z, T
<1>10. At(Append(w, a), V, s, "members")
  <2>1. s # <<>> /\ J!Follows(Last(s), "{", "members") BY <1>3 DEF J!Follows, InObject
  <2>2. a.t \notin {"{", "[", "}", "]"} BY <1>7
  <2>3. a \in Toks(V) BY <1>5
  <2> HIDE DEF w, s, a
  <2>4. J!Follows(Last(s), "{", a.t) BY <1>7, <2>1
  <2>5. At(Append(w, a), V, s, a.t) BY <1>9, <2>1, <2>2, <2>3, <2>4, AtPlain
  <2> QED BY <1>7, <2>5
<1>11. J!SetMain(J!FMT_S, J!NoOom) = w \o <<a, b>>
  BY DEF J!SetMain, J!FMT_S, J!FMT_MAIN, J!NoOom
<1> HIDE DEF w, a, b, T, z
<1>12. w \o <<a, b>> = Append(Append(w, a), b) BY <1>5, <1>6, <1>8, SpelledPair
<1>13. Comma(Append(Append(w, a), b), V, s) BY <1>3, <1>10 DEF Comma, Ends, InObject, b
<1> HIDE DEF s
<1> QED BY <1>2, <1>3, <1>11, <1>12, <1>13 DEF s

(* serverZones *)

LEMMA ServersItems ==
  ASSUME NEW V, <<>> \in V, NEW stack, InObject(stack),
         NEW n \in Nat, NEW D, D = 1 .. n, NEW walk \in [D -> V],
         NEW buf, MemberNext(buf, V, stack)
  PROVE  /\ Listing(J!SetServer(buf, walk), buf, V, stack)
         /\ (\E j \in D : walk[j][1] = "NO") => Comma(J!SetServer(buf, walk), V, stack)
<1> DEFINE E == 0 .. n
<1>1. buf \in Seq(Toks(V)) BY DEF MemberNext, At
<1>8. PICK c : ServerChain(c, V, n, D, E, buf, walk)
  <2>1. Positions(n, D, E, walk, V) BY DEF Positions
  <2> HIDE DEF E
  <2> QED BY <1>1, <2>1, ServerFold
<1>2. /\ c[0] = buf /\ c[n] = J!SetServer(buf, walk) /\ c \in [E -> Seq(Toks(V))]
      /\ \A i \in D :
           c[i] = IF walk[i][1] = "NO" THEN J!SetServerNode(c[i - 1], walk[i]) ELSE c[i - 1]
  BY <1>8 DEF ServerChain
<1>3. PICK under \in Seq(Brackets) : stack = Append(under, "{")
  <2>1. stack = Append(Front(stack), Last(stack)) /\ Front(stack) \in Seq(Brackets)
    BY FrontLastOf DEF InObject
  <2> QED BY <2>1 DEF InObject
<1>4. ASSUME NEW i \in D, walk[i][1] = "NO", Listing(c[i - 1], buf, V, stack)
      PROVE  Comma(c[i], V, stack)
  <2>1. MemberNext(c[i - 1], V, stack) BY <1>4, MemberPlaces DEF Listing
  <2>2. c[i] = J!SetServerNode(c[i - 1], walk[i]) BY <1>2, <1>4
  <2>3. walk[i] \in V /\ c[i - 1] \in Seq(Toks(V)) BY <1>2
  <2>4. PICK p \in {"{", ","} : At(c[i - 1], V, Append(under, "{"), p)
    BY <1>3, <2>1 DEF MemberNext
  <2> DEFINE b == c[i - 1]
             k == walk[i]
  <2>5. Comma(J!SetServerNode(b, k), V, Append(under, "{"))
    <3>1. At(b, V, Append(under, "{"), p) BY <2>4
    <3>2. k \in V /\ b \in Seq(Toks(V)) BY <2>3
    <3> HIDE DEF b, k
    <3> QED BY <3>1, <3>2, ServerNode
  <2> QED BY <1>3, <2>2, <2>5
<1>5. Items(c, n, buf, V, stack) BY <1>2, <1>4 DEF Items
<1>6. Listing(c[n], buf, V, stack) BY <1>5, ListingItems
<1>7. ASSUME NEW j \in D, walk[j][1] = "NO" PROVE Comma(c[n], V, stack)
  BY <1>4, <1>5, <1>7, ListingItems
<1> QED BY <1>2, <1>6, <1>7

LEMMA NodesItems ==
  ASSUME NEW V, <<>> \in V, NEW K, \A k \in K : J!PositionKey(k, 2) \in V,
         NEW stack, InObject(stack),
         NEW n, NEW D, NEW E, NEW nodes, Positions(n, D, E, nodes, K), n # 0,
         NEW buf, MemberNext(buf, V, stack)
  PROVE  Comma(J!FoldLeft(J!SetFilterNode, buf, nodes), V, stack)
<1>0. n \in Nat \ {0} /\ D = 1 .. n /\ E = 0 .. n /\ nodes \in [D -> K] BY DEF Positions
<1>1. buf \in Seq(Toks(V)) BY DEF MemberNext, At
<1>8. PICK c : NodesChain(c, V, n, D, E, buf, nodes) BY <1>1, NodesFold
<1>2. /\ c[0] = buf /\ c[n] = J!FoldLeft(J!SetFilterNode, buf, nodes)
      /\ c \in [E -> Seq(Toks(V))]
      /\ \A i \in D : c[i] = J!SetServerNode(c[i - 1], J!PositionKey(nodes[i], 2))
  BY <1>8 DEF NodesChain, J!SetFilterNode
<1>3. PICK under \in Seq(Brackets) : stack = Append(under, "{")
  <2>1. stack = Append(Front(stack), Last(stack)) /\ Front(stack) \in Seq(Brackets)
    BY FrontLastOf DEF InObject
  <2> QED BY <2>1 DEF InObject
<1>4. ASSUME NEW i \in D, Listing(c[i - 1], buf, V, stack)
      PROVE  Comma(c[i], V, stack)
  <2> DEFINE b == c[i - 1]
             k == J!PositionKey(nodes[i], 2)
  <2>1. MemberNext(b, V, stack) BY <1>4, MemberPlaces DEF Listing
  <2>2. c[i] = J!SetServerNode(b, k) BY <1>2
  <2>3. k \in V /\ b \in Seq(Toks(V))
    <3>1. nodes[i] \in K /\ i - 1 \in E BY <1>0
    <3> QED BY <1>2, <3>1
  <2> HIDE DEF b, k
  <2>4. PICK p \in {"{", ","} : At(b, V, Append(under, "{"), p) BY <1>3, <2>1 DEF MemberNext
  <2>5. Comma(J!SetServerNode(b, k), V, Append(under, "{")) BY <2>3, <2>4, ServerNode
  <2> QED BY <1>3, <2>2, <2>5
<1>5. Items(c, n, buf, V, stack) BY <1>0, <1>2, <1>4 DEF Items
<1>6. 1 \in 1 .. n /\ 1 \in D BY <1>0
<1>7. Comma(c[n], V, stack)
  <2>1. Listing(c[1 - 1], buf, V, stack) => Comma(c[1], V, stack) BY <1>4, <1>6
  <2> QED BY <1>5, <1>6, <2>1, ListingItems
<1> QED BY <1>2, <1>7

InArray(stack) == stack \in Seq(Brackets) /\ stack # <<>> /\ Last(stack) = "["
ElementNext(text, V, stack) == InArray(stack) /\ \E p \in {"[", ","} : At(text, V, stack, p)

LEMMA ElementPlaces ==
  ASSUME NEW V, <<>> \in V, NEW stack, NEW text
  PROVE  /\ InArray(stack) /\ Comma(text, V, stack) => ElementNext(text, V, stack)
         /\ stack \in Seq(Brackets) =>
              /\ InArray(Append(stack, "["))
              /\ At(text, V, Append(stack, "["), "[") => ElementNext(text, V, Append(stack, "["))
<1>1. ASSUME InArray(stack), Comma(text, V, stack) PROVE ElementNext(text, V, stack)
  <2>1. stack # <<>> BY <1>1 DEF InArray
  <2>2. At(text, V, stack, ",") BY <1>1, <2>1, CommaReads
  <2> QED BY <1>1, <2>2 DEF ElementNext
<1>2. ASSUME stack \in Seq(Brackets) PROVE InArray(Append(stack, "["))
  <2>1. "[" \in Brackets BY DEF Brackets
  <2> QED BY <1>2, <2>1, FrontAppend DEF InArray
<1> QED BY <1>1, <1>2 DEF ElementNext

LEMMA ElementWritten ==
  ASSUME NEW V, <<>> \in V, NEW stack, NEW b, ElementNext(b, V, stack),
         NEW a, J!EscapeJson(a) \in V
  PROVE  Comma(J!SetUpstreamNode(b, a), V, stack)
<1>1. PICK under \in Seq(Brackets) : stack = Append(under, "[")
  <2>1. stack = Append(Front(stack), Last(stack)) /\ Front(stack) \in Seq(Brackets)
    BY FrontLastOf DEF ElementNext, InArray
  <2> QED BY <2>1 DEF ElementNext, InArray
<1>2. PICK p \in {"[", ","} : At(b, V, Append(under, "["), p) BY <1>1 DEF ElementNext
<1>3. b \in Seq(Toks(V)) BY <1>2 DEF At
<1>4. Comma(J!SetUpstreamNode(b, a), V, Append(under, "[")) BY <1>2, <1>3, UpstreamNode
<1> QED BY <1>1, <1>4

LEMMA AddressesItems ==
  ASSUME NEW V, <<>> \in V, NEW N, \A a \in N : J!EscapeJson(a) \in V,
         NEW stack, InArray(stack),
         NEW n, NEW D, NEW E, NEW addrs, Positions(n, D, E, addrs, N),
         NEW buf, ElementNext(buf, V, stack)
  PROVE  Listing(J!FoldLeft(J!SetUpstreamNode, buf, addrs), buf, V, stack)
<1>0. n \in Nat /\ D = 1 .. n /\ E = 0 .. n /\ addrs \in [D -> N] BY DEF Positions
<1>1. buf \in Seq(Toks(V)) BY DEF ElementNext, At
<1>8. PICK c : AddressesChain(c, V, n, D, E, buf, addrs) BY <1>1, AddressesFold
<1>2. /\ c[0] = buf /\ c[n] = J!FoldLeft(J!SetUpstreamNode, buf, addrs)
      /\ \A i \in D : c[i] = J!SetUpstreamNode(c[i - 1], addrs[i])
  BY <1>8 DEF AddressesChain
<1>4. ASSUME NEW i \in D, Listing(c[i - 1], buf, V, stack) PROVE Comma(c[i], V, stack)
  <2>1. ElementNext(c[i - 1], V, stack) BY <1>4, ElementPlaces DEF Listing
  <2>2. J!EscapeJson(addrs[i]) \in V BY <1>0
  <2>3. Comma(J!SetUpstreamNode(c[i - 1], addrs[i]), V, stack) BY <2>1, <2>2, ElementWritten
  <2> QED BY <1>2, <2>3
<1>5. Items(c, n, buf, V, stack) BY <1>0, <1>2, <1>4 DEF Items
<1>6. n \in 0 .. n BY <1>0
<1>7. Listing(c[n], buf, V, stack) BY <1>5, <1>6, ListingItems
<1> QED BY <1>2, <1>7

LEMMA AloneItems ==
  ASSUME NEW V, <<>> \in V, NEW K, \A k \in K : J!EscapeJson(J!PositionKey(k, 1)) \in V,
         NEW stack, InArray(stack),
         NEW n, NEW D, NEW E, NEW walk, Positions(n, D, E, walk, K),
         NEW buf, ElementNext(buf, V, stack)
  PROVE  Listing(J!SetUpstreamAlone(buf, walk), buf, V, stack)
<1>0. n \in Nat /\ D = 1 .. n /\ E = 0 .. n /\ walk \in [D -> K] BY DEF Positions
<1>1. buf \in Seq(Toks(V)) BY DEF ElementNext, At
<1>8. PICK c : AloneChain(c, V, n, D, E, buf, walk) BY <1>1, AloneFold
<1>2. /\ c[0] = buf /\ c[n] = J!SetUpstreamAlone(buf, walk)
      /\ \A i \in D : c[i] = IF walk[i][1] = "UA"
                             THEN J!SetUpstreamNode(c[i - 1], J!PositionKey(walk[i], 1))
                             ELSE c[i - 1]
  BY <1>8 DEF AloneChain
<1>4. ASSUME NEW i \in D, walk[i][1] = "UA", Listing(c[i - 1], buf, V, stack)
      PROVE  Comma(c[i], V, stack)
  <2>1. ElementNext(c[i - 1], V, stack) BY <1>4, ElementPlaces DEF Listing
  <2>2. J!EscapeJson(J!PositionKey(walk[i], 1)) \in V BY <1>0
  <2>3. Comma(J!SetUpstreamNode(c[i - 1], J!PositionKey(walk[i], 1)), V, stack)
    BY <2>1, <2>2, ElementWritten
  <2> QED BY <1>2, <1>4, <2>3
<1>5. Items(c, n, buf, V, stack) BY <1>0, <1>2, <1>4 DEF Items
<1>6. n \in 0 .. n BY <1>0
<1>7. Listing(c[n], buf, V, stack) BY <1>5, <1>6, ListingItems
<1> QED BY <1>2, <1>7

(* filterZones *)

LEMMA SelectionOps ==
  /\ \A s, set : J!Kept(s, set) = Kept(s, set)
  /\ \A s : J!FlattenSeq(s) = Flat(s)
BY DEF J!Kept, Kept, J!FlattenSeq, Flat

LEMMA FrontType ==
  ASSUME NEW T, NEW s \in Seq(T)
  PROVE  Front(s) \in Seq(T)
<1>1. \A i \in 1 .. Len(s) - 1 : s[i] \in T
  <2>1. \A i \in 1 .. Len(s) : s[i] \in T BY ElementOfSeq
  <2>2. Len(s) \in Nat BY LenProperties
  <2> QED BY <2>1, <2>2
<1>2. 1 \in Int /\ Len(s) - 1 \in Int BY LenProperties
<1>3. SubSeq(s, 1, Len(s) - 1) \in Seq(T) BY <1>1, <1>2, SubSeqProperties
<1> QED BY <1>3 DEF Front

LEMMA UpToType ==
  ASSUME NEW T, NEW s \in Seq(T), NEW room \in Nat
  PROVE  J!UpTo(s, room) \in Seq(T)
<1> DEFINE m == IF Len(s) <= room THEN Len(s) ELSE room
<1>1. Len(s) \in Nat /\ \A i \in 1 .. Len(s) : s[i] \in T BY ElementOfSeq, LenProperties
<1>2. m \in Int /\ 1 \in Int /\ \A i \in 1 .. m : s[i] \in T BY <1>1
<1>3. J!UpTo(s, room) = SubSeq(s, 1, m) BY DEF J!UpTo
<1> HIDE DEF m
<1>4. SubSeq(s, 1, m) \in Seq(T) BY <1>2, SubSeqProperties
<1> QED BY <1>3, <1>4

LEMMA NodesGot ==
  ASSUME NEW K, NEW nodes \in Seq(K), NEW walk \in Seq(K), NEW name, NEW room \in Nat
  PROVE  J!GetNodes(nodes, name, walk, room).nodes \in Seq(K)
<1> DEFINE set == {k \in J!ToSet(walk) : J!IsFilter(k) /\ J!PositionKey(k, 1) = name}
           got == J!Kept(walk, set)
<1>1. J!GetNodes(nodes, name, walk, room).nodes = nodes \o J!UpTo(got, room) BY DEF J!GetNodes
<1> HIDE DEF set
<1>2. got \in Seq(K) BY SelectionOps, KeptType
<1> HIDE DEF got
<1>3. J!UpTo(got, room) \in Seq(K) BY <1>2, UpToType
<1>4. nodes \o J!UpTo(got, room) \in Seq(K) BY <1>3, ConcatProperties
<1> QED BY <1>1, <1>4

LEMMA SortedNames ==
  ASSUME NEW K, NEW walk \in Seq(K), NEW room \in Nat
  PROVE  J!SortKeys(J!GetKeys(walk, room).names) \in Seq({J!PositionKey(k, 1) : k \in K})
<1> DEFINE X == {J!PositionKey(k, 1) : k \in K}
           keys == J!Kept(walk, {k \in J!ToSet(walk) : J!IsFilter(k)})
           all == [i \in DOMAIN keys |-> J!PositionKey(keys[i], 1)]
           names == J!UpTo(all, room)
           groups == [i \in DOMAIN NameOrder |-> J!Kept(names, {NameOrder[i]})]
<1>1. keys \in Seq(K) BY SelectionOps, KeptType
<1>2. J!GetKeys(walk, room).names = names BY DEF J!GetKeys
<1>3. J!SortKeys(names) = J!FlattenSeq(groups) BY DEF J!SortKeys
<1> HIDE DEF keys
<1>4. all \in Seq(X)
  <2>1. DOMAIN keys = 1 .. Len(keys) /\ Len(keys) \in Nat /\ \A i \in 1 .. Len(keys) : keys[i] \in K
    BY <1>1, LenProperties, ElementOfSeq
  <2>2. all \in [1 .. Len(keys) -> X] BY <2>1
  <2> HIDE DEF all, X
  <2> QED BY <2>1, <2>2, IsASeq
<1> HIDE DEF all, X
<1>5. names \in Seq(X) BY <1>4, UpToType
<1> HIDE DEF names
<1>6. groups \in Seq(Seq(X))
  <2>1. DOMAIN NameOrder = 1 .. Len(NameOrder) /\ Len(NameOrder) \in Nat
    BY ListsAssumption, LenProperties DEF IsList
  <2>2. \A set : J!Kept(names, set) \in Seq(X) BY <1>5, SelectionOps, KeptType
  <2> DEFINE A == Seq(X)
  <2>3. groups \in [1 .. Len(NameOrder) -> A] BY <2>1, <2>2
  <2> HIDE DEF groups, A
  <2>4. groups \in Seq(A) BY <2>1, <2>3, IsASeq
  <2> QED BY <2>4 DEF A
<1> HIDE DEF groups
<1>7. J!FlattenSeq(groups) \in Seq(X) BY <1>6, SelectionOps, FlatType
<1> QED BY <1>2, <1>3, <1>7 DEF X

\* The state of the loop over the filters: what was written is a list of members.
FilterState(V, K, buf, stack) ==
  {acc \in [buf : Seq(Toks(V)), nodes : Seq(K), key : V, calls : Nat] :
     Listing(acc.buf, buf, V, stack)}

ClosedTurn(acc, b, n, k) == [acc EXCEPT !.buf = b, !.nodes = n, !.key = k, !.calls = @ + 1]
PassedTurn(acc, n, k) == [acc EXCEPT !.nodes = n, !.key = k, !.calls = @ + 1]

LEMMA StateChanged ==
  ASSUME NEW B, NEW N, NEW K, NEW acc \in [buf : B, nodes : N, key : K, calls : Nat],
         NEW b \in B, NEW n \in N, NEW k \in K
  PROVE  /\ ClosedTurn(acc, b, n, k) \in [buf : B, nodes : N, key : K, calls : Nat]
         /\ ClosedTurn(acc, b, n, k).buf = b
         /\ PassedTurn(acc, n, k) \in [buf : B, nodes : N, key : K, calls : Nat]
         /\ PassedTurn(acc, n, k).buf = acc.buf
<1> USE DEF ClosedTurn, PassedTurn
<1> DEFINE R == [buf : B, nodes : N, key : K, calls : Nat]
           x1 == [acc EXCEPT !.buf = b]
           x2 == [x1 EXCEPT !.nodes = n]
           x3 == [x2 EXCEPT !.key = k]
           x4 == [x3 EXCEPT !.calls = @ + 1]
           y2 == [acc EXCEPT !.nodes = n]
           y3 == [y2 EXCEPT !.key = k]
           y4 == [y3 EXCEPT !.calls = @ + 1]
<1>1. ClosedTurn(acc, b, n, k) = x4 OBVIOUS
<1>2. PassedTurn(acc, n, k) = y4 OBVIOUS
<1>3. x1 \in R /\ y2 \in R OBVIOUS
<1>4. ClosedTurn(acc, b, n, k).buf = b /\ PassedTurn(acc, n, k).buf = acc.buf
  OBVIOUS
<1> HIDE DEF x1, y2
<1> HIDE DEF ClosedTurn, PassedTurn
<1>5. x2 \in R /\ y3 \in R BY <1>3
<1> HIDE DEF x2, y3
<1>6. x3 \in R /\ y4 \in R BY <1>5
<1> HIDE DEF x3
<1>7. x4 \in R BY <1>6
<1> QED BY <1>1, <1>2, <1>4, <1>6, <1>7

\* What the names of a page are taken from.
NamesIn(V, K) ==
  /\ <<>> \in V
  /\ \A k \in K : /\ J!PositionKey(k, 1) \in V /\ J!PositionKey(k, 2) \in V
                  /\ J!EscapeJson(J!PositionKey(k, 1)) \in V

LEMMA FilterTurn ==
  ASSUME NEW V, NEW K, NamesIn(V, K), NEW stack, InObject(stack), NEW buf,
         MemberNext(buf, V, stack), NEW walk \in Seq(K),
         NEW acc \in FilterState(V, K, buf, stack),
         NEW name \in {J!PositionKey(k, 1) : k \in K}
  PROVE  J!NextFilter(acc, walk, J!NoOom, name) \in FilterState(V, K, buf, stack)
<1> DEFINE got == J!GetNodes(acc.nodes, name, walk,
                             J!Room(J!NoOom, "nodes", acc.calls, Len(walk)))
           nodes == got.nodes
           opened == acc.buf \o J!OBJECT_S(J!EscapeJson(name))
           shown == J!FoldLeft(J!SetFilterNode, opened, nodes)
           closed == Front(shown) \o <<J!OBJECT_E, J!NEXT>>
           inner == Append(stack, "{")
           full == [acc EXCEPT !.buf = closed, !.nodes = <<>>, !.key = name, !.calls = @ + 1]
           bare == [acc EXCEPT !.nodes = nodes, !.key = name, !.calls = @ + 1]
<1>1. /\ acc.buf \in Seq(Toks(V)) /\ acc.nodes \in Seq(K) /\ acc.calls \in Nat
      /\ acc \in [buf : Seq(Toks(V)), nodes : Seq(K), key : V, calls : Nat]
      /\ Listing(acc.buf, buf, V, stack)
  BY DEF FilterState
<1>2. <<>> \in V /\ name \in V /\ J!EscapeJson(name) \in V /\ \A k \in K : J!PositionKey(k, 2) \in V
  BY DEF NamesIn
<1>3. nodes \in Seq(K)
  <2>1. J!Room(J!NoOom, "nodes", acc.calls, Len(walk)) = Len(walk) BY DEF J!Room, J!NoOom
  <2>2. Len(walk) \in Nat BY LenProperties
  <2> DEFINE had == acc.nodes
             room == Len(walk)
  <2>3. had \in Seq(K) /\ room \in Nat BY <1>1, <2>2
  <2> HIDE DEF had, room
  <2>4. J!GetNodes(had, name, walk, room).nodes \in Seq(K) BY <2>3, NodesGot
  <2> QED BY <2>1, <2>4 DEF had, room
<1>4. \/ J!NextFilter(acc, walk, J!NoOom, name) = full /\ nodes # <<>>
      \/ J!NextFilter(acc, walk, J!NoOom, name) = bare
  BY LibraryOps DEF J!NextFilter
<1> HIDE DEF got
<1>5. ASSUME nodes # <<>> PROVE Comma(closed, V, stack)
  <2> DEFINE n == Len(nodes)
             D == 1 .. n
             E == 0 .. n
             over == <<J!Name(J!EscapeJson(name)), J!Tok("{")>>
  <2>1. Positions(n, D, E, nodes, K) /\ n # 0
    BY <1>3, <1>5, LenProperties, EmptySeq DEF Positions
  <2>2. stack \in Seq(Brackets) /\ "{" \in Brackets BY DEF InObject, Brackets
  <2>3. MemberNext(acc.buf, V, stack) BY <1>1, <1>2, MemberPlaces DEF Listing
  <2>4. opened = acc.buf \o over BY DEF J!OBJECT_S
  <2>5. At(opened, V, inner, "{")
    <3> DEFINE b == acc.buf
               e == J!EscapeJson(name)
    <3>1. MemberNext(b, V, stack) /\ e \in V BY <1>2, <2>3
    <3> HIDE DEF b, e
    <3>2. At(b \o <<J!Name(e), J!Tok("{")>>, V, Append(stack, "{"), "{")
      BY <1>2, <2>2, <3>1, OpenSection
    <3> QED BY <2>4, <3>2 DEF b, e
  <2>6. InObject(inner) /\ MemberNext(opened, V, inner) BY <1>2, <2>2, <2>5, MemberPlaces
  <2> HIDE DEF n, D, E, nodes, opened, inner
  <2>7. Comma(shown, V, inner) BY <1>2, <2>1, <2>6, NodesItems
  <2>8. Comma(Front(shown) \o <<J!Tok(Closing("{")), J!NEXT>>, V, stack)
    <3> HIDE DEF shown
    <3> QED BY <1>2, <2>2, <2>7, CloseComma DEF inner
  <2> QED BY <2>8 DEF Closing, J!OBJECT_E
<1>6. CASE J!NextFilter(acc, walk, J!NoOom, name) = full /\ nodes # <<>>
  <2>1. Comma(closed, V, stack) BY <1>5, <1>6
  <2>2. closed \in Seq(Toks(V))
    <3>1. stack # <<>> BY DEF InObject
    <3> HIDE DEF closed
    <3> QED BY <1>2, <2>1, <3>1, CommaReads
  <2> HIDE DEF closed, nodes
  <2>3. full \in [buf : Seq(Toks(V)), nodes : Seq(K), key : V, calls : Nat] /\ full.buf = closed
    <3> DEFINE B == Seq(Toks(V))
               N == Seq(K)
               e == <<>>
    <3>1. acc \in [buf : B, nodes : N, key : V, calls : Nat] BY <1>1
    <3>2. closed \in B BY <2>2
    <3>3. e \in N OBVIOUS
    <3>4. name \in V BY <1>2
    <3>5. full = ClosedTurn(acc, closed, e, name) BY DEF ClosedTurn
    <3> HIDE DEF B, N, e, full
    <3>6. full \in [buf : B, nodes : N, key : V, calls : Nat] /\ full.buf = closed
      BY <3>1, <3>2, <3>3, <3>4, <3>5, StateChanged
    <3> QED BY <3>6 DEF B, N
  <2>4. Listing(full.buf, buf, V, stack) BY <2>1, <2>3 DEF Listing
  <2> HIDE DEF full
  <2> QED BY <1>6, <2>3, <2>4 DEF FilterState
<1>7. CASE J!NextFilter(acc, walk, J!NoOom, name) = bare
  <2> HIDE DEF nodes
  <2>1. bare \in [buf : Seq(Toks(V)), nodes : Seq(K), key : V, calls : Nat] /\ bare.buf = acc.buf
    <3> DEFINE B == Seq(Toks(V))
               N == Seq(K)
    <3>1. acc \in [buf : B, nodes : N, key : V, calls : Nat] BY <1>1
    <3>2. acc.buf \in B BY <1>1
    <3>3. nodes \in N BY <1>3
    <3>4. name \in V BY <1>2
    <3>5. bare = PassedTurn(acc, nodes, name) BY DEF PassedTurn
    <3> HIDE DEF B, N, bare
    <3>6. bare \in [buf : B, nodes : N, key : V, calls : Nat] /\ bare.buf = acc.buf
      BY <3>1, <3>2, <3>3, <3>4, <3>5, StateChanged
    <3> QED BY <3>6 DEF B, N
  <2> HIDE DEF bare
  <2> QED BY <1>1, <1>7, <2>1 DEF FilterState
<1> QED BY <1>4, <1>6, <1>7

FilterStart(buf) == [buf |-> buf, nodes |-> <<>>, key |-> <<>>, calls |-> 0]
FilterLoop(walk, buf, names) ==
  J!FoldLeft(LAMBDA acc, name : IF name = acc.key THEN acc
                                ELSE J!NextFilter(acc, walk, J!NoOom, name),
             FilterStart(buf), names)

LEMMA FilterStarts ==
  ASSUME NEW V, NEW K, NamesIn(V, K), NEW stack, NEW buf, MemberNext(buf, V, stack)
  PROVE  FilterStart(buf) \in FilterState(V, K, buf, stack)
<1>1. buf \in Seq(Toks(V)) /\ <<>> \in V BY DEF MemberNext, At, NamesIn
<1>2. FilterStart(buf) \in [buf : Seq(Toks(V)), nodes : Seq(K), key : V, calls : Nat]
  <2> DEFINE B == Seq(Toks(V))
             N == Seq(K)
             e == <<>>
  <2>1. e \in N /\ buf \in B /\ e \in V BY <1>1
  <2>2. FilterStart(buf) = [buf |-> buf, nodes |-> e, key |-> e, calls |-> 0] BY DEF FilterStart
  <2> HIDE DEF B, N, e
  <2>3. FilterStart(buf) \in [buf : B, nodes : N, key : V, calls : Nat] BY <2>1, <2>2
  <2> QED BY <2>3 DEF B, N
<1>3. FilterStart(buf).buf = buf BY DEF FilterStart
<1> QED BY <1>2, <1>3 DEF FilterState, Listing

LEMMA FiltersFold ==
  ASSUME NEW V, NEW K, NamesIn(V, K), NEW stack, InObject(stack), NEW buf,
         MemberNext(buf, V, stack), NEW walk \in Seq(K), NEW X, X = {J!PositionKey(k, 1) : k \in K},
         NEW n, NEW D, NEW E, NEW names, Positions(n, D, E, names, X)
  PROVE  FilterLoop(walk, buf, names) \in FilterState(V, K, buf, stack)
<1>0. n \in Nat /\ D = 1 .. n /\ E = 0 .. n /\ names \in [D -> X] BY DEF Positions
<1> DEFINE A == FilterState(V, K, buf, stack)
           f == [q \in A \X X |-> (IF q[2] = q[1].key THEN q[1] ELSE J!NextFilter(q[1], walk, J!NoOom, q[2]))]
           Is(g) == g = [s \in SUBSET D |->
                           IF s = {} THEN FilterStart(buf)
                           ELSE (IF names[Highest(s)] = g[s \ {Highest(s)}].key THEN g[s \ {Highest(s)}] ELSE J!NextFilter(g[s \ {Highest(s)}], walk, J!NoOom, names[Highest(s)]))]
           h == CHOOSE g : Is(g)
<1>1. f \in [A \X X -> A] /\ FilterStart(buf) \in A BY FilterTurn, FilterStarts
<1>2. \A b \in A, k \in X : f[<<b, k>>] = (IF k = b.key THEN b ELSE J!NextFilter(b, walk, J!NoOom, k)) OBVIOUS
<1>3. FilterLoop(walk, buf, names) = h[D]
  BY <1>0 DEF FilterLoop, FilterStart, J!FoldLeft, J!MapThenFoldSet, J!Max, Highest
<1> HIDE DEF f, A
<1>4. Is(h)
  <2>1. PICK g \in [SUBSET D -> A] : Folds(g, f, FilterStart(buf), names, D) BY <1>0, <1>1, FoldExists
  <2>2. \A s \in SUBSET D : s # {} => g[s \ {Highest(s)}] \in A /\ names[Highest(s)] \in X BY <1>0, HighestOf
  <2>3. \A s \in SUBSET D : s # {} =>
          f[<<g[s \ {Highest(s)}], names[Highest(s)]>>]
            = (IF names[Highest(s)] = g[s \ {Highest(s)}].key THEN g[s \ {Highest(s)}] ELSE J!NextFilter(g[s \ {Highest(s)}], walk, J!NoOom, names[Highest(s)]))
    BY <1>2, <2>2
  <2>4. Is(g) BY <2>1, <2>3 DEF Folds
  <2> QED BY <2>4
<1> HIDE DEF h
<1> DEFINE c == [k \in E |-> h[1 .. k]]
<1>5. c[0] = FilterStart(buf) /\ c[n] = h[D]
  <2>1. 1 .. 0 = {} /\ 0 \in E /\ n \in E BY <1>0
  <2> QED BY <1>0, <1>4, <2>1
<1>6. \A k \in D : c[k] = (IF names[k] = c[k - 1].key THEN c[k - 1] ELSE J!NextFilter(c[k - 1], walk, J!NoOom, names[k]))
  <2> SUFFICES ASSUME NEW k \in D
               PROVE  c[k] = (IF names[k] = c[k - 1].key THEN c[k - 1] ELSE J!NextFilter(c[k - 1], walk, J!NoOom, names[k]))
    OBVIOUS
  <2>1. 1 .. k \in SUBSET D /\ 1 \in 1 .. k /\ k \in E /\ k - 1 \in E BY <1>0
  <2>2. Highest(1 .. k) = k /\ (1 .. k) \ {k} = 1 .. k - 1 BY <1>0, HighestUpTo
  <2>3. h[1 .. k] = (IF names[k] = h[1 .. k - 1].key THEN h[1 .. k - 1] ELSE J!NextFilter(h[1 .. k - 1], walk, J!NoOom, names[k]))
    BY <1>4, <2>1, <2>2
  <2>4. c[k] = h[1 .. k] /\ c[k - 1] = h[1 .. k - 1] BY <2>1
  <2> QED BY <2>3, <2>4
<1> HIDE DEF Is, c
<1>7. \A k \in D : c[k - 1] \in A => c[k] = f[<<c[k - 1], names[k]>>]
  <2> TAKE k \in D
  <2> HAVE c[k - 1] \in A
  <2>1. names[k] \in X BY <1>0
  <2> DEFINE p == c[k - 1]
             name == names[k]
             next == J!NextFilter(p, walk, J!NoOom, name)
  <2>2. c[k] = (IF name = p.key THEN p ELSE next) BY <1>6
  <2> HIDE DEF p, name
  <2>3. f[<<p, name>>] = (IF name = p.key THEN p ELSE next)
    BY <1>2, <2>1 DEF p, name
  <2> QED BY <2>2, <2>3 DEF p, name
<1>8. \A k \in E : c[k] \in A
  <2>1. Chained(n, D, E, A, X, names, f, c) BY <1>0, <1>1, <1>5, <1>7 DEF Chained
  <2> QED BY <2>1, FoldChain
<1>10. c[n] \in A BY <1>0, <1>8
<1> QED BY <1>3, <1>5, <1>10 DEF A

LEMMA FiltersItems ==
  ASSUME NEW V, NEW K, NamesIn(V, K), NEW stack, InObject(stack), NEW buf,
         MemberNext(buf, V, stack), NEW walk \in Seq(K)
  PROVE  Listing(J!SetFilter(buf, walk, J!NoOom), buf, V, stack)
<1> DEFINE keys == J!GetKeys(walk, Len(walk))
           names == J!SortKeys(keys.names)
           X == {J!PositionKey(k, 1) : k \in K}
           n == Len(names)
           D == 1 .. n
           E == 0 .. n
<1>1. J!Room(J!NoOom, "keys", 0, Len(walk)) = Len(walk) BY DEF J!Room, J!NoOom
<1>2. \/ J!SetFilter(buf, walk, J!NoOom) = buf
      \/ J!SetFilter(buf, walk, J!NoOom) = FilterLoop(walk, buf, names).buf
  BY <1>1 DEF J!SetFilter, FilterLoop, FilterStart
<1>3. names \in Seq(X)
  <2>1. Len(walk) \in Nat BY LenProperties
  <2> QED BY <2>1, SortedNames
<1> HIDE DEF names, keys
<1>4. Positions(n, D, E, names, X) BY <1>3, LenProperties DEF Positions
<1>6. X = {J!PositionKey(k, 1) : k \in K} OBVIOUS
<1> HIDE DEF n, D, E, X
<1>5. FilterLoop(walk, buf, names) \in FilterState(V, K, buf, stack) BY <1>4, <1>6, FiltersFold
<1> QED BY <1>2, <1>5 DEF FilterState, Listing

(* upstreamZones *)

\* The addresses of the configuration.
Servers(u) == ToSet(u.servers)
AddressesOf(u) == ToSet(u.peers) \cup UNION {ToSet(server.addrs) : server \in Servers(u)}
Addresses == UNION {AddressesOf(u) : u \in ToSet(Upstreams)}

UpstreamsIn(V) ==
  /\ <<>> \in V /\ <<"::nogroups">> \in V
  /\ \A u \in ToSet(Upstreams) : u.host \in V
  /\ \A a \in Addresses : J!EscapeJson(a) \in V

LEMMA SeqWider ==
  ASSUME NEW S, NEW T, S \subseteq T, NEW s \in Seq(S)
  PROVE  s \in Seq(T)
<1>1. Len(s) \in Nat /\ DOMAIN s = 1 .. Len(s) /\ \A i \in 1 .. Len(s) : s[i] \in S
  BY ElementOfSeq, LenProperties
<1>2. s \in [1 .. Len(s) -> T]
  <2>1. s = [i \in 1 .. Len(s) |-> s[i]] BY <1>1
  <2>2. \A i \in 1 .. Len(s) : s[i] \in T BY <1>1
  <2> QED BY <2>1, <2>2
<1> QED BY <1>1, <1>2, IsASeq

LEMMA ShownAddresses ==
  ASSUME NEW u \in ToSet(Upstreams)
  PROVE  J!ShownAddrs(u) \in Seq(Addresses)
<1> DEFINE X == Addresses
           set == {us \in J!ToSet(u.servers) : ~u.zone \/ us.backup}
           listed == J!Kept(u.servers, set)
           lists == [j \in DOMAIN listed |-> listed[j].addrs]
           flat == J!FlattenSeq(lists)
           peers == IF u.zone THEN u.peers ELSE <<>>
<1>1. AddressesOf(u) \subseteq X BY DEF Addresses
<1>2. \A server \in Servers(u) : server.addrs \in Seq(X)
  <2> TAKE server \in Servers(u)
  <2>1. server.addrs \in Seq(ToSet(server.addrs)) BY ListsAssumption DEF IsList, Servers
  <2>2. ToSet(server.addrs) \subseteq X BY <1>1 DEF AddressesOf
  <2> HIDE DEF X
  <2> QED BY <2>1, <2>2, SeqWider
<1>3. listed \in Seq(Servers(u))
  <2>1. u.servers \in Seq(Servers(u)) BY ListsAssumption DEF IsList, Servers
  <2> HIDE DEF set
  <2> QED BY <2>1, SelectionOps, KeptType
<1>4. peers \in Seq(X)
  <2>1. u.peers \in Seq(ToSet(u.peers)) BY ListsAssumption DEF IsList
  <2>2. ToSet(u.peers) \subseteq X BY <1>1 DEF AddressesOf
  <2> HIDE DEF X
  <2>3. u.peers \in Seq(X) BY <2>1, <2>2, SeqWider
  <2>4. <<>> \in Seq(X) OBVIOUS
  <2> QED BY <2>3, <2>4
<1>5. J!ShownAddrs(u) = peers \o flat BY DEF J!ShownAddrs
<1> HIDE DEF listed, X
<1>6. lists \in Seq(Seq(X))
  <2> DEFINE A == Seq(X)
             n == Len(listed)
  <2>1. DOMAIN listed = 1 .. n /\ n \in Nat /\ \A i \in 1 .. n : listed[i] \in Servers(u)
    BY <1>3, ElementOfSeq, LenProperties
  <2>2. lists \in [1 .. n -> A] BY <1>2, <2>1
  <2> HIDE DEF lists, A, n
  <2>3. lists \in Seq(A) BY <2>1, <2>2, IsASeq
  <2> QED BY <2>3 DEF A
<1> HIDE DEF lists
<1>7. flat \in Seq(X) BY <1>6, SelectionOps, FlatType
<1> HIDE DEF flat, peers
<1>8. peers \o flat \in Seq(X) BY <1>4, <1>7, ConcatProperties
<1> QED BY <1>5, <1>8 DEF X

\* A list that is closed, or taken back because nothing was written into it.
LEMMA ListClosed ==
  ASSUME NEW V, <<>> \in V, NEW stack, InObject(stack), NEW o \in Brackets,
         NEW buf, NEW before, Listing(before, buf, V, stack),
         NEW opened, NEW text, Listing(text, opened, V, Append(stack, o))
  PROVE  Listing(J!Close(before, opened, text, <<J!Tok(Closing(o)), J!NEXT>>), buf, V, stack)
<1> DEFINE end == <<J!Tok(Closing(o)), J!NEXT>>
<1>1. J!Close(before, opened, text, end)
        = IF text = opened THEN before ELSE Front(text) \o end
  BY LibraryOps DEF J!Close
<1>2. CASE text = opened BY <1>1, <1>2
<1>3. CASE text # opened
  <2>1. Comma(text, V, Append(stack, o)) BY <1>3 DEF Listing
  <2>2. Comma(Front(text) \o end, V, stack) BY <2>1, CloseComma
  <2> QED BY <1>1, <1>3, <2>2 DEF Listing
<1> QED BY <1>2, <1>3

\* The state of the loop over the upstreams.
GroupState(V, buf, stack) ==
  {acc \in [buf : Seq(Toks(V)), keys : Nat, cut : {FALSE}] : Listing(acc.buf, buf, V, stack)}

LEMMA ListingType ==
  ASSUME NEW V, <<>> \in V, NEW stack, InObject(stack), NEW buf \in Seq(Toks(V)),
         NEW text, Listing(text, buf, V, stack)
  PROVE  text \in Seq(Toks(V))
<1>1. stack # <<>> BY DEF InObject
<1>2. CASE text = buf BY <1>2
<1>3. CASE Comma(text, V, stack) BY <1>1, <1>3, CommaReads
<1> QED BY <1>2, <1>3 DEF Listing

\* An array is opened where a member may stand.
LEMMA ArrayOpened ==
  ASSUME NEW V, <<>> \in V, NEW name \in V, NEW stack, NEW buf, MemberNext(buf, V, stack),
         NEW text, Listing(text, buf, V, stack)
  PROVE  ElementNext(text \o J!ARRAY_S(name), V, Append(stack, "["))
<1>1. InObject(stack) BY DEF MemberNext
<1>2. MemberNext(text, V, stack) BY <1>1, MemberPlaces DEF Listing
<1>3. "[" \in Brackets BY DEF Brackets
<1>4. stack \in Seq(Brackets) BY <1>1 DEF InObject
<1>5. At(text \o <<J!Name(name), J!Tok("[")>>, V, Append(stack, "["), "[")
  BY <1>2, <1>3, OpenSection
<1> QED BY <1>4, <1>5, ElementPlaces DEF J!ARRAY_S

LEMMA GroupTurn ==
  ASSUME NEW V, UpstreamsIn(V), NEW stack, NEW buf, MemberNext(buf, V, stack),
         NEW acc \in GroupState(V, buf, stack), NEW u \in ToSet(Upstreams)
  PROVE  J!SetGroup(acc, u, J!NoOom) \in GroupState(V, buf, stack)
<1> DEFINE addrs == J!ShownAddrs(u)
           host == u.host
           had == acc.buf
           opened == had \o J!ARRAY_S(host)
           listed == J!FoldLeft(J!SetUpstreamNode, opened, addrs)
           closed == J!Close(had, opened, listed, <<J!ARRAY_E, J!NEXT>>)
           done == [buf |-> closed, keys |-> acc.keys + Len(addrs), cut |-> FALSE]
           inner == Append(stack, "[")
<1>1. J!SetGroup(acc, u, J!NoOom) = done BY DEF J!SetGroup, J!NoOom
<1>2. <<>> \in V /\ host \in V /\ \A a \in Addresses : J!EscapeJson(a) \in V BY DEF UpstreamsIn
<1>3. addrs \in Seq(Addresses) BY ShownAddresses
<1>4. /\ had \in Seq(Toks(V)) /\ acc.keys \in Nat /\ Listing(had, buf, V, stack)
  BY DEF GroupState
<1>5. InObject(stack) /\ buf \in Seq(Toks(V)) BY DEF MemberNext, At
<1> HIDE DEF addrs, host, had
<1>6. ElementNext(opened, V, inner) BY <1>2, <1>4, ArrayOpened
<1>7. InArray(inner) BY <1>6 DEF ElementNext
<1> DEFINE n == Len(addrs)
           D == 1 .. n
           E == 0 .. n
<1>8. Positions(n, D, E, addrs, Addresses) BY <1>3, LenProperties DEF Positions
<1>9. n \in Nat BY <1>8 DEF Positions
<1> HIDE DEF n, D, E, opened, inner
<1>10. Listing(listed, opened, V, inner) BY <1>2, <1>6, <1>7, <1>8, AddressesItems
<1> HIDE DEF listed
<1>11. Listing(closed, buf, V, stack)
  <2>1. "[" \in Brackets BY DEF Brackets
  <2>2. Listing(listed, opened, V, Append(stack, "[")) BY <1>10 DEF inner
  <2>3. Listing(J!Close(had, opened, listed, <<J!Tok(Closing("[")), J!NEXT>>), buf, V, stack)
    BY <1>2, <1>4, <1>5, <2>1, <2>2, ListClosed
  <2> QED BY <2>3 DEF Closing, J!ARRAY_E
<1> HIDE DEF closed
<1>12. closed \in Seq(Toks(V)) BY <1>2, <1>5, <1>11, ListingType
<1>13. done.buf = closed OBVIOUS
<1>14. done \in [buf : Seq(Toks(V)), keys : Nat, cut : {FALSE}]
  <2>1. acc.keys + n \in Nat BY <1>4, <1>9
  <2> DEFINE B == Seq(Toks(V))
  <2>2. closed \in B BY <1>12
  <2> HIDE DEF B
  <2>3. [buf |-> closed, keys |-> acc.keys + n, cut |-> FALSE] \in [buf : B, keys : Nat, cut : {FALSE}]
    BY <2>1, <2>2
  <2> QED BY <2>3 DEF B, n
<1> QED BY <1>1, <1>11, <1>13, <1>14 DEF GroupState

GroupStart(buf) == [buf |-> buf, keys |-> 0, cut |-> FALSE]
GroupLoop(buf, blocks) ==
  J!FoldLeft(LAMBDA acc, u : IF acc.cut \/ ~J!Shown(u) THEN acc ELSE J!SetGroup(acc, u, J!NoOom),
             GroupStart(buf), blocks)

LEMMA GroupStarts ==
  ASSUME NEW V, NEW stack, NEW buf, MemberNext(buf, V, stack)
  PROVE  GroupStart(buf) \in GroupState(V, buf, stack)
<1>1. buf \in Seq(Toks(V)) BY DEF MemberNext, At
<1> DEFINE B == Seq(Toks(V))
<1>2. buf \in B BY <1>1
<1> HIDE DEF B
<1>3. GroupStart(buf) \in [buf : B, keys : Nat, cut : {FALSE}] /\ GroupStart(buf).buf = buf
  BY <1>2 DEF GroupStart
<1> QED BY <1>3 DEF GroupState, Listing, B

LEMMA GroupsFold ==
  ASSUME NEW V, UpstreamsIn(V), NEW stack, NEW buf, MemberNext(buf, V, stack),
         NEW X, X = ToSet(Upstreams),
         NEW n, NEW D, NEW E, NEW blocks, Positions(n, D, E, blocks, X)
  PROVE  GroupLoop(buf, blocks) \in GroupState(V, buf, stack)
<1>0. n \in Nat /\ D = 1 .. n /\ E = 0 .. n /\ blocks \in [D -> X] BY DEF Positions
<1> DEFINE A == GroupState(V, buf, stack)
           f == [q \in A \X X |-> (IF q[1].cut \/ ~J!Shown(q[2]) THEN q[1] ELSE J!SetGroup(q[1], q[2], J!NoOom))]
           Is(g) == g = [s \in SUBSET D |->
                           IF s = {} THEN GroupStart(buf)
                           ELSE (IF g[s \ {Highest(s)}].cut \/ ~J!Shown(blocks[Highest(s)]) THEN g[s \ {Highest(s)}] ELSE J!SetGroup(g[s \ {Highest(s)}], blocks[Highest(s)], J!NoOom))]
           h == CHOOSE g : Is(g)
<1>1. f \in [A \X X -> A] /\ GroupStart(buf) \in A BY GroupTurn, GroupStarts
<1>2. \A b \in A, k \in X : f[<<b, k>>] = (IF b.cut \/ ~J!Shown(k) THEN b ELSE J!SetGroup(b, k, J!NoOom)) OBVIOUS
<1>3. GroupLoop(buf, blocks) = h[D]
  BY <1>0 DEF GroupLoop, GroupStart, J!FoldLeft, J!MapThenFoldSet, J!Max, Highest
<1> HIDE DEF f, A
<1>4. Is(h)
  <2>1. PICK g \in [SUBSET D -> A] : Folds(g, f, GroupStart(buf), blocks, D) BY <1>0, <1>1, FoldExists
  <2>2. \A s \in SUBSET D : s # {} => g[s \ {Highest(s)}] \in A /\ blocks[Highest(s)] \in X BY <1>0, HighestOf
  <2>3. \A s \in SUBSET D : s # {} =>
          f[<<g[s \ {Highest(s)}], blocks[Highest(s)]>>]
            = (IF g[s \ {Highest(s)}].cut \/ ~J!Shown(blocks[Highest(s)]) THEN g[s \ {Highest(s)}] ELSE J!SetGroup(g[s \ {Highest(s)}], blocks[Highest(s)], J!NoOom))
    BY <1>2, <2>2
  <2>4. Is(g) BY <2>1, <2>3 DEF Folds
  <2> QED BY <2>4
<1> HIDE DEF h
<1> DEFINE c == [k \in E |-> h[1 .. k]]
<1>5. c[0] = GroupStart(buf) /\ c[n] = h[D]
  <2>1. 1 .. 0 = {} /\ 0 \in E /\ n \in E BY <1>0
  <2> QED BY <1>0, <1>4, <2>1
<1>6. \A k \in D : c[k] = (IF c[k - 1].cut \/ ~J!Shown(blocks[k]) THEN c[k - 1] ELSE J!SetGroup(c[k - 1], blocks[k], J!NoOom))
  <2> SUFFICES ASSUME NEW k \in D
               PROVE  c[k] = (IF c[k - 1].cut \/ ~J!Shown(blocks[k]) THEN c[k - 1] ELSE J!SetGroup(c[k - 1], blocks[k], J!NoOom))
    OBVIOUS
  <2>1. 1 .. k \in SUBSET D /\ 1 \in 1 .. k /\ k \in E /\ k - 1 \in E BY <1>0
  <2>2. Highest(1 .. k) = k /\ (1 .. k) \ {k} = 1 .. k - 1 BY <1>0, HighestUpTo
  <2>3. h[1 .. k] = (IF h[1 .. k - 1].cut \/ ~J!Shown(blocks[k]) THEN h[1 .. k - 1] ELSE J!SetGroup(h[1 .. k - 1], blocks[k], J!NoOom))
    BY <1>4, <2>1, <2>2
  <2>4. c[k] = h[1 .. k] /\ c[k - 1] = h[1 .. k - 1] BY <2>1
  <2> QED BY <2>3, <2>4
<1> HIDE DEF Is, c
<1>7. \A k \in D : c[k - 1] \in A => c[k] = f[<<c[k - 1], blocks[k]>>] BY <1>0, <1>2, <1>6
<1>8. \A k \in E : c[k] \in A
  <2>1. Chained(n, D, E, A, X, blocks, f, c) BY <1>0, <1>1, <1>5, <1>7 DEF Chained
  <2> QED BY <2>1, FoldChain
<1>10. c[n] \in A BY <1>0, <1>8
<1> QED BY <1>3, <1>5, <1>10 DEF A

\* Items of upstreamZones: the shown upstreams, then those outside of a group.
LEMMA GroupsItems ==
  ASSUME NEW V, UpstreamsIn(V), NEW K, \A k \in K : J!EscapeJson(J!PositionKey(k, 1)) \in V,
         NEW stack, NEW buf, MemberNext(buf, V, stack),
         NEW n, NEW D, NEW E, NEW walk, Positions(n, D, E, walk, K)
  PROVE  Listing(J!SetUpstreamGroup(buf, walk, J!NoOom), buf, V, stack)
<1> DEFINE groups == GroupLoop(buf, Upstreams)
           had == groups.buf
           opened == had \o J!ARRAY_S(<<"::nogroups">>)
           alone == J!SetUpstreamAlone(opened, walk)
           closed == J!Close(had, opened, alone, <<J!ARRAY_E, J!NEXT>>)
           inner == Append(stack, "[")
<1>1. groups \in GroupState(V, buf, stack)
  <2> DEFINE X == ToSet(Upstreams)
             m == Len(Upstreams)
             F == 1 .. m
             G == 0 .. m
  <2>1. Upstreams \in Seq(X) BY ListsAssumption DEF IsList
  <2>2. Positions(m, F, G, Upstreams, X) BY <2>1, LenProperties DEF Positions
  <2>3. X = ToSet(Upstreams) OBVIOUS
  <2> HIDE DEF X, m, F, G
  <2> QED BY <2>2, <2>3, GroupsFold
<1>2. J!SetUpstreamGroup(buf, walk, J!NoOom) = IF groups.cut THEN had ELSE closed
  BY DEF J!SetUpstreamGroup, J!NoOom, GroupLoop, GroupStart
<1> HIDE DEF groups
<1>3. groups.cut = FALSE /\ Listing(had, buf, V, stack) BY <1>1 DEF GroupState
<1> HIDE DEF had
<1>4. InObject(stack) BY DEF MemberNext
<1>5. <<>> \in V /\ <<"::nogroups">> \in V BY DEF UpstreamsIn
<1>6. ElementNext(opened, V, inner) BY <1>3, <1>5, ArrayOpened
<1> HIDE DEF opened, inner
<1>7. InArray(inner) BY <1>6 DEF ElementNext
<1>8. Listing(alone, opened, V, inner) BY <1>5, <1>6, <1>7, AloneItems
<1> HIDE DEF alone
<1>9. Listing(closed, buf, V, stack)
  <2>1. "[" \in Brackets BY DEF Brackets
  <2>2. Listing(alone, opened, V, Append(stack, "[")) BY <1>8 DEF inner
  <2>3. Listing(J!Close(had, opened, alone, <<J!Tok(Closing("[")), J!NEXT>>), buf, V, stack)
    BY <1>3, <1>4, <1>5, <2>1, <2>2, ListClosed
  <2> QED BY <2>3 DEF Closing, J!ARRAY_E
<1> QED BY <1>2, <1>3, <1>9

(* The page. *)

TextsIn(V, K) ==
  /\ K \subseteq V /\ NamesIn(V, K) /\ UpstreamsIn(V)
  /\ <<"serverZones">> \in V /\ <<"filterZones">> \in V /\ <<"upstreamZones">> \in V

\* An object is opened where a member may stand.
LEMMA ObjectOpened ==
  ASSUME NEW V, <<>> \in V, NEW name \in V, NEW stack, InObject(stack),
         NEW text, Comma(text, V, stack)
  PROVE  MemberNext(text \o J!OBJECT_S(name), V, Append(stack, "{"))
<1>1. MemberNext(text, V, stack) BY MemberPlaces
<1>2. "{" \in Brackets BY DEF Brackets
<1>3. stack \in Seq(Brackets) BY DEF InObject
<1>4. At(text \o <<J!Name(name), J!Tok("{")>>, V, Append(stack, "{"), "{")
  BY <1>1, <1>2, OpenSection
<1> QED BY <1>3, <1>4, MemberPlaces DEF J!OBJECT_S

LEMMA ServersWritten ==
  ASSUME NEW V, <<>> \in V, <<"serverZones">> \in V, NEW stack, InObject(stack),
         NEW n, NEW D, NEW E, NEW walk, Positions(n, D, E, walk, V),
         \E j \in D : walk[j][1] = "NO",
         NEW buf, Comma(buf, V, stack)
  PROVE  Comma(J!ServersSection(buf, walk), V, stack)
<1> DEFINE name == <<"serverZones">>
           opened == buf \o J!OBJECT_S(name)
           text == J!SetServer(opened, walk)
           inner == Append(stack, "{")
<1>1. J!ServersSection(buf, walk) = Front(text) \o <<J!OBJECT_E, J!NEXT>>
  BY LibraryOps DEF J!ServersSection, J!FMT_SERVER_S
<1> HIDE DEF name
<1>2. MemberNext(opened, V, inner) BY ObjectOpened DEF name
<1> HIDE DEF opened, inner
<1>3. InObject(inner) BY <1>2 DEF MemberNext
<1>4. n \in Nat /\ D = 1 .. n /\ walk \in [D -> V] BY DEF Positions
<1>5. Comma(text, V, inner) BY <1>2, <1>3, <1>4, ServersItems
<1> HIDE DEF text
<1>6. "{" \in Brackets BY DEF Brackets
<1>7. Comma(text, V, Append(stack, "{")) BY <1>5 DEF inner
<1>8. Comma(Front(text) \o <<J!Tok(Closing("{")), J!NEXT>>, V, stack)
  BY <1>6, <1>7, CloseComma
<1> QED BY <1>1, <1>8 DEF Closing, J!OBJECT_E

LEMMA FiltersWritten ==
  ASSUME NEW V, NEW K, NamesIn(V, K), <<"filterZones">> \in V, NEW stack, InObject(stack),
         NEW walk \in Seq(K), NEW buf, Comma(buf, V, stack)
  PROVE  Comma(J!FiltersSection(buf, walk, J!NoOom), V, stack)
<1> DEFINE name == <<"filterZones">>
           opened == buf \o J!OBJECT_S(name)
           text == J!SetFilter(opened, walk, J!NoOom)
           inner == Append(stack, "{")
<1>1. J!FiltersSection(buf, walk, J!NoOom) = J!Close(buf, opened, text, <<J!OBJECT_E, J!NEXT>>)
  BY DEF J!FiltersSection, J!FMT_FILTER_S
<1>2. <<>> \in V BY DEF NamesIn
<1> HIDE DEF name
<1>3. MemberNext(opened, V, inner) BY <1>2, ObjectOpened DEF name
<1> HIDE DEF opened, inner
<1>4. InObject(inner) BY <1>3 DEF MemberNext
<1>5. Listing(text, opened, V, inner) BY <1>3, <1>4, FiltersItems
<1> HIDE DEF text
<1>6. "{" \in Brackets BY DEF Brackets
<1>7. Listing(buf, buf, V, stack) BY DEF Listing
<1>8. Listing(text, opened, V, Append(stack, "{")) BY <1>5 DEF inner
<1>9. Listing(J!Close(buf, opened, text, <<J!Tok(Closing("{")), J!NEXT>>), buf, V, stack)
  BY <1>2, <1>6, <1>7, <1>8, ListClosed
<1> QED BY <1>1, <1>9 DEF Closing, J!OBJECT_E, Listing

\* upstreamZones ends without a comma, and takes back the one before it if it is empty.
LEMMA UpstreamsWritten ==
  ASSUME NEW V, UpstreamsIn(V), <<"upstreamZones">> \in V,
         NEW K, \A k \in K : J!EscapeJson(J!PositionKey(k, 1)) \in V,
         NEW stack, InObject(stack),
         NEW n, NEW D, NEW E, NEW walk, Positions(n, D, E, walk, K),
         NEW buf, Comma(buf, V, stack)
  PROVE  \E p \in Ends(stack) : At(J!UpstreamsSection(buf, walk, J!NoOom), V, stack, p)
<1> DEFINE name == <<"upstreamZones">>
           opened == buf \o J!OBJECT_S(name)
           text == J!SetUpstreamGroup(opened, walk, J!NoOom)
           inner == Append(stack, "{")
           whole == J!UpstreamsSection(buf, walk, J!NoOom)
<1>1. whole = IF text = opened THEN Front(buf) ELSE Front(text) \o <<J!OBJECT_E>>
  BY LibraryOps DEF J!UpstreamsSection, J!FMT_UPSTREAM_S, J!Close
<1> HIDE DEF whole
<1>2. <<>> \in V BY DEF UpstreamsIn
<1> HIDE DEF name
<1>3. MemberNext(opened, V, inner) BY <1>2, ObjectOpened DEF name
<1> HIDE DEF opened, inner
<1>4. Listing(text, opened, V, inner) BY <1>3, GroupsItems
<1> HIDE DEF text
<1>5. "{" \in Brackets BY DEF Brackets
<1>6. stack \in Seq(Brackets) /\ stack # <<>> BY DEF InObject
<1>7. CASE text = opened
  <2>1. \E p \in Ends(stack) : At(Front(buf), V, stack, p) BY <1>2, <1>6, CommaReads
  <2> QED BY <1>1, <1>7, <2>1 DEF whole
<1>8. CASE text # opened
  <2>1. Comma(text, V, Append(stack, "{")) BY <1>4, <1>8 DEF Listing, inner
  <2>2. At(Front(text) \o <<J!Tok(Closing("{"))>>, V, stack, Closing("{"))
    BY <1>2, <1>5, <1>6, <2>1, CloseSection
  <2>3. Closing("{") \in Ends(stack) BY DEF Closing, Ends, InObject
  <2>4. whole = Front(text) \o <<J!Tok(Closing("{"))>> BY <1>1, <1>8 DEF Closing, J!OBJECT_E
  <2> QED BY <2>2, <2>3, <2>4 DEF whole
<1> QED BY <1>7, <1>8

LEMMA PageWritten ==
  ASSUME NEW V, NEW K, TextsIn(V, K), NEW n, NEW D, NEW E, NEW walk, Positions(n, D, E, walk, K),
         \E j \in D : walk[j][1] = "NO"
  PROVE  At(J!DisplaySet(walk, J!NoOom), V, <<>>, "}")
<1> DEFINE s == <<"{">>
           start == J!SetMain(J!FMT_S, J!NoOom)
           servers == J!ServersSection(start, walk)
           filters == J!FiltersSection(servers, walk, J!NoOom)
           upstreams == J!UpstreamsSection(filters, walk, J!NoOom)
           z == J!OBJECT_E
<1>1. J!DisplaySet(walk, J!NoOom) = upstreams \o <<z>> BY DEF J!DisplaySet
<1>2. /\ NamesIn(V, K) /\ UpstreamsIn(V) /\ <<>> \in V
      /\ <<"serverZones">> \in V /\ <<"filterZones">> \in V /\ <<"upstreamZones">> \in V
      /\ \A k \in K : J!EscapeJson(J!PositionKey(k, 1)) \in V
  BY DEF TextsIn, NamesIn
<1>3. InObject(s) /\ s = Append(<<>>, "{") /\ Comma(start, V, s) BY <1>2, PageStart
<1> HIDE DEF s, start
<1>4. Positions(n, D, E, walk, V) BY DEF Positions, TextsIn
<1>5. walk \in Seq(K) BY IsASeq DEF Positions
<1>6. Comma(servers, V, s) BY <1>2, <1>3, <1>4, ServersWritten
<1> HIDE DEF servers
<1>7. Comma(filters, V, s) BY <1>2, <1>3, <1>5, <1>6, FiltersWritten
<1> HIDE DEF filters
<1>8. PICK p \in Ends(s) : At(upstreams, V, s, p) BY <1>2, <1>3, <1>7, UpstreamsWritten
<1> HIDE DEF upstreams
<1>9. z \in Toks(V) /\ z.t = "}" BY <1>2, Tokens DEF Marks, J!OBJECT_E
<1>10. At(Append(upstreams, z), V, <<>>, "}")
  <2>1. "{" \in Brackets /\ <<>> \in Seq(Brackets) BY DEF Brackets
  <2>2. J!Closes("}") = "{" BY DEF J!Closes
  <2>3. J!Follows("{", p, "}")
    <3>1. p \in {"}", "]", "members"} BY <1>3, <1>8 DEF Ends, InObject
    <3>2. Last(s) = "{" BY <1>3 DEF InObject
    <3> QED BY <1>8, <3>2 DEF J!Follows, Ends
  <2>4. z.t \in {"}", "]"} /\ J!Closes(z.t) = "{" /\ J!Follows("{", p, z.t) BY <1>9, <2>2, <2>3
  <2>5. At(upstreams, V, Append(<<>>, "{"), p) BY <1>3, <1>8
  <2>6. z \in Toks(V) BY <1>9
  <2> DEFINE e == <<>>
             o == "{"
  <2>7. e \in Seq(Brackets) /\ o \in Brackets /\ At(upstreams, V, Append(e, o), p) BY <2>1, <2>5
  <2> HIDE DEF z, e
  <2>8. At(Append(upstreams, z), V, e, z.t) BY <2>4, <2>6, <2>7, AtClose
  <2> QED BY <1>9, <2>8 DEF e
<1>11. upstreams \o <<z>> = Append(upstreams, z)
  <2>1. upstreams \in Seq(Toks(V)) BY <1>8 DEF At
  <2>2. z \in Toks(V) BY <1>9
  <2> DEFINE T == Toks(V)
  <2>3. upstreams \in Seq(T) /\ z \in T BY <2>1, <2>2
  <2> HIDE DEF T, z
  <2> QED BY <2>3, SpelledPair
<1> QED BY <1>1, <1>10, <1>11

(* The reader's fold over the text. *)

ReadChain(c, n, D, E, text) ==
  /\ c \in [E -> Readers]
  /\ c[0] = Begun /\ c[n] = J!FoldLeft(J!ReadTok, Begun, text)
  /\ \A i \in D : c[i] = J!ReadTok(c[i - 1], text[i])

LEMMA ReadTokType ==
  ASSUME NEW V, NEW st \in Readers, NEW tok \in Toks(V)
  PROVE  J!ReadTok(st, tok) \in Readers
<1>1. tok.t \in Marks BY DEF Toks
<1>2. st.stack \in Seq(Brackets) /\ st.ok \in BOOLEAN /\ st.prev \in Marks BY DEF Readers
<1>3. [st EXCEPT !.ok = FALSE] \in Readers BY DEF Readers
<1>4. ASSUME tok.t \in Brackets
      PROVE  [st EXCEPT !.stack = Append(@, tok.t), !.prev = tok.t] \in Readers
  <2> DEFINE more == Append(st.stack, tok.t)
  <2>1. more \in Seq(Brackets) BY <1>2, <1>4, FrontAppend
  <2> HIDE DEF more
  <2>2. [st EXCEPT !.stack = more, !.prev = tok.t] \in Readers BY <1>1, <2>1 DEF Readers
  <2> QED BY <2>2 DEF more
<1>5. [st EXCEPT !.ok = Last(st.stack) = J!Closes(tok.t), !.stack = Front(@), !.prev = tok.t] \in Readers
  <2> DEFINE less == Front(st.stack)
             good == Last(st.stack) = J!Closes(tok.t)
  <2>1. less \in Seq(Brackets) BY <1>2, FrontType
  <2>2. good \in BOOLEAN OBVIOUS
  <2> HIDE DEF less, good
  <2>3. [st EXCEPT !.ok = good, !.stack = less, !.prev = tok.t] \in Readers
    BY <1>1, <2>1, <2>2 DEF Readers
  <2> QED BY <2>3 DEF less, good
<1>6. [st EXCEPT !.prev = tok.t] \in Readers BY <1>1 DEF Readers
<1>7. \/ J!ReadTok(st, tok) = [st EXCEPT !.ok = FALSE]
      \/ tok.t \in Brackets /\ J!ReadTok(st, tok) = [st EXCEPT !.stack = Append(@, tok.t), !.prev = tok.t]
      \/ J!ReadTok(st, tok) = [st EXCEPT !.ok = Last(st.stack) = J!Closes(tok.t), !.stack = Front(@),
                                         !.prev = tok.t]
      \/ J!ReadTok(st, tok) = [st EXCEPT !.prev = tok.t]
  BY LibraryOps DEF J!ReadTok, J!Opens, Brackets
<1> QED BY <1>3, <1>4, <1>5, <1>6, <1>7

LEMMA BegunReads == Begun \in Readers
<1>1. <<"{">> \in Seq(Brackets)
  <2>1. "{" \in Brackets BY DEF Brackets
  <2> DEFINE o == "{"
  <2>2. o \in Brackets BY <2>1
  <2> HIDE DEF o
  <2>3. <<o>> \in Seq(Brackets) BY <2>2
  <2> QED BY <2>3 DEF o
<1> QED BY <1>1 DEF Begun, Readers, Marks

LEMMA ReadFold ==
  ASSUME NEW V, NEW X, X = Toks(V),
         NEW n, NEW D, NEW E, NEW text, Positions(n, D, E, text, X)
  PROVE  \E c : ReadChain(c, n, D, E, text)
<1>0. n \in Nat /\ D = 1 .. n /\ E = 0 .. n /\ text \in [D -> X] BY DEF Positions
<1> DEFINE A == Readers
           f == [q \in A \X X |-> J!ReadTok(q[1], q[2])]
           Is(g) == g = [s \in SUBSET D |->
                           IF s = {} THEN Begun
                           ELSE J!ReadTok(g[s \ {Highest(s)}], text[Highest(s)])]
           h == CHOOSE g : Is(g)
<1>1. f \in [A \X X -> A] /\ Begun \in A BY ReadTokType, BegunReads
<1>2. \A b \in A, k \in X : f[<<b, k>>] = J!ReadTok(b, k) OBVIOUS
<1>3. J!FoldLeft(J!ReadTok, Begun, text) = h[D]
  BY <1>0 DEF J!FoldLeft, J!MapThenFoldSet, J!Max, Highest
<1> HIDE DEF f, A
<1>4. Is(h)
  <2>1. PICK g \in [SUBSET D -> A] : Folds(g, f, Begun, text, D) BY <1>0, <1>1, FoldExists
  <2>2. \A s \in SUBSET D : s # {} => g[s \ {Highest(s)}] \in A /\ text[Highest(s)] \in X BY <1>0, HighestOf
  <2>3. \A s \in SUBSET D : s # {} =>
          f[<<g[s \ {Highest(s)}], text[Highest(s)]>>]
            = J!ReadTok(g[s \ {Highest(s)}], text[Highest(s)])
    BY <1>2, <2>2
  <2>4. Is(g) BY <2>1, <2>3 DEF Folds
  <2> QED BY <2>4
<1> HIDE DEF h
<1> DEFINE c == [k \in E |-> h[1 .. k]]
<1>5. c[0] = Begun /\ c[n] = h[D]
  <2>1. 1 .. 0 = {} /\ 0 \in E /\ n \in E BY <1>0
  <2> QED BY <1>0, <1>4, <2>1
<1>6. \A k \in D : c[k] = J!ReadTok(c[k - 1], text[k])
  <2> SUFFICES ASSUME NEW k \in D
               PROVE  c[k] = J!ReadTok(c[k - 1], text[k])
    OBVIOUS
  <2>1. 1 .. k \in SUBSET D /\ 1 \in 1 .. k /\ k \in E /\ k - 1 \in E BY <1>0
  <2>2. Highest(1 .. k) = k /\ (1 .. k) \ {k} = 1 .. k - 1 BY <1>0, HighestUpTo
  <2>3. h[1 .. k] = J!ReadTok(h[1 .. k - 1], text[k])
    BY <1>4, <2>1, <2>2
  <2>4. c[k] = h[1 .. k] /\ c[k - 1] = h[1 .. k - 1] BY <2>1
  <2> QED BY <2>3, <2>4
<1> HIDE DEF Is, c
<1>7. \A k \in D : c[k - 1] \in A => c[k] = f[<<c[k - 1], text[k]>>] BY <1>0, <1>2, <1>6
<1>8. \A k \in E : c[k] \in A
  <2>1. Chained(n, D, E, A, X, text, f, c) BY <1>0, <1>1, <1>5, <1>7 DEF Chained
  <2> QED BY <2>1, FoldChain
<1>9. c \in [E -> A] BY <1>8 DEF c
<1> QED BY <1>3, <1>5, <1>6, <1>9 DEF A, ReadChain

\* A text that was read to its end.
ReadWhole(text, V) == At(text, V, <<>>, "}")

LEMMA ReadBack ==
  ASSUME NEW V, NEW text, ReadWhole(text, V)
  PROVE  J!Nested(text)
<1> DEFINE rest == Tail(text)
           m == Len(text)
           n == m - 1
           D == 1 .. n
           E == 0 .. n
           X == Toks(V)
<1>1. text \in Seq(X) /\ text # <<>> /\ text[1] = J!Tok("{") BY DEF At, ReadWhole
<1>2. m \in Nat \ {0} /\ n = m - 1 BY <1>1, EmptySeq, LenProperties
<1>3. /\ rest \in Seq(X) /\ Len(rest) = n /\ \A i \in D : rest[i] = text[i + 1]
  <2>0. text \in Seq(X) /\ text # <<>> BY <1>1
  <2> HIDE DEF X
  <2>1. /\ Tail(text) \in Seq(X) /\ Len(Tail(text)) = Len(text) - 1
        /\ \A i \in 1 .. Len(Tail(text)) : Tail(text)[i] = text[i + 1]
    BY <2>0, HeadTailProperties
  <2> QED BY <2>1
<1>4. PICK r : /\ r[1] = Begun
               /\ \A i \in 2 .. m : r[i] = J!ReadTok(r[i - 1], text[i])
               /\ \E last : Reads(r[m], <<>>, last)
  BY DEF At, ReadWhole
<1>5. Positions(n, D, E, rest, X) BY <1>2, <1>3, LenProperties DEF Positions
<1> HIDE DEF rest, m, n
<1>6. PICK c : ReadChain(c, n, D, E, rest)
  <2>1. X = Toks(V) OBVIOUS
  <2> HIDE DEF D, E, X, n
  <2> QED BY <1>5, <2>1, ReadFold
<1>7. /\ c[0] = Begun /\ c[n] = J!FoldLeft(J!ReadTok, Begun, rest)
      /\ \A i \in D : c[i] = J!ReadTok(c[i - 1], rest[i])
  BY <1>6 DEF ReadChain
<1>8. \A i \in 0 .. n : c[i] = r[i + 1]
  <2> DEFINE T == {i \in 0 .. n : c[i] = r[i + 1]}
  <2>1. n \in Nat /\ 0 \in T BY <1>2, <1>4, <1>7
  <2>2. ASSUME NEW i \in 0 .. n - 1, i \in T PROVE i + 1 \in T
    <3>1. i + 1 \in D /\ (i + 1) - 1 = i /\ i + 1 \in 0 .. n BY <1>2
    <3>2. c[i + 1] = J!ReadTok(c[i], rest[i + 1]) BY <1>7, <3>1
    <3> DEFINE k == i + 2
    <3>3. k \in 2 .. m /\ k - 1 = i + 1 /\ (i + 1) + 1 = k BY <1>2
    <3>4. rest[i + 1] = text[k] BY <1>3, <3>1, <3>3
    <3>5. r[k] = J!ReadTok(r[i + 1], text[k]) BY <1>4, <3>3
    <3>6. c[i] = r[i + 1] BY <2>2
    <3>7. c[i + 1] = r[k] BY <3>2, <3>4, <3>5, <3>6
    <3> QED BY <3>1, <3>3, <3>7
  <2> HIDE DEF T
  <2>3. \A i \in 0 .. n : i \in T BY <2>1, <2>2, InductTo
  <2> QED BY <2>3 DEF T
<1>9. c[n] = r[m]
  <2>1. n \in 0 .. n /\ n + 1 = m BY <1>2
  <2> QED BY <1>8, <2>1
<1> DEFINE end == J!FoldLeft(J!ReadTok, Begun, rest)
<1>10. end.ok /\ end.stack = <<>> BY <1>4, <1>7, <1>9 DEF Reads
<1> QED BY <1>1, <1>10 DEF J!Nested, Begun, rest

(* The lines of a Prometheus page. *)

\* What is picked of a text.
Picked(text, pick, table) == Mapped(Kept(text, pick), table)

LEMMA PickedType ==
  ASSUME NEW A, NEW Q, NEW pick, NEW table, IsTable(table, A, Q), NEW text \in Seq(A)
  PROVE  Picked(text, pick, table) \in Seq(Q)
<1> DEFINE k == Kept(text, pick)
<1>1. k \in Seq(A) BY KeptType
<1> HIDE DEF k
<1>2. Mapped(k, table) \in Seq(Q) BY <1>1, MappedType
<1> QED BY <1>2 DEF Picked, k

\* text is s with t behind it.
Behind(s, t, A, text) == s \in Seq(A) /\ t \in Seq(A) /\ text = s \o t

LEMMA PickedBehind ==
  ASSUME NEW A, NEW Q, NEW pick, NEW table, IsTable(table, A, Q),
         NEW s, NEW t, NEW text, Behind(s, t, A, text)
  PROVE  Behind(Picked(s, pick, table), Picked(t, pick, table), Q, Picked(text, pick, table))
<1> DEFINE k == Kept(s, pick)
           l == Kept(t, pick)
<1>1. s \in Seq(A) /\ t \in Seq(A) /\ text = s \o t BY DEF Behind
<1>2. k \in Seq(A) /\ l \in Seq(A) BY <1>1, KeptType
<1>3. Kept(text, pick) = k \o l BY <1>1, KeptConcat
<1> HIDE DEF k, l
<1>4. Mapped(k \o l, table) = Mapped(k, table) \o Mapped(l, table) BY <1>2, MappedConcat
<1>5. Mapped(k, table) \in Seq(Q) /\ Mapped(l, table) \in Seq(Q) BY <1>2, MappedType
<1> QED BY <1>3, <1>4, <1>5 DEF Behind, Picked, k, l

\* A text that grows by a piece for each element of a sequence that is in a set.
Grows(c, n, D, E, A, buf, walk, S, pieces) ==
  /\ c \in [E -> Seq(A)] /\ c[0] = buf
  /\ \A i \in D : IF walk[i] \in S THEN Behind(c[i - 1], pieces[walk[i]], A, c[i])
                  ELSE c[i] = c[i - 1]

\* A piece that shows one name of its element,
LEMMA PiecesShown ==
  ASSUME NEW n, NEW D, NEW E, NEW walk, NEW K, Positions(n, D, E, walk, K),
         NEW c, NEW A, NEW buf, NEW S \in SUBSET K, NEW pieces,
         Grows(c, n, D, E, A, buf, walk, S, pieces),
         NEW Q, NEW pick, NEW table, IsTable(table, A, Q), NEW name, IsTable(name, K, Q),
         \A k \in S : Picked(pieces[k], pick, table) = <<name[k]>>
  PROVE  Behind(Picked(buf, pick, table), Picked(walk, S, name), Q, Picked(c[n], pick, table))
<1>0. n \in Nat /\ D = 1 .. n /\ E = 0 .. n /\ walk \in [D -> K] BY DEF Positions
<1>1. walk \in Seq(K) BY <1>0, IsASeq
<1>2. Len(walk) = n
  <2>1. DOMAIN walk = 1 .. n BY <1>0
  <2> QED BY <1>0, <1>1, <2>1, LenProperties
<1>3. PICK d : /\ \A i \in 0 .. n : d[i] \in Seq(K)
               /\ KeptUpTo(walk, S, d, n) /\ Kept(walk, S) = d[n]
  BY <1>1, <1>2, KeptSteps
<1> DEFINE base == Picked(buf, pick, table)
           T == {i \in 0 .. n : Picked(c[i], pick, table) = base \o Mapped(d[i], name)}
<1>4. buf \in Seq(A) /\ base \in Seq(Q)
  <2>1. 0 \in E BY <1>0
  <2>2. buf \in Seq(A) BY <2>1 DEF Grows
  <2> QED BY <2>2, PickedType
<1>5. 0 \in T
  <2>1. c[0] = buf /\ d[0] = <<>> /\ 0 \in 0 .. n BY <1>0, <1>3 DEF Grows, KeptUpTo
  <2>2. Mapped(<<>>, name) = <<>> BY DEF Mapped
  <2> HIDE DEF base
  <2>3. base \o <<>> = base BY <1>4
  <2> QED BY <2>1, <2>2, <2>3 DEF base
<1>6. ASSUME NEW i \in 0 .. n - 1, i \in T PROVE i + 1 \in T
  <2> DEFINE x == walk[i + 1]
             b == d[i]
             text == c[i]
             more == pieces[x]
             m == Mapped(b, name)
  <2>1. i + 1 \in 1 .. n /\ i + 1 \in 0 .. n /\ (i + 1) - 1 = i /\ i \in 0 .. n BY <1>0
  <2>2. IF x \in S THEN Behind(text, more, A, c[i + 1]) ELSE c[i + 1] = text
    BY <1>0, <2>1 DEF Grows
  <2>3. d[i + 1] = IF x \in S THEN Append(b, x) ELSE b BY <1>3, <2>1 DEF KeptUpTo
  <2>4. text \in Seq(A) BY <1>0, <2>1 DEF Grows
  <2>5. b \in Seq(K) BY <1>3, <2>1
  <2>6. x \in K BY <1>0, <2>1
  <2>7. Picked(text, pick, table) = base \o m BY <1>6
  <2>8. CASE x \notin S BY <2>1, <2>2, <2>3, <2>7, <2>8
  <2>9. CASE x \in S
    <3> DEFINE both == c[i + 1]
    <3>1. Behind(text, more, A, both) BY <2>2, <2>9
    <3>2. Picked(more, pick, table) = <<name[x]>> BY <2>9
    <3>3. name[x] \in Q BY <2>6 DEF IsTable
    <3> HIDE DEF x, b, text, more, both, T, base
    <3>4. Picked(both, pick, table) = (base \o m) \o <<name[x]>>
      <4>1. Behind(Picked(text, pick, table), Picked(more, pick, table), Q, Picked(both, pick, table))
        BY <3>1, PickedBehind
      <4> QED BY <2>7, <3>2, <4>1 DEF Behind
    <3>5. Mapped(Append(b, x), name) = Append(m, name[x]) /\ m \in Seq(Q)
      BY <2>5, <2>6, MappedAppend, MappedType
    <3>6. (base \o m) \o <<name[x]>> = base \o Append(m, name[x])
      <4> DEFINE y == name[x]
      <4>1. y \in Q BY <3>3
      <4>2. base \in Seq(Q) BY <1>4
      <4>3. m \in Seq(Q) BY <3>5
      <4> HIDE DEF y, m
      <4>4. base \o m \in Seq(Q) BY <4>2, <4>3, ConcatProperties
      <4>5. (base \o m) \o <<y>> = Append(base \o m, y) BY <4>1, <4>4
      <4>6. base \o Append(m, y) = Append(base \o m, y) BY <4>1, <4>2, <4>3, AppendBehind
      <4> QED BY <4>5, <4>6 DEF y
    <3>7. Picked(c[i + 1], pick, table) = base \o Mapped(d[i + 1], name)
      BY <2>3, <2>9, <3>4, <3>5, <3>6 DEF both
    <3> QED BY <2>1, <3>7 DEF T
  <2> QED BY <2>8, <2>9
<1> HIDE DEF T
<1>7. \A i \in 0 .. n : i \in T BY <1>0, <1>5, <1>6, InductTo
<1>8. n \in 0 .. n BY <1>0
<1>9. Picked(c[n], pick, table) = base \o Mapped(d[n], name) BY <1>7, <1>8 DEF T
<1>10. Mapped(d[n], name) \in Seq(Q)
  <2> DEFINE last == d[n]
  <2>1. last \in Seq(K) BY <1>3, <1>8
  <2> HIDE DEF last
  <2>2. Mapped(last, name) \in Seq(Q) BY <2>1, MappedType
  <2> QED BY <2>2 DEF last
<1> HIDE DEF base
<1>11. Picked(walk, S, name) = Mapped(d[n], name) BY <1>3 DEF Picked
<1>12. base \in Seq(Q) BY <1>4
<1> QED BY <1>9, <1>10, <1>11, <1>12 DEF Behind, base

\* or none of them,
LEMMA PiecesHidden ==
  ASSUME NEW n, NEW D, NEW E, NEW walk, NEW K, Positions(n, D, E, walk, K),
         NEW c, NEW A, NEW buf, NEW S \in SUBSET K, NEW pieces,
         Grows(c, n, D, E, A, buf, walk, S, pieces),
         NEW Q, NEW pick, NEW table, IsTable(table, A, Q),
         \A k \in S : Picked(pieces[k], pick, table) = <<>>
  PROVE  Picked(c[n], pick, table) = Picked(buf, pick, table)
<1>0. n \in Nat /\ D = 1 .. n /\ E = 0 .. n /\ walk \in [D -> K] BY DEF Positions
<1> DEFINE base == Picked(buf, pick, table)
           T == {i \in 0 .. n : Picked(c[i], pick, table) = base}
<1>1. 0 \in T BY <1>0 DEF Grows
<1>2. ASSUME NEW i \in 0 .. n - 1, i \in T PROVE i + 1 \in T
  <2> DEFINE x == walk[i + 1]
             text == c[i]
             more == pieces[x]
  <2>1. i + 1 \in 1 .. n /\ i + 1 \in 0 .. n /\ (i + 1) - 1 = i /\ i \in 0 .. n BY <1>0
  <2>2. IF x \in S THEN Behind(text, more, A, c[i + 1]) ELSE c[i + 1] = text
    BY <1>0, <2>1 DEF Grows
  <2>3. text \in Seq(A) BY <1>0, <2>1 DEF Grows
  <2>4. Picked(text, pick, table) = base BY <1>2
  <2>5. CASE x \notin S BY <2>1, <2>2, <2>4, <2>5
  <2>6. CASE x \in S
    <3> DEFINE both == c[i + 1]
    <3>1. Behind(text, more, A, both) BY <2>2, <2>6
    <3>2. Picked(more, pick, table) = <<>> BY <2>6
    <3> HIDE DEF x, text, more, both, T, base
    <3>3. Picked(both, pick, table) = base \o <<>>
      <4>1. Behind(Picked(text, pick, table), Picked(more, pick, table), Q, Picked(both, pick, table))
        BY <3>1, PickedBehind
      <4> QED BY <2>4, <3>2, <4>1 DEF Behind
    <3>4. base \in Seq(Q) BY <2>3, <2>4, PickedType
    <3>5. base \o <<>> = base BY <3>4
    <3> QED BY <2>1, <3>3, <3>5 DEF T, both
  <2> QED BY <2>5, <2>6
<1> HIDE DEF T
<1>3. \A i \in 0 .. n : i \in T BY <1>0, <1>1, <1>2, InductTo
<1>4. n \in 0 .. n BY <1>0
<1> QED BY <1>3, <1>4 DEF T

(* Lines of a Prometheus page. *)

\* text declares the families of H, each once and before its samples, and no others.
Declares(text, A, H) ==
  /\ text \in Seq(A) /\ P!FamiliesDeclared(text)
  /\ \A f \in H : \E j \in DOMAIN text : text[j] = P!Help(f)
  /\ \A j \in DOMAIN text : text[j].t = "help" => \E f \in H : text[j] = P!Help(f)

\* more has samples only, of the families of G.
SamplesOf(more, A, G) ==
  more \in Seq(A) /\ \A i \in DOMAIN more : more[i].t = "sample" /\ more[i].fam \in G

\* more declares the families of G, each once.
HelpsOf(more, A, G) ==
  /\ more \in Seq(A)
  /\ \A i \in DOMAIN more : \E f \in G : more[i] = P!Help(f)
  /\ \A f \in G : \E i \in DOMAIN more : more[i] = P!Help(f)
  /\ \A i, j \in DOMAIN more : more[i] = more[j] => i = j

\* The positions of two texts, one behind the other.
LEMMA BehindAt ==
  ASSUME NEW A, NEW s, NEW t, NEW text, Behind(s, t, A, text)
  PROVE  /\ text \in Seq(A) /\ Len(s) \in Nat /\ Len(t) \in Nat
         /\ DOMAIN text = 1 .. Len(s) + Len(t)
         /\ DOMAIN s = 1 .. Len(s) /\ DOMAIN t = 1 .. Len(t)
         /\ \A i \in 1 .. Len(s) : text[i] = s[i]
         /\ \A i \in 1 .. Len(s) + Len(t) : i > Len(s) => text[i] = t[i - Len(s)]
<1>1. s \in Seq(A) /\ t \in Seq(A) /\ text = s \o t BY DEF Behind
<1>2. text \in Seq(A) /\ Len(text) = Len(s) + Len(t)
      /\ \A i \in 1 .. Len(s) + Len(t) : text[i] = IF i <= Len(s) THEN s[i] ELSE t[i - Len(s)]
  BY <1>1, ConcatProperties
<1>3. Len(s) \in Nat /\ Len(t) \in Nat /\ DOMAIN s = 1 .. Len(s) /\ DOMAIN t = 1 .. Len(t)
  BY <1>1, LenProperties
<1>4. DOMAIN text = 1 .. Len(text) BY <1>2, LenProperties
<1> QED BY <1>2, <1>3, <1>4

LEMMA SamplesBehind ==
  ASSUME NEW A, NEW s, NEW t, NEW text, Behind(s, t, A, text),
         NEW H, Declares(s, A, H), NEW G, SamplesOf(t, A, G),
         \A f \in G : f \in H \/ f = <<"collector">>
  PROVE  Declares(text, A, H)
<1> DEFINE n == Len(s)
           m == Len(t)
<1>1. /\ text \in Seq(A) /\ n \in Nat /\ m \in Nat
      /\ DOMAIN text = 1 .. n + m /\ DOMAIN s = 1 .. n /\ DOMAIN t = 1 .. m
      /\ \A i \in 1 .. n : text[i] = s[i]
      /\ \A i \in 1 .. n + m : i > n => text[i] = t[i - n]
  BY BehindAt
<1> HIDE DEF n, m
<1>2. \A i \in 1 .. n + m : i > n => text[i].t = "sample" /\ text[i].fam \in G
  BY <1>1 DEF SamplesOf
<1>3. \A f \in H : \E j \in 1 .. n : text[j] = P!Help(f) BY <1>1 DEF Declares
<1>4. ASSUME NEW i \in 1 .. n + m, P!IsSample(text[i])
      PROVE  \E j \in 1 .. i - 1 : text[j] = P!Help(text[i].fam)
  <2>1. CASE i <= n
    <3>1. i \in 1 .. n /\ text[i] = s[i] BY <1>1, <2>1
    <3>2. PICK j \in 1 .. i - 1 : s[j] = P!Help(s[i].fam)
      BY <1>1, <1>4, <3>1 DEF Declares, P!FamiliesDeclared
    <3>3. j \in 1 .. n /\ text[j] = s[j] BY <1>1, <3>1, <3>2
    <3> QED BY <3>1, <3>2, <3>3
  <2>2. CASE i > n
    <3>1. text[i].fam \in H BY <1>2, <1>4, <2>2 DEF P!IsSample
    <3>2. PICK j \in 1 .. n : text[j] = P!Help(text[i].fam) BY <1>3, <3>1
    <3>3. j \in 1 .. i - 1 BY <1>1, <2>2, <3>2
    <3> QED BY <3>2, <3>3
  <2> QED BY <1>1, <2>1, <2>2
<1>5. ASSUME NEW j \in 1 .. n + m, text[j].t = "help" PROVE j \in 1 .. n /\ text[j] = s[j]
  <2>1. ~(j > n) BY <1>2, <1>5
  <2> QED BY <1>1, <2>1
<1>6. \A i, j \in 1 .. n + m : text[i].t = "help" /\ text[i] = text[j] => i = j
  <2> SUFFICES ASSUME NEW i \in 1 .. n + m, NEW j \in 1 .. n + m, text[i].t = "help",
                      text[i] = text[j]
               PROVE  i = j
    OBVIOUS
  <2>1. i \in 1 .. n /\ j \in 1 .. n /\ text[i] = s[i] /\ text[j] = s[j] BY <1>5
  <2> QED BY <1>1, <2>1 DEF Declares, P!FamiliesDeclared
<1>7. P!FamiliesDeclared(text) BY <1>1, <1>4, <1>6 DEF P!FamiliesDeclared
<1>8. \A j \in 1 .. n + m : text[j].t = "help" => \E f \in H : text[j] = P!Help(f)
  BY <1>1, <1>5 DEF Declares
<1>9. \A f \in H : \E j \in 1 .. n + m : text[j] = P!Help(f) BY <1>1, <1>3
<1> QED BY <1>1, <1>7, <1>8, <1>9 DEF Declares

LEMMA HelpsBehind ==
  ASSUME NEW A, NEW s, NEW t, NEW text, Behind(s, t, A, text),
         NEW H, Declares(s, A, H), NEW G, HelpsOf(t, A, G), G \cap H = {}
  PROVE  Declares(text, A, H \cup G)
<1> DEFINE n == Len(s)
           m == Len(t)
<1>1. /\ text \in Seq(A) /\ n \in Nat /\ m \in Nat
      /\ DOMAIN text = 1 .. n + m /\ DOMAIN s = 1 .. n /\ DOMAIN t = 1 .. m
      /\ \A i \in 1 .. n : text[i] = s[i]
      /\ \A i \in 1 .. n + m : i > n => text[i] = t[i - n]
  BY BehindAt
<1> HIDE DEF n, m
<1>2. \A f : P!Help(f).t = "help" /\ P!Help(f).fam = f BY DEF P!Help
<1>3. \A i \in 1 .. n + m : i > n => i - n \in 1 .. m BY <1>1
<1>4. \A i \in 1 .. n + m : i > n => \E f \in G : text[i] = P!Help(f)
  BY <1>1, <1>3 DEF HelpsOf
<1>5. \A i \in 1 .. n : text[i].t = "help" => \E f \in H : text[i] = P!Help(f)
  BY <1>1 DEF Declares
<1>6. ASSUME NEW i \in 1 .. n + m, P!IsSample(text[i])
      PROVE  \E j \in 1 .. i - 1 : text[j] = P!Help(text[i].fam)
  <2>1. i <= n
    <3>1. text[i].t # "help" BY <1>6 DEF P!IsSample
    <3>2. ~(i > n) BY <1>2, <1>4, <3>1
    <3> QED BY <1>1, <3>2
  <2>2. i \in 1 .. n /\ text[i] = s[i] BY <1>1, <2>1
  <2>3. PICK j \in 1 .. i - 1 : s[j] = P!Help(s[i].fam)
    BY <1>1, <1>6, <2>2 DEF Declares, P!FamiliesDeclared
  <2>4. j \in 1 .. n /\ text[j] = s[j] BY <1>1, <2>2, <2>3
  <2> QED BY <2>2, <2>3, <2>4
<1>7. \A i, j \in 1 .. n + m : text[i].t = "help" /\ text[i] = text[j] => i = j
  <2> SUFFICES ASSUME NEW i \in 1 .. n + m, NEW j \in 1 .. n + m, text[i].t = "help",
                      text[i] = text[j]
               PROVE  i = j
    OBVIOUS
  <2>1. CASE i \in 1 .. n /\ j \in 1 .. n
    <3>1. text[i] = s[i] /\ text[j] = s[j] BY <1>1, <2>1
    <3> QED BY <1>1, <2>1, <3>1 DEF Declares, P!FamiliesDeclared
  <2>2. CASE i > n /\ j > n
    <3>1. i - n \in 1 .. m /\ j - n \in 1 .. m /\ t[i - n] = t[j - n] BY <1>1, <1>3, <2>2
    <3>2. i - n = j - n BY <1>1, <3>1 DEF HelpsOf
    <3> QED BY <1>1, <3>2
  <2>3. \A a, b \in 1 .. n + m : a \in 1 .. n /\ b > n /\ text[a].t = "help" => text[a] # text[b]
    BY <1>2, <1>4, <1>5
  <2> QED BY <1>1, <2>1, <2>2, <2>3
<1>8. P!FamiliesDeclared(text) BY <1>1, <1>6, <1>7 DEF P!FamiliesDeclared
<1>9. \A j \in 1 .. n + m : text[j].t = "help" => \E f \in H \cup G : text[j] = P!Help(f)
  BY <1>1, <1>4, <1>5
<1>10. \A f \in H \cup G : \E j \in 1 .. n + m : text[j] = P!Help(f)
  <2> SUFFICES ASSUME NEW f \in H \cup G PROVE \E j \in 1 .. n + m : text[j] = P!Help(f)
    OBVIOUS
  <2>1. CASE f \in H
    <3>1. PICK j \in 1 .. n : s[j] = P!Help(f) BY <1>1, <2>1 DEF Declares
    <3> QED BY <1>1, <3>1
  <2>2. CASE f \in G
    <3>1. PICK i \in 1 .. m : t[i] = P!Help(f) BY <1>1, <2>2 DEF HelpsOf
    <3>2. n + i \in 1 .. n + m /\ n + i > n /\ (n + i) - n = i BY <1>1, <3>1
    <3>3. text[n + i] = P!Help(f) BY <1>1, <3>1, <3>2
    <3> QED BY <3>2, <3>3
  <2> QED BY <2>1, <2>2
<1> QED BY <1>1, <1>8, <1>9, <1>10 DEF Declares

\* The labels of the samples of a family, in order.
Shown(text, A, fam) ==
  Picked(text, {l \in A : l.t = "sample" /\ l.fam = fam}, [l \in A |-> l.labels])

\* The lines of A have their labels in L.
LinesIn(A, L) == IsTable([l \in A |-> l.labels], A, L)

LEMMA NotShown ==
  ASSUME NEW A, NEW text \in Seq(A), NEW fam,
         \A i \in DOMAIN text : ~(text[i].t = "sample" /\ text[i].fam = fam)
  PROVE  Shown(text, A, fam) = <<>>
<1> DEFINE pick == {l \in A : l.t = "sample" /\ l.fam = fam}
           table == [l \in A |-> l.labels]
<1>1. \A j \in 1 .. Len(text) : text[j] \notin pick BY LenProperties
<1> HIDE DEF pick, table
<1>2. Kept(text, pick) = <<>> BY <1>1, KeptNone
<1>3. Mapped(<<>>, table) = <<>> BY DEF Mapped
<1> QED BY <1>2, <1>3 DEF Shown, Picked, pick, table

\* Line j is the only sample of a family.
OnlySample(text, A, fam, j) ==
  /\ text \in Seq(A) /\ j \in DOMAIN text
  /\ \A i \in DOMAIN text : text[i].t = "sample" /\ text[i].fam = fam <=> i = j

LEMMA ShownOnce ==
  ASSUME NEW A, NEW L, LinesIn(A, L), NEW text, NEW fam, NEW j, OnlySample(text, A, fam, j)
  PROVE  Shown(text, A, fam) = <<text[j].labels>>
<1> DEFINE pick == {l \in A : l.t = "sample" /\ l.fam = fam}
           table == [l \in A |-> l.labels]
           line == text[j]
<1>0. text \in Seq(A) /\ j \in DOMAIN text BY DEF OnlySample
<1>1. DOMAIN text = 1 .. Len(text) /\ \A i \in 1 .. Len(text) : text[i] \in A
  BY <1>0, LenProperties, ElementOfSeq
<1>2. \A i \in 1 .. Len(text) : text[i] \in pick <=> i = j BY <1>1 DEF OnlySample
<1>3. line \in A /\ table[line] = text[j].labels BY <1>0, <1>1
<1>4. IsTable(table, A, L) BY DEF LinesIn
<1> HIDE DEF pick, table
<1>5. Kept(text, pick) = <<line>> BY <1>0, <1>1, <1>2, KeptOne
<1> HIDE DEF line
<1>6. Mapped(<<line>>, table) = <<table[line]>> BY <1>3, <1>4, MappedShort
<1> QED BY <1>3, <1>5, <1>6 DEF Shown, Picked, pick, table

LEMMA ShownBehind ==
  ASSUME NEW A, NEW L, LinesIn(A, L), NEW s, NEW t, NEW text, Behind(s, t, A, text), NEW fam
  PROVE  Behind(Shown(s, A, fam), Shown(t, A, fam), L, Shown(text, A, fam))
<1> DEFINE pick == {l \in A : l.t = "sample" /\ l.fam = fam}
           table == [l \in A |-> l.labels]
<1>1. IsTable(table, A, L) BY DEF LinesIn
<1> HIDE DEF pick, table
<1>2. Behind(Picked(s, pick, table), Picked(t, pick, table), L, Picked(text, pick, table))
  BY <1>1, PickedBehind
<1> QED BY <1>2 DEF Shown, pick, table

LEMMA HiddenBehind ==
  ASSUME NEW A, NEW L, LinesIn(A, L), NEW s, NEW t, NEW text, Behind(s, t, A, text), NEW fam,
         Shown(t, A, fam) = <<>>
  PROVE  Shown(text, A, fam) = Shown(s, A, fam)
<1> DEFINE x == Shown(s, A, fam)
           y == Shown(t, A, fam)
           z == Shown(text, A, fam)
<1>1. Behind(x, y, L, z) BY ShownBehind
<1>2. y = <<>> OBVIOUS
<1> HIDE DEF x, y, z
<1>3. z = x BY <1>1, <1>2 DEF Behind
<1> QED BY <1>3 DEF x, z

LEMMA SamplesHidden ==
  ASSUME NEW A, NEW text, NEW G, SamplesOf(text, A, G), NEW fam, fam \notin G
  PROVE  Shown(text, A, fam) = <<>>
<1>1. text \in Seq(A) BY DEF SamplesOf
<1>2. \A i \in DOMAIN text : ~(text[i].t = "sample" /\ text[i].fam = fam) BY DEF SamplesOf
<1> QED BY <1>1, <1>2, NotShown

LEMMA HelpsHidden ==
  ASSUME NEW A, NEW text, NEW G, HelpsOf(text, A, G), NEW fam
  PROVE  Shown(text, A, fam) = <<>>
<1>1. text \in Seq(A) BY DEF HelpsOf
<1>2. \A i \in DOMAIN text : text[i].t = "help" BY DEF HelpsOf, P!Help
<1>3. \A i \in DOMAIN text : ~(text[i].t = "sample" /\ text[i].fam = fam) BY <1>2
<1> QED BY <1>1, <1>3, NotShown

\* A family that is not declared is not shown.
LEMMA Undeclared ==
  ASSUME NEW A, NEW text, NEW H, Declares(text, A, H), NEW fam, fam \notin H, fam # <<"collector">>
  PROVE  Shown(text, A, fam) = <<>>
<1>1. text \in Seq(A) BY DEF Declares
<1>2. ASSUME NEW i \in DOMAIN text, text[i].t = "sample", text[i].fam = fam PROVE FALSE
  <2>1. PICK j \in 1 .. i - 1 : text[j] = P!Help(fam)
    BY <1>2 DEF Declares, P!FamiliesDeclared, P!IsSample
  <2>2. j \in DOMAIN text BY <1>1, <2>1, LenProperties
  <2>3. P!Help(fam).t = "help" /\ P!Help(fam).fam = fam BY DEF P!Help
  <2>4. PICK f \in H : text[j] = P!Help(f) BY <2>1, <2>2, <2>3 DEF Declares
  <2>5. P!Help(f).fam = f BY DEF P!Help
  <2> QED BY <2>1, <2>3, <2>4, <2>5
<1> QED BY <1>1, <1>2, NotShown

LEMMA SamplesJoin ==
  ASSUME NEW A, NEW G, NEW s, NEW t, NEW text, Behind(s, t, A, text),
         SamplesOf(s, A, G), SamplesOf(t, A, G)
  PROVE  SamplesOf(text, A, G)
<1> DEFINE n == Len(s)
           m == Len(t)
<1>2. /\ text \in Seq(A) /\ n \in Nat /\ m \in Nat
      /\ DOMAIN text = 1 .. n + m /\ DOMAIN s = 1 .. n /\ DOMAIN t = 1 .. m
      /\ \A i \in 1 .. n : text[i] = s[i]
      /\ \A i \in 1 .. n + m : i > n => text[i] = t[i - n]
  BY BehindAt
<1> HIDE DEF n, m
<1>3. ASSUME NEW i \in 1 .. n + m PROVE text[i].t = "sample" /\ text[i].fam \in G
  <2>1. CASE i \in 1 .. n BY <1>2, <2>1 DEF SamplesOf
  <2>2. CASE i > n
    <3>1. i - n \in 1 .. m BY <1>2, <2>2
    <3>2. t[i - n].t = "sample" /\ t[i - n].fam \in G BY <1>2, <3>1 DEF SamplesOf
    <3>3. text[i] = t[i - n] BY <1>2, <2>2
    <3> QED BY <3>2, <3>3
  <2> QED BY <1>2, <2>1, <2>2
<1> QED BY <1>2, <1>3 DEF SamplesOf

LEMMA KeyOps ==
  /\ \A s, set : P!Kept(s, set) = Kept(s, set)
  /\ \A k, pos : P!PositionKey(k, pos) = J!PositionKey(k, pos)
<1>1. \A s, set : P!Kept(s, set) = Kept(s, set) BY DEF P!Kept, Kept
<1>2. \A k : P!Parts(k) = J!Parts(k)
  BY DEF P!Parts, J!Parts, P!FoldLeft, J!FoldLeft, P!MapThenFoldSet, J!MapThenFoldSet,
         P!Max, J!Max, P!Front, J!Front, P!Last, J!Last, P!Sep, J!Sep
<1>3. \A k, pos : P!PositionKey(k, pos) = J!PositionKey(k, pos)
  BY <1>2 DEF P!PositionKey, J!PositionKey, P!HasPart, J!HasPart
<1> QED BY <1>1, <1>3

ServerNames ==
  {"bytes_total", "requests_total", "request_seconds_total", "request_seconds",
   "request_duration_seconds"}
UpstreamNames ==
  ServerNames \cup {"response_seconds_total", "response_seconds", "response_duration_seconds"}
Mains == {<<"info">>, <<"start_time">>, <<"main_connections">>}
OfSection(section, names) == {<<section, x>> : x \in names}

ServerFams == OfSection("server", ServerNames)
FilterFams == OfSection("filter", ServerNames)
UpstreamFams == OfSection("upstream", UpstreamNames)

LEMMA FamsApart ==
  /\ ServerFams \cap Mains = {} 
  /\ FilterFams \cap (Mains \cup ServerFams) = {}
  /\ UpstreamFams \cap (Mains \cup ServerFams \cup FilterFams) = {}
  /\ <<"collector">> \notin Mains \cup ServerFams \cup FilterFams \cup UpstreamFams
<1>1. ASSUME NEW x, NEW a, NEW b PROVE <<x>> # <<a, b>>
  OBVIOUS
<1>2. ASSUME NEW a, NEW b, NEW x, NEW y, <<a, b>> = <<x, y>> PROVE a = x BY <1>2
<1>3. \A f \in Mains : \E x : f = <<x>> BY DEF Mains
<1>4. \A s, names : \A f \in OfSection(s, names) : \E x : f = <<s, x>> BY DEF OfSection
<1>5. "server" # "filter" /\ "server" # "upstream" /\ "filter" # "upstream" OBVIOUS
<1>6. <<"collector">> \notin Mains BY DEF Mains
<1>7. \A s, names : OfSection(s, names) \cap Mains = {} BY <1>1, <1>3, <1>4
<1>8. \A s, names : <<"collector">> \notin OfSection(s, names) BY <1>1, <1>4
<1>9. \A s, t, names, others : s # t => OfSection(s, names) \cap OfSection(t, others) = {}
  BY <1>2, <1>4
<1> QED BY <1>5, <1>6, <1>7, <1>8, <1>9 DEF ServerFams, FilterFams, UpstreamFams

Lines(F, L) == [t : {"help", "sample"}, fam : F, labels : L, le : Nat]

LEMMA LinesLabels == ASSUME NEW F, NEW L PROVE LinesIn(Lines(F, L), L)
BY DEF LinesIn, IsTable, Lines

LEMMA PlainNames ==
  /\ P!Plain \in Seq(ServerNames) /\ Len(P!Plain) = 4
  /\ \A i \in 1 .. 4 : P!Plain[i] = "bytes_total" <=> i = 1
BY DEF P!Plain, ServerNames

LEMMA OfUpstreamNames ==
  /\ P!OfUpstream \in Seq(UpstreamNames) /\ Len(P!OfUpstream) = 6
  /\ \A i \in 1 .. 6 : P!OfUpstream[i] = "response_seconds" <=> i = 6
BY DEF P!OfUpstream, P!Plain, ServerNames, UpstreamNames

LEMMA SamplesShow ==
  ASSUME NEW F, NEW L, NEW N, NEW section, OfSection(section, N) \subseteq F,
         NEW fams \in Seq(N), NEW labels \in L
  PROVE  /\ SamplesOf(P!Samples(section, fams, labels), Lines(F, L), OfSection(section, N))
         /\ \A j \in 1 .. Len(fams) :
              (\A i \in 1 .. Len(fams) : fams[i] = fams[j] <=> i = j) =>
                Shown(P!Samples(section, fams, labels), Lines(F, L), <<section, fams[j]>>)
                  = <<labels>>
<1> DEFINE more == P!Samples(section, fams, labels)
           n == Len(fams)
           A == Lines(F, L)
<1>1. n \in Nat /\ DOMAIN fams = 1 .. n /\ \A i \in 1 .. n : fams[i] \in N
  BY LenProperties, ElementOfSeq
<1> HIDE DEF n
<1>2. \A i \in 1 .. n : P!Sample(<<section, fams[i]>>, labels) \in A
  BY <1>1 DEF Lines, P!Sample, OfSection
<1>3. more = [i \in 1 .. n |-> P!Sample(<<section, fams[i]>>, labels)] BY <1>1 DEF P!Samples
<1> HIDE DEF more, A
<1>4. more \in [1 .. n -> A] BY <1>2, <1>3
<1>5. more \in Seq(A) BY <1>1, <1>4, IsASeq
<1>6. \A i \in 1 .. n : /\ more[i].t = "sample" /\ more[i].fam = <<section, fams[i]>>
                        /\ more[i].labels = labels
  BY <1>3 DEF P!Sample
<1>7. DOMAIN more = 1 .. n BY <1>4
<1>8. SamplesOf(more, A, OfSection(section, N)) BY <1>1, <1>5, <1>6, <1>7 DEF SamplesOf, OfSection
<1>9. ASSUME NEW j \in 1 .. n, \A i \in 1 .. n : fams[i] = fams[j] <=> i = j
      PROVE  Shown(more, A, <<section, fams[j]>>) = <<labels>>
  <2> DEFINE fam == <<section, fams[j]>>
  <2>1. \A i \in 1 .. n : more[i].fam = fam <=> i = j BY <1>6, <1>9
  <2> HIDE DEF fam
  <2>2. \A i \in DOMAIN more : more[i].t = "sample" /\ more[i].fam = fam <=> i = j
    BY <1>6, <1>7, <2>1
  <2>3. LinesIn(A, L) BY LinesLabels DEF A
  <2>4. j \in DOMAIN more BY <1>7
  <2>5. OnlySample(more, A, fam, j) BY <1>5, <2>2, <2>4 DEF OnlySample
  <2>6. Shown(more, A, fam) = <<more[j].labels>> BY <2>3, <2>5, ShownOnce
  <2> QED BY <1>6, <2>6 DEF fam
<1> QED BY <1>8, <1>9 DEF n, more, A

LEMMA HistogramSamples ==
  ASSUME NEW F, NEW L, NEW fam \in F, NEW labels \in L, NEW n \in Nat
  PROVE  SamplesOf(P!Histogram(fam, labels, n), Lines(F, L), {fam})
<1> DEFINE A == Lines(F, L)
           s == [i \in 1 .. n |-> P!Bucket(fam, labels, i)]
           x == P!Bucket(fam, labels, n + 1)
           y == P!Sample(fam, labels)
           t == <<x, y, y>>
<1>1. \A i \in Nat : P!Bucket(fam, labels, i) \in A /\ P!Bucket(fam, labels, i).t = "sample"
                     /\ P!Bucket(fam, labels, i).fam = fam
  BY DEF Lines, P!Bucket
<1>2. y \in A /\ y.t = "sample" /\ y.fam = fam BY DEF Lines, P!Sample
<1>3. x \in A /\ x.t = "sample" /\ x.fam = fam BY <1>1
<1> HIDE DEF A, x, y
<1>4. SamplesOf(s, A, {fam})
  <2>1. s \in [1 .. n -> A] BY <1>1
  <2>2. s \in Seq(A) BY <2>1, IsASeq
  <2> QED BY <1>1, <2>2 DEF SamplesOf
<1>5. SamplesOf(t, A, {fam})
  <2>1. t \in Seq(A) /\ DOMAIN t = 1 .. 3 BY <1>2, <1>3
  <2>2. \A i \in 1 .. 3 : t[i] = x \/ t[i] = y OBVIOUS
  <2> HIDE DEF t
  <2> QED BY <1>2, <1>3, <2>1, <2>2 DEF SamplesOf
<1>6. SamplesOf(<<>>, A, {fam}) BY DEF SamplesOf
<1> DEFINE w == s \o t
<1> HIDE DEF s, t
<1>7. Behind(s, t, A, w) BY <1>4, <1>5 DEF Behind, SamplesOf
<1> HIDE DEF w
<1>8. SamplesOf(w, A, {fam}) BY <1>4, <1>5, <1>7, SamplesJoin
<1>9. P!Histogram(fam, labels, n) = IF n = 0 THEN <<>> ELSE w
  BY DEF P!Histogram, w, s, t, x, y
<1> QED BY <1>6, <1>8, <1>9 DEF A

Families == Mains \cup {<<"collector">>} \cup ServerFams \cup FilterFams \cup UpstreamFams

ServerName == [k \in Keys |-> <<J!PositionKey(k, 1)>>]
FilterName == [k \in Keys |-> <<J!PositionKey(k, 1), J!PositionKey(k, 2)>>]
BackendName == [k \in Keys |-> P!Backend(k)]
Names ==
  {ServerName[k] : k \in Keys} \cup {FilterName[k] : k \in Keys} \cup {BackendName[k] : k \in Keys}
Labels == {<<>>} \cup {<<P!Collectors[i]>> : i \in DOMAIN P!Collectors} \cup Names

PageLines == Lines(Families, Labels)

\* whole is p, q and r, one behind the other.
Joins(p, q, r, A, whole) ==
  p \in Seq(A) /\ q \in Seq(A) /\ r \in Seq(A) /\ whole = (p \o q) \o r

LEMMA JoinsBehind ==
  ASSUME NEW A, NEW p, NEW q, NEW r, NEW whole, Joins(p, q, r, A, whole),
         NEW piece, Behind(q, r, A, piece)
  PROVE  Behind(p, piece, A, whole)
<1>1. p \in Seq(A) /\ q \in Seq(A) /\ r \in Seq(A) /\ whole = (p \o q) \o r BY DEF Joins
<1>2. piece = q \o r BY DEF Behind
<1>3. piece \in Seq(A) BY <1>1, <1>2, ConcatProperties
<1>4. (p \o q) \o r = p \o (q \o r) BY <1>1, ConcatAssociative
<1> QED BY <1>1, <1>2, <1>3, <1>4 DEF Behind

LEMMA SamplesWider ==
  ASSUME NEW A, NEW text, NEW G, NEW H, SamplesOf(text, A, G), G \subseteq H
  PROVE  SamplesOf(text, A, H)
BY DEF SamplesOf

\* The samples of a node: some first, whose j-th is of the family that is looked for, and more.
LEMMA NodePiece ==
  ASSUME NEW F, NEW L, NEW N, NEW section, OfSection(section, N) \subseteq F,
         NEW fams \in Seq(N), NEW labels \in L, NEW j \in 1 .. Len(fams),
         \A i \in 1 .. Len(fams) : fams[i] = fams[j] <=> i = j,
         NEW more, SamplesOf(more, Lines(F, L), OfSection(section, N)),
         Shown(more, Lines(F, L), <<section, fams[j]>>) = <<>>,
         NEW piece, Behind(P!Samples(section, fams, labels), more, Lines(F, L), piece)
  PROVE  /\ SamplesOf(piece, Lines(F, L), OfSection(section, N))
         /\ Shown(piece, Lines(F, L), <<section, fams[j]>>) = <<labels>>
<1> DEFINE A == Lines(F, L)
           G == OfSection(section, N)
           first == P!Samples(section, fams, labels)
           fam == <<section, fams[j]>>
<1>1. SamplesOf(first, A, G) /\ Shown(first, A, fam) = <<labels>> BY SamplesShow
<1>2. LinesIn(A, L) BY LinesLabels
<1>3. Behind(first, more, A, piece) /\ Shown(more, A, fam) = <<>> /\ SamplesOf(more, A, G)
  OBVIOUS
<1> HIDE DEF A, G, first, fam
<1>4. SamplesOf(piece, A, G) BY <1>1, <1>3, SamplesJoin
<1>5. Shown(piece, A, fam) = Shown(first, A, fam) BY <1>2, <1>3, HiddenBehind
<1> QED BY <1>1, <1>4, <1>5 DEF A, G, fam

\* The lines of one node: samples of the families of G, that show it once.
PieceOf(piece, G, fam, labels) ==
  SamplesOf(piece, PageLines, G) /\ Shown(piece, PageLines, fam) = <<labels>>

ServerPieces ==
  [k \in Keys |-> P!Samples("server", P!Plain, ServerName[k])
                    \o P!Histogram(<<"server", "request_duration_seconds">>, ServerName[k],
                                   Buckets["request"])]

LEMMA ServerPiece ==
  ASSUME NEW k \in Keys
  PROVE  /\ PieceOf(ServerPieces[k], ServerFams, <<"server", "bytes_total">>, ServerName[k])
         /\ \A b \in Seq(PageLines) :
              Behind(b, ServerPieces[k], PageLines, P!SetServerNode(b, k))
<1> DEFINE section == "server"
           labels == ServerName[k]
           fams == P!Plain
           h == <<section, "request_duration_seconds">>
           fam == <<section, "bytes_total">>
           first == P!Samples(section, fams, labels)
           more == P!Histogram(h, labels, Buckets["request"])
           piece == ServerPieces[k]
<1>1. piece = first \o more BY DEF ServerPieces
<1>2. labels \in Labels BY DEF Labels, Names
<1>3. OfSection(section, ServerNames) = ServerFams /\ ServerFams \subseteq Families
  BY DEF ServerFams, Families
<1>4. h \in ServerFams /\ fam # h BY DEF ServerFams, OfSection, ServerNames
<1>5. fams \in Seq(ServerNames) /\ Len(fams) = 4 /\ fams[1] = "bytes_total"
      /\ \A i \in 1 .. 4 : fams[i] = fams[1] <=> i = 1
  BY PlainNames
<1>6. \A b : P!SetServerNode(b, k) = (b \o first) \o more
  BY KeyOps DEF P!SetServerNode, ServerName
<1>7. fam = <<section, fams[1]>> BY <1>5
<1>8. 1 \in 1 .. Len(fams) BY <1>5
<1>9. \A i \in 1 .. Len(fams) : fams[i] = fams[1] <=> i = 1 BY <1>5
<1>10. Buckets["request"] \in Nat BY BucketsAssumption
<1> HIDE DEF labels, fams, h, section, piece
<1>11. SamplesOf(more, PageLines, {h})
  BY <1>2, <1>3, <1>4, <1>10, HistogramSamples DEF PageLines
<1>12. SamplesOf(first, PageLines, ServerFams)
  BY <1>2, <1>3, <1>5, SamplesShow DEF PageLines
<1> HIDE DEF first, more, fam
<1>13. SamplesOf(more, PageLines, ServerFams) /\ Shown(more, PageLines, fam) = <<>>
  BY <1>4, <1>11, SamplesWider, SamplesHidden
<1>14. Behind(first, more, PageLines, piece) BY <1>1, <1>12, <1>13 DEF Behind, SamplesOf
<1>15. PieceOf(piece, ServerFams, fam, labels)
  BY <1>2, <1>3, <1>5, <1>7, <1>8, <1>9, <1>13, <1>14, NodePiece DEF PageLines, PieceOf, first
<1>16. ASSUME NEW b \in Seq(PageLines) PROVE Behind(b, piece, PageLines, P!SetServerNode(b, k))
  <2>1. first \in Seq(PageLines) BY <1>12 DEF SamplesOf
  <2>2. more \in Seq(PageLines) BY <1>13 DEF SamplesOf
  <2>3. Joins(b, first, more, PageLines, P!SetServerNode(b, k)) BY <1>6, <2>1, <2>2 DEF Joins
  <2> QED BY <1>14, <2>3, JoinsBehind
<1> QED BY <1>15, <1>16 DEF piece, fam, labels, section

FilterPieces ==
  [k \in Keys |-> P!Samples("filter", P!Plain, FilterName[k])
                    \o P!Histogram(<<"filter", "request_duration_seconds">>, FilterName[k],
                                   Buckets["request"])]

LEMMA FilterPiece ==
  ASSUME NEW k \in Keys
  PROVE  /\ PieceOf(FilterPieces[k], FilterFams, <<"filter", "bytes_total">>, FilterName[k])
         /\ \A b \in Seq(PageLines) :
              Behind(b, FilterPieces[k], PageLines, P!SetFilterNode(b, k))
<1> DEFINE section == "filter"
           labels == FilterName[k]
           fams == P!Plain
           h == <<section, "request_duration_seconds">>
           fam == <<section, "bytes_total">>
           first == P!Samples(section, fams, labels)
           more == P!Histogram(h, labels, Buckets["request"])
           piece == FilterPieces[k]
<1>1. piece = first \o more BY DEF FilterPieces
<1>2. labels \in Labels BY DEF Labels, Names
<1>3. OfSection(section, ServerNames) = FilterFams /\ FilterFams \subseteq Families
  BY DEF FilterFams, Families
<1>4. h \in FilterFams /\ fam # h BY DEF FilterFams, OfSection, ServerNames
<1>5. fams \in Seq(ServerNames) /\ Len(fams) = 4 /\ fams[1] = "bytes_total"
      /\ \A i \in 1 .. 4 : fams[i] = fams[1] <=> i = 1
  BY PlainNames
<1>6. \A b : P!SetFilterNode(b, k) = (b \o first) \o more
  BY KeyOps DEF P!SetFilterNode, FilterName
<1>7. fam = <<section, fams[1]>> BY <1>5
<1>8. 1 \in 1 .. Len(fams) BY <1>5
<1>9. \A i \in 1 .. Len(fams) : fams[i] = fams[1] <=> i = 1 BY <1>5
<1>10. Buckets["request"] \in Nat BY BucketsAssumption
<1> HIDE DEF labels, fams, h, section, piece
<1>11. SamplesOf(more, PageLines, {h})
  BY <1>2, <1>3, <1>4, <1>10, HistogramSamples DEF PageLines
<1>12. SamplesOf(first, PageLines, FilterFams)
  BY <1>2, <1>3, <1>5, SamplesShow DEF PageLines
<1> HIDE DEF first, more, fam
<1>13. SamplesOf(more, PageLines, FilterFams) /\ Shown(more, PageLines, fam) = <<>>
  BY <1>4, <1>11, SamplesWider, SamplesHidden
<1>14. Behind(first, more, PageLines, piece) BY <1>1, <1>12, <1>13 DEF Behind, SamplesOf
<1>15. PieceOf(piece, FilterFams, fam, labels)
  BY <1>2, <1>3, <1>5, <1>7, <1>8, <1>9, <1>13, <1>14, NodePiece DEF PageLines, PieceOf, first
<1>16. ASSUME NEW b \in Seq(PageLines) PROVE Behind(b, piece, PageLines, P!SetFilterNode(b, k))
  <2>1. first \in Seq(PageLines) BY <1>12 DEF SamplesOf
  <2>2. more \in Seq(PageLines) BY <1>13 DEF SamplesOf
  <2>3. Joins(b, first, more, PageLines, P!SetFilterNode(b, k)) BY <1>6, <2>1, <2>2 DEF Joins
  <2> QED BY <1>14, <2>3, JoinsBehind
<1> QED BY <1>15, <1>16 DEF piece, fam, labels, section

UpstreamPieces ==
  [k \in Keys |-> P!Samples("upstream", P!OfUpstream, BackendName[k])
                    \o (P!Histogram(<<"upstream", "request_duration_seconds">>, BackendName[k],
                                    Buckets["request"])
                         \o P!Histogram(<<"upstream", "response_duration_seconds">>, BackendName[k],
                                        Buckets["response"]))]

LEMMA UpstreamPiece ==
  ASSUME NEW k \in Keys
  PROVE  /\ PieceOf(UpstreamPieces[k], UpstreamFams, <<"upstream", "response_seconds">>, BackendName[k])
         /\ \A b \in Seq(PageLines) :
              Behind(b, UpstreamPieces[k], PageLines, P!SetUpstreamNode(b, k))
<1> DEFINE section == "upstream"
           labels == BackendName[k]
           fams == P!OfUpstream
           h == <<section, "request_duration_seconds">>
           g == <<section, "response_duration_seconds">>
           fam == <<section, "response_seconds">>
           first == P!Samples(section, fams, labels)
           one == P!Histogram(h, labels, Buckets["request"])
           two == P!Histogram(g, labels, Buckets["response"])
           more == one \o two
           piece == UpstreamPieces[k]
           j == 6
<1>1. piece = first \o more BY DEF UpstreamPieces
<1>2. labels \in Labels BY DEF Labels, Names
<1>3. OfSection(section, UpstreamNames) = UpstreamFams /\ UpstreamFams \subseteq Families
  BY DEF UpstreamFams, Families
<1>4. h \in UpstreamFams /\ g \in UpstreamFams /\ fam # h /\ fam # g
  BY DEF UpstreamFams, OfSection, UpstreamNames, ServerNames
<1>5. fams \in Seq(UpstreamNames) /\ Len(fams) = 6 /\ fams[6] = "response_seconds"
      /\ \A i \in 1 .. 6 : fams[i] = fams[6] <=> i = 6
  BY OfUpstreamNames
<1>6. \A b : P!SetUpstreamNode(b, k) = ((b \o first) \o one) \o two
  BY KeyOps DEF P!SetUpstreamNode, BackendName
<1>7. fam = <<section, fams[j]>> BY <1>5
<1>8. j \in 1 .. Len(fams) BY <1>5
<1>9. \A i \in 1 .. Len(fams) : fams[i] = fams[j] <=> i = j BY <1>5
<1>10. Buckets["request"] \in Nat /\ Buckets["response"] \in Nat BY BucketsAssumption
<1>0. fams \in Seq(UpstreamNames) BY <1>5
<1> HIDE DEF labels, fams, h, g, section, piece, j
<1>11. SamplesOf(one, PageLines, {h}) /\ SamplesOf(two, PageLines, {g})
  BY <1>2, <1>3, <1>4, <1>10, HistogramSamples DEF PageLines
<1>12. SamplesOf(first, PageLines, UpstreamFams)
  BY <1>2, <1>3, <1>5, SamplesShow DEF PageLines
<1> HIDE DEF first, one, two, fam
<1>13. SamplesOf(one, PageLines, {h, g}) /\ SamplesOf(two, PageLines, {h, g})
  BY <1>11, SamplesWider
<1>14. Behind(one, two, PageLines, more) BY <1>13 DEF Behind, SamplesOf
<1> HIDE DEF more
<1>15. SamplesOf(more, PageLines, {h, g}) BY <1>13, <1>14, SamplesJoin
<1>16. SamplesOf(more, PageLines, UpstreamFams) /\ Shown(more, PageLines, fam) = <<>>
  BY <1>4, <1>15, SamplesWider, SamplesHidden
<1>17. Behind(first, more, PageLines, piece) BY <1>1, <1>12, <1>16 DEF Behind, SamplesOf
<1>18. PieceOf(piece, UpstreamFams, fam, labels)
  BY <1>0, <1>2, <1>3, <1>7, <1>8, <1>9, <1>16, <1>17, NodePiece DEF PageLines, PieceOf, first
<1>19. ASSUME NEW b \in Seq(PageLines) PROVE Behind(b, piece, PageLines, P!SetUpstreamNode(b, k))
  <2> DEFINE p == b \o first
  <2>1. first \in Seq(PageLines) BY <1>12 DEF SamplesOf
  <2>2. one \in Seq(PageLines) BY <1>13 DEF SamplesOf
  <2>3. two \in Seq(PageLines) BY <1>13 DEF SamplesOf
  <2>4. Behind(b, first, PageLines, p) BY <2>1 DEF Behind
  <2>5. p \in Seq(PageLines) BY <2>1, ConcatProperties
  <2>6. P!SetUpstreamNode(b, k) = (p \o one) \o two BY <1>6
  <2> HIDE DEF p
  <2>7. Joins(p, one, two, PageLines, P!SetUpstreamNode(b, k)) BY <2>2, <2>3, <2>5, <2>6 DEF Joins
  <2>8. Behind(p, more, PageLines, P!SetUpstreamNode(b, k)) BY <1>14, <2>7, JoinsBehind
  <2>9. more \in Seq(PageLines) BY <1>16 DEF SamplesOf
  <2>10. Joins(b, first, more, PageLines, P!SetUpstreamNode(b, k))
    BY <2>1, <2>4, <2>8, <2>9 DEF Joins, Behind
  <2> QED BY <1>17, <2>10, JoinsBehind
<1> QED BY <1>18, <1>19 DEF piece, fam, labels, section

ServerNodes == {k \in Keys : k[1] = "NO"}
FilterNodes == {k \in Keys : k[1] = "FG"}
UpstreamNodes == {k \in Keys : k[1] \in {"UG", "UA"}}

ServerLinesChain(c, n, D, E, buf, walk) ==
  /\ c \in [E -> Seq(PageLines)] /\ c[0] = buf /\ c[n] = P!SetServer(buf, walk)
  /\ \A k \in D : c[k] = IF walk[k][1] = "NO" THEN P!SetServerNode(c[k - 1], walk[k]) ELSE c[k - 1]

LEMMA ServerLinesType ==
  ASSUME NEW b \in Seq(PageLines), NEW k \in Keys
  PROVE  P!SetServerNode(b, k) \in Seq(PageLines)
<1>1. Behind(b, ServerPieces[k], PageLines, P!SetServerNode(b, k)) BY ServerPiece
<1> QED BY <1>1, BehindAt

LEMMA ServerLinesFold ==
  ASSUME NEW buf, buf \in Seq(PageLines),
         NEW n, NEW D, NEW E, NEW walk, Positions(n, D, E, walk, Keys)
  PROVE  \E c : ServerLinesChain(c, n, D, E, buf, walk)
<1>0. n \in Nat /\ D = 1 .. n /\ E = 0 .. n /\ walk \in [D -> Keys] BY DEF Positions
<1> DEFINE A == Seq(PageLines)
           f == [q \in A \X Keys |-> (IF q[2][1] = "NO" THEN P!SetServerNode(q[1], q[2]) ELSE q[1])]
           Is(g) == g = [s \in SUBSET D |->
                           IF s = {} THEN buf
                           ELSE (IF walk[Highest(s)][1] = "NO" THEN P!SetServerNode(g[s \ {Highest(s)}], walk[Highest(s)]) ELSE g[s \ {Highest(s)}])]
           h == CHOOSE g : Is(g)
<1>1. f \in [A \X Keys -> A] /\ buf \in A BY ServerLinesType
<1>2. \A b \in A, k \in Keys : f[<<b, k>>] = (IF k[1] = "NO" THEN P!SetServerNode(b, k) ELSE b) OBVIOUS
<1>3. P!SetServer(buf, walk) = h[D]
  BY <1>0 DEF P!SetServer, P!FoldLeft, P!MapThenFoldSet, P!Max, Highest
<1> HIDE DEF f, A
<1>4. Is(h)
  <2>1. PICK g \in [SUBSET D -> A] : Folds(g, f, buf, walk, D) BY <1>0, <1>1, FoldExists
  <2>2. \A s \in SUBSET D : s # {} => g[s \ {Highest(s)}] \in A /\ walk[Highest(s)] \in Keys BY <1>0, HighestOf
  <2>3. \A s \in SUBSET D : s # {} =>
          f[<<g[s \ {Highest(s)}], walk[Highest(s)]>>]
            = (IF walk[Highest(s)][1] = "NO" THEN P!SetServerNode(g[s \ {Highest(s)}], walk[Highest(s)]) ELSE g[s \ {Highest(s)}])
    BY <1>2, <2>2
  <2>4. Is(g) BY <2>1, <2>3 DEF Folds
  <2> QED BY <2>4
<1> HIDE DEF h
<1> DEFINE c == [k \in E |-> h[1 .. k]]
<1>5. c[0] = buf /\ c[n] = h[D]
  <2>1. 1 .. 0 = {} /\ 0 \in E /\ n \in E BY <1>0
  <2> QED BY <1>0, <1>4, <2>1
<1>6. \A k \in D : c[k] = (IF walk[k][1] = "NO" THEN P!SetServerNode(c[k - 1], walk[k]) ELSE c[k - 1])
  <2> SUFFICES ASSUME NEW k \in D
               PROVE  c[k] = (IF walk[k][1] = "NO" THEN P!SetServerNode(c[k - 1], walk[k]) ELSE c[k - 1])
    OBVIOUS
  <2>1. 1 .. k \in SUBSET D /\ 1 \in 1 .. k /\ k \in E /\ k - 1 \in E BY <1>0
  <2>2. Highest(1 .. k) = k /\ (1 .. k) \ {k} = 1 .. k - 1 BY <1>0, HighestUpTo
  <2>3. h[1 .. k] = (IF walk[k][1] = "NO" THEN P!SetServerNode(h[1 .. k - 1], walk[k]) ELSE h[1 .. k - 1])
    BY <1>4, <2>1, <2>2
  <2>4. c[k] = h[1 .. k] /\ c[k - 1] = h[1 .. k - 1] BY <2>1
  <2> QED BY <2>3, <2>4
<1> HIDE DEF Is, c
<1>7. \A k \in D : c[k - 1] \in A => c[k] = f[<<c[k - 1], walk[k]>>] BY <1>0, <1>2, <1>6
<1>8. \A k \in E : c[k] \in A
  <2>1. Chained(n, D, E, A, Keys, walk, f, c) BY <1>0, <1>1, <1>5, <1>7 DEF Chained
  <2> QED BY <2>1, FoldChain
<1>9. c \in [E -> A] BY <1>8 DEF c
<1> QED BY <1>3, <1>5, <1>6, <1>9 DEF A, ServerLinesChain

LEMMA ServerLinesGrow ==
  ASSUME NEW buf, buf \in Seq(PageLines),
         NEW n, NEW D, NEW E, NEW walk, Positions(n, D, E, walk, Keys)
  PROVE  \E c : /\ Grows(c, n, D, E, PageLines, buf, walk, ServerNodes, ServerPieces)
               /\ c[n] = P!SetServer(buf, walk)
<1>0. n \in Nat /\ D = 1 .. n /\ E = 0 .. n /\ walk \in [D -> Keys] BY DEF Positions
<1>1. PICK c : ServerLinesChain(c, n, D, E, buf, walk) BY ServerLinesFold
<1> DEFINE S == ServerNodes
<1>2. \A k \in Keys : k \in S <=> k[1] = "NO" BY DEF ServerNodes
<1> HIDE DEF S
<1>3. ASSUME NEW i \in D
      PROVE  IF walk[i] \in S THEN Behind(c[i - 1], ServerPieces[walk[i]], PageLines, c[i])
             ELSE c[i] = c[i - 1]
  <2>1. walk[i] \in Keys /\ i - 1 \in E BY <1>0
  <2>2. c[i - 1] \in Seq(PageLines) BY <1>1, <2>1 DEF ServerLinesChain
  <2>3. c[i] = IF walk[i] \in S THEN P!SetServerNode(c[i - 1], walk[i]) ELSE c[i - 1]
    BY <1>1, <1>2, <2>1 DEF ServerLinesChain
  <2> DEFINE k == walk[i]
             b == c[i - 1]
  <2>4. k \in Keys /\ b \in Seq(PageLines) BY <2>1, <2>2
  <2> HIDE DEF k, b
  <2>5. Behind(b, ServerPieces[k], PageLines, P!SetServerNode(b, k)) BY <2>4, ServerPiece
  <2> QED BY <2>3, <2>5 DEF k, b
<1>4. Grows(c, n, D, E, PageLines, buf, walk, S, ServerPieces)
  BY <1>1, <1>3 DEF Grows, ServerLinesChain
<1>5. c[n] = P!SetServer(buf, walk) BY <1>1 DEF ServerLinesChain
<1> QED BY <1>4, <1>5 DEF S

FilterLinesChain(c, n, D, E, buf, walk) ==
  /\ c \in [E -> Seq(PageLines)] /\ c[0] = buf /\ c[n] = P!SetFilter(buf, walk)
  /\ \A k \in D : c[k] = IF walk[k][1] = "FG" THEN P!SetFilterNode(c[k - 1], walk[k]) ELSE c[k - 1]

LEMMA FilterLinesType ==
  ASSUME NEW b \in Seq(PageLines), NEW k \in Keys
  PROVE  P!SetFilterNode(b, k) \in Seq(PageLines)
<1>1. Behind(b, FilterPieces[k], PageLines, P!SetFilterNode(b, k)) BY FilterPiece
<1> QED BY <1>1, BehindAt

LEMMA FilterLinesFold ==
  ASSUME NEW buf, buf \in Seq(PageLines),
         NEW n, NEW D, NEW E, NEW walk, Positions(n, D, E, walk, Keys)
  PROVE  \E c : FilterLinesChain(c, n, D, E, buf, walk)
<1>0. n \in Nat /\ D = 1 .. n /\ E = 0 .. n /\ walk \in [D -> Keys] BY DEF Positions
<1> DEFINE A == Seq(PageLines)
           f == [q \in A \X Keys |-> (IF q[2][1] = "FG" THEN P!SetFilterNode(q[1], q[2]) ELSE q[1])]
           Is(g) == g = [s \in SUBSET D |->
                           IF s = {} THEN buf
                           ELSE (IF walk[Highest(s)][1] = "FG" THEN P!SetFilterNode(g[s \ {Highest(s)}], walk[Highest(s)]) ELSE g[s \ {Highest(s)}])]
           h == CHOOSE g : Is(g)
<1>1. f \in [A \X Keys -> A] /\ buf \in A BY FilterLinesType
<1>2. \A b \in A, k \in Keys : f[<<b, k>>] = (IF k[1] = "FG" THEN P!SetFilterNode(b, k) ELSE b) OBVIOUS
<1>3. P!SetFilter(buf, walk) = h[D]
  BY <1>0 DEF P!SetFilter, P!FoldLeft, P!MapThenFoldSet, P!Max, Highest
<1> HIDE DEF f, A
<1>4. Is(h)
  <2>1. PICK g \in [SUBSET D -> A] : Folds(g, f, buf, walk, D) BY <1>0, <1>1, FoldExists
  <2>2. \A s \in SUBSET D : s # {} => g[s \ {Highest(s)}] \in A /\ walk[Highest(s)] \in Keys BY <1>0, HighestOf
  <2>3. \A s \in SUBSET D : s # {} =>
          f[<<g[s \ {Highest(s)}], walk[Highest(s)]>>]
            = (IF walk[Highest(s)][1] = "FG" THEN P!SetFilterNode(g[s \ {Highest(s)}], walk[Highest(s)]) ELSE g[s \ {Highest(s)}])
    BY <1>2, <2>2
  <2>4. Is(g) BY <2>1, <2>3 DEF Folds
  <2> QED BY <2>4
<1> HIDE DEF h
<1> DEFINE c == [k \in E |-> h[1 .. k]]
<1>5. c[0] = buf /\ c[n] = h[D]
  <2>1. 1 .. 0 = {} /\ 0 \in E /\ n \in E BY <1>0
  <2> QED BY <1>0, <1>4, <2>1
<1>6. \A k \in D : c[k] = (IF walk[k][1] = "FG" THEN P!SetFilterNode(c[k - 1], walk[k]) ELSE c[k - 1])
  <2> SUFFICES ASSUME NEW k \in D
               PROVE  c[k] = (IF walk[k][1] = "FG" THEN P!SetFilterNode(c[k - 1], walk[k]) ELSE c[k - 1])
    OBVIOUS
  <2>1. 1 .. k \in SUBSET D /\ 1 \in 1 .. k /\ k \in E /\ k - 1 \in E BY <1>0
  <2>2. Highest(1 .. k) = k /\ (1 .. k) \ {k} = 1 .. k - 1 BY <1>0, HighestUpTo
  <2>3. h[1 .. k] = (IF walk[k][1] = "FG" THEN P!SetFilterNode(h[1 .. k - 1], walk[k]) ELSE h[1 .. k - 1])
    BY <1>4, <2>1, <2>2
  <2>4. c[k] = h[1 .. k] /\ c[k - 1] = h[1 .. k - 1] BY <2>1
  <2> QED BY <2>3, <2>4
<1> HIDE DEF Is, c
<1>7. \A k \in D : c[k - 1] \in A => c[k] = f[<<c[k - 1], walk[k]>>] BY <1>0, <1>2, <1>6
<1>8. \A k \in E : c[k] \in A
  <2>1. Chained(n, D, E, A, Keys, walk, f, c) BY <1>0, <1>1, <1>5, <1>7 DEF Chained
  <2> QED BY <2>1, FoldChain
<1>9. c \in [E -> A] BY <1>8 DEF c
<1> QED BY <1>3, <1>5, <1>6, <1>9 DEF A, FilterLinesChain

LEMMA FilterLinesGrow ==
  ASSUME NEW buf, buf \in Seq(PageLines),
         NEW n, NEW D, NEW E, NEW walk, Positions(n, D, E, walk, Keys)
  PROVE  \E c : /\ Grows(c, n, D, E, PageLines, buf, walk, FilterNodes, FilterPieces)
               /\ c[n] = P!SetFilter(buf, walk)
<1>0. n \in Nat /\ D = 1 .. n /\ E = 0 .. n /\ walk \in [D -> Keys] BY DEF Positions
<1>1. PICK c : FilterLinesChain(c, n, D, E, buf, walk) BY FilterLinesFold
<1> DEFINE S == FilterNodes
<1>2. \A k \in Keys : k \in S <=> k[1] = "FG" BY DEF FilterNodes
<1> HIDE DEF S
<1>3. ASSUME NEW i \in D
      PROVE  IF walk[i] \in S THEN Behind(c[i - 1], FilterPieces[walk[i]], PageLines, c[i])
             ELSE c[i] = c[i - 1]
  <2>1. walk[i] \in Keys /\ i - 1 \in E BY <1>0
  <2>2. c[i - 1] \in Seq(PageLines) BY <1>1, <2>1 DEF FilterLinesChain
  <2>3. c[i] = IF walk[i] \in S THEN P!SetFilterNode(c[i - 1], walk[i]) ELSE c[i - 1]
    BY <1>1, <1>2, <2>1 DEF FilterLinesChain
  <2> DEFINE k == walk[i]
             b == c[i - 1]
  <2>4. k \in Keys /\ b \in Seq(PageLines) BY <2>1, <2>2
  <2> HIDE DEF k, b
  <2>5. Behind(b, FilterPieces[k], PageLines, P!SetFilterNode(b, k)) BY <2>4, FilterPiece
  <2> QED BY <2>3, <2>5 DEF k, b
<1>4. Grows(c, n, D, E, PageLines, buf, walk, S, FilterPieces)
  BY <1>1, <1>3 DEF Grows, FilterLinesChain
<1>5. c[n] = P!SetFilter(buf, walk) BY <1>1 DEF FilterLinesChain
<1> QED BY <1>4, <1>5 DEF S

UpstreamLinesChain(c, n, D, E, buf, walk) ==
  /\ c \in [E -> Seq(PageLines)] /\ c[0] = buf /\ c[n] = P!SetUpstream(buf, walk)
  /\ \A k \in D : c[k] = IF walk[k][1] \in {"UG", "UA"} THEN P!SetUpstreamNode(c[k - 1], walk[k]) ELSE c[k - 1]

LEMMA UpstreamLinesType ==
  ASSUME NEW b \in Seq(PageLines), NEW k \in Keys
  PROVE  P!SetUpstreamNode(b, k) \in Seq(PageLines)
<1>1. Behind(b, UpstreamPieces[k], PageLines, P!SetUpstreamNode(b, k)) BY UpstreamPiece
<1> QED BY <1>1, BehindAt

LEMMA UpstreamLinesFold ==
  ASSUME NEW buf, buf \in Seq(PageLines),
         NEW n, NEW D, NEW E, NEW walk, Positions(n, D, E, walk, Keys)
  PROVE  \E c : UpstreamLinesChain(c, n, D, E, buf, walk)
<1>0. n \in Nat /\ D = 1 .. n /\ E = 0 .. n /\ walk \in [D -> Keys] BY DEF Positions
<1> DEFINE A == Seq(PageLines)
           f == [q \in A \X Keys |-> (IF q[2][1] \in {"UG", "UA"} THEN P!SetUpstreamNode(q[1], q[2]) ELSE q[1])]
           Is(g) == g = [s \in SUBSET D |->
                           IF s = {} THEN buf
                           ELSE (IF walk[Highest(s)][1] \in {"UG", "UA"} THEN P!SetUpstreamNode(g[s \ {Highest(s)}], walk[Highest(s)]) ELSE g[s \ {Highest(s)}])]
           h == CHOOSE g : Is(g)
<1>1. f \in [A \X Keys -> A] /\ buf \in A BY UpstreamLinesType
<1>2. \A b \in A, k \in Keys : f[<<b, k>>] = (IF k[1] \in {"UG", "UA"} THEN P!SetUpstreamNode(b, k) ELSE b) OBVIOUS
<1>3. P!SetUpstream(buf, walk) = h[D]
  BY <1>0 DEF P!SetUpstream, P!FoldLeft, P!MapThenFoldSet, P!Max, Highest
<1> HIDE DEF f, A
<1>4. Is(h)
  <2>1. PICK g \in [SUBSET D -> A] : Folds(g, f, buf, walk, D) BY <1>0, <1>1, FoldExists
  <2>2. \A s \in SUBSET D : s # {} => g[s \ {Highest(s)}] \in A /\ walk[Highest(s)] \in Keys BY <1>0, HighestOf
  <2>3. \A s \in SUBSET D : s # {} =>
          f[<<g[s \ {Highest(s)}], walk[Highest(s)]>>]
            = (IF walk[Highest(s)][1] \in {"UG", "UA"} THEN P!SetUpstreamNode(g[s \ {Highest(s)}], walk[Highest(s)]) ELSE g[s \ {Highest(s)}])
    BY <1>2, <2>2
  <2>4. Is(g) BY <2>1, <2>3 DEF Folds
  <2> QED BY <2>4
<1> HIDE DEF h
<1> DEFINE c == [k \in E |-> h[1 .. k]]
<1>5. c[0] = buf /\ c[n] = h[D]
  <2>1. 1 .. 0 = {} /\ 0 \in E /\ n \in E BY <1>0
  <2> QED BY <1>0, <1>4, <2>1
<1>6. \A k \in D : c[k] = (IF walk[k][1] \in {"UG", "UA"} THEN P!SetUpstreamNode(c[k - 1], walk[k]) ELSE c[k - 1])
  <2> SUFFICES ASSUME NEW k \in D
               PROVE  c[k] = (IF walk[k][1] \in {"UG", "UA"} THEN P!SetUpstreamNode(c[k - 1], walk[k]) ELSE c[k - 1])
    OBVIOUS
  <2>1. 1 .. k \in SUBSET D /\ 1 \in 1 .. k /\ k \in E /\ k - 1 \in E BY <1>0
  <2>2. Highest(1 .. k) = k /\ (1 .. k) \ {k} = 1 .. k - 1 BY <1>0, HighestUpTo
  <2>3. h[1 .. k] = (IF walk[k][1] \in {"UG", "UA"} THEN P!SetUpstreamNode(h[1 .. k - 1], walk[k]) ELSE h[1 .. k - 1])
    BY <1>4, <2>1, <2>2
  <2>4. c[k] = h[1 .. k] /\ c[k - 1] = h[1 .. k - 1] BY <2>1
  <2> QED BY <2>3, <2>4
<1> HIDE DEF Is, c
<1>7. \A k \in D : c[k - 1] \in A => c[k] = f[<<c[k - 1], walk[k]>>] BY <1>0, <1>2, <1>6
<1>8. \A k \in E : c[k] \in A
  <2>1. Chained(n, D, E, A, Keys, walk, f, c) BY <1>0, <1>1, <1>5, <1>7 DEF Chained
  <2> QED BY <2>1, FoldChain
<1>9. c \in [E -> A] BY <1>8 DEF c
<1> QED BY <1>3, <1>5, <1>6, <1>9 DEF A, UpstreamLinesChain

LEMMA UpstreamLinesGrow ==
  ASSUME NEW buf, buf \in Seq(PageLines),
         NEW n, NEW D, NEW E, NEW walk, Positions(n, D, E, walk, Keys)
  PROVE  \E c : /\ Grows(c, n, D, E, PageLines, buf, walk, UpstreamNodes, UpstreamPieces)
               /\ c[n] = P!SetUpstream(buf, walk)
<1>0. n \in Nat /\ D = 1 .. n /\ E = 0 .. n /\ walk \in [D -> Keys] BY DEF Positions
<1>1. PICK c : UpstreamLinesChain(c, n, D, E, buf, walk) BY UpstreamLinesFold
<1> DEFINE S == UpstreamNodes
<1>2. \A k \in Keys : k \in S <=> k[1] \in {"UG", "UA"} BY DEF UpstreamNodes
<1> HIDE DEF S
<1>3. ASSUME NEW i \in D
      PROVE  IF walk[i] \in S THEN Behind(c[i - 1], UpstreamPieces[walk[i]], PageLines, c[i])
             ELSE c[i] = c[i - 1]
  <2>1. walk[i] \in Keys /\ i - 1 \in E BY <1>0
  <2>2. c[i - 1] \in Seq(PageLines) BY <1>1, <2>1 DEF UpstreamLinesChain
  <2>3. c[i] = IF walk[i] \in S THEN P!SetUpstreamNode(c[i - 1], walk[i]) ELSE c[i - 1]
    BY <1>1, <1>2, <2>1 DEF UpstreamLinesChain
  <2> DEFINE k == walk[i]
             b == c[i - 1]
  <2>4. k \in Keys /\ b \in Seq(PageLines) BY <2>1, <2>2
  <2> HIDE DEF k, b
  <2>5. Behind(b, UpstreamPieces[k], PageLines, P!SetUpstreamNode(b, k)) BY <2>4, UpstreamPiece
  <2> QED BY <2>3, <2>5 DEF k, b
<1>4. Grows(c, n, D, E, PageLines, buf, walk, S, UpstreamPieces)
  BY <1>1, <1>3 DEF Grows, UpstreamLinesChain
<1>5. c[n] = P!SetUpstream(buf, walk) BY <1>1 DEF UpstreamLinesChain
<1> QED BY <1>4, <1>5 DEF S

\* Samples of declared families leave a text in order.
LEMMA GrowsDeclares ==
  ASSUME NEW n, NEW D, NEW E, NEW walk, NEW K, Positions(n, D, E, walk, K),
         NEW c, NEW A, NEW buf, NEW S, NEW pieces,
         Grows(c, n, D, E, A, buf, walk, S, pieces),
         NEW G, \A k \in S : SamplesOf(pieces[k], A, G),
         NEW H, Declares(buf, A, H), G \subseteq H
  PROVE  Declares(c[n], A, H)
<1>0. n \in Nat /\ D = 1 .. n /\ E = 0 .. n /\ walk \in [D -> K] BY DEF Positions
<1> DEFINE T == {i \in 0 .. n : Declares(c[i], A, H)}
<1>1. 0 \in T BY <1>0 DEF Grows
<1>2. ASSUME NEW i \in 0 .. n - 1, i \in T PROVE i + 1 \in T
  <2> DEFINE x == walk[i + 1]
             text == c[i]
             more == pieces[x]
             both == c[i + 1]
  <2>1. i + 1 \in 1 .. n /\ i + 1 \in 0 .. n /\ (i + 1) - 1 = i /\ i \in 0 .. n BY <1>0
  <2>2. IF x \in S THEN Behind(text, more, A, both) ELSE both = text
    BY <1>0, <2>1 DEF Grows
  <2>3. Declares(text, A, H) BY <1>2
  <2>4. CASE x \notin S BY <2>1, <2>2, <2>3, <2>4
  <2>5. CASE x \in S
    <3>1. SamplesOf(more, A, G) BY <2>5
    <3>2. Behind(text, more, A, both) BY <2>2, <2>5
    <3> HIDE DEF x, text, more, both
    <3>3. Declares(both, A, H) BY <2>3, <3>1, <3>2, SamplesBehind
    <3> QED BY <2>1, <3>3 DEF both
  <2> QED BY <2>4, <2>5
<1> HIDE DEF T
<1>3. \A i \in 0 .. n : i \in T BY <1>0, <1>1, <1>2, InductTo
<1>4. n \in 0 .. n BY <1>0
<1> QED BY <1>3, <1>4 DEF T

\* fams has each name of N once.
NamesOnce(fams, N) ==
  /\ fams \in Seq(N) /\ \A x \in N : \E i \in 1 .. Len(fams) : fams[i] = x
  /\ \A i, j \in 1 .. Len(fams) : fams[i] = fams[j] => i = j

LEMMA DeclareHelps ==
  ASSUME NEW F, NEW L, <<>> \in L, NEW N, NEW section, OfSection(section, N) \subseteq F,
         NEW fams, NamesOnce(fams, N)
  PROVE  HelpsOf(P!Declare(section, fams), Lines(F, L), OfSection(section, N))
<1> DEFINE more == P!Declare(section, fams)
           n == Len(fams)
           A == Lines(F, L)
           G == OfSection(section, N)
<1>0. fams \in Seq(N) BY DEF NamesOnce
<1>1. n \in Nat /\ DOMAIN fams = 1 .. n /\ \A i \in 1 .. n : fams[i] \in N
  BY <1>0, LenProperties, ElementOfSeq
<1>2. /\ \A x \in N : \E i \in 1 .. n : fams[i] = x
      /\ \A i, j \in 1 .. n : fams[i] = fams[j] => i = j
  BY DEF NamesOnce
<1> HIDE DEF n
<1>3. \A i \in 1 .. n : <<section, fams[i]>> \in G BY <1>1 DEF OfSection
<1>4. \A i \in 1 .. n : P!Help(<<section, fams[i]>>) \in A BY <1>3 DEF Lines, P!Help
<1>5. more = [i \in 1 .. n |-> P!Help(<<section, fams[i]>>)] BY <1>1 DEF P!Declare
<1> HIDE DEF more, A
<1>6. more \in [1 .. n -> A] BY <1>4, <1>5
<1>7. more \in Seq(A) /\ DOMAIN more = 1 .. n BY <1>1, <1>6, IsASeq
<1>8. \A i \in DOMAIN more : \E f \in G : more[i] = P!Help(f) BY <1>3, <1>5, <1>7
<1>9. \A f \in G : \E i \in DOMAIN more : more[i] = P!Help(f)
  <2> SUFFICES ASSUME NEW f \in G PROVE \E i \in DOMAIN more : more[i] = P!Help(f) OBVIOUS
  <2>1. PICK x \in N : f = <<section, x>> BY DEF OfSection
  <2>2. PICK i \in 1 .. n : fams[i] = x BY <1>2
  <2> QED BY <1>5, <1>7, <2>1, <2>2
<1>10. \A i, j \in DOMAIN more : more[i] = more[j] => i = j
  <2> SUFFICES ASSUME NEW i \in 1 .. n, NEW j \in 1 .. n, more[i] = more[j] PROVE i = j
    BY <1>7
  <2>1. more[i].fam = <<section, fams[i]>> /\ more[j].fam = <<section, fams[j]>>
    BY <1>5 DEF P!Help
  <2>2. <<section, fams[i]>> = <<section, fams[j]>> BY <2>1
  <2>3. fams[i] = fams[j] BY <2>2
  <2> QED BY <1>2, <2>3
<1> HIDE DEF G
<1>11. HelpsOf(more, A, G) BY <1>7, <1>8, <1>9, <1>10 DEF HelpsOf
<1> QED BY <1>11 DEF more, A, G

LEMMA ServerNamesOnce == NamesOnce(Append(P!Plain, "request_duration_seconds"), ServerNames)
<1> DEFINE fams == Append(P!Plain, "request_duration_seconds")
<1>1. fams \in Seq(ServerNames) BY PlainNames DEF ServerNames
<1>2. Len(fams) = 5 /\ fams[1] = "bytes_total" /\ fams[2] = "requests_total"
      /\ fams[3] = "request_seconds_total" /\ fams[4] = "request_seconds"
      /\ fams[5] = "request_duration_seconds"
  BY DEF P!Plain
<1> HIDE DEF fams
<1>3. \A x \in ServerNames : \E i \in 1 .. 5 : fams[i] = x BY <1>2 DEF ServerNames
<1>4. \A i, j \in 1 .. 5 : fams[i] = fams[j] => i = j BY <1>2
<1> QED BY <1>1, <1>2, <1>3, <1>4 DEF NamesOnce, fams

LEMMA UpstreamNamesOnce ==
  NamesOnce(P!OfUpstream \o <<"request_duration_seconds", "response_duration_seconds">>, UpstreamNames)
<1> DEFINE fams == P!OfUpstream \o <<"request_duration_seconds", "response_duration_seconds">>
<1>1. Len(fams) = 8 /\ fams[1] = "bytes_total" /\ fams[2] = "requests_total"
      /\ fams[3] = "request_seconds_total" /\ fams[4] = "request_seconds"
      /\ fams[5] = "response_seconds_total" /\ fams[6] = "response_seconds"
      /\ fams[7] = "request_duration_seconds" /\ fams[8] = "response_duration_seconds"
  BY DEF P!Plain, P!OfUpstream
<1>2. fams \in Seq(UpstreamNames)
  BY OfUpstreamNames DEF UpstreamNames, ServerNames
<1> HIDE DEF fams
<1>3. \A x \in UpstreamNames : \E i \in 1 .. 8 : fams[i] = x BY <1>1 DEF UpstreamNames, ServerNames
<1>4. \A i, j \in 1 .. 8 : fams[i] = fams[j] => i = j BY <1>1
<1> QED BY <1>2, <1>1, <1>3, <1>4 DEF NamesOnce, fams

LEMMA SectionHelps ==
  /\ HelpsOf(P!FMT_SERVER_S, PageLines, ServerFams)
  /\ HelpsOf(P!FMT_FILTER_S, PageLines, FilterFams)
  /\ HelpsOf(P!FMT_UPSTREAM_S, PageLines, UpstreamFams)
<1>1. <<>> \in Labels BY DEF Labels
<1>2. ServerFams \subseteq Families /\ FilterFams \subseteq Families /\ UpstreamFams \subseteq Families
  BY DEF Families
<1>3. HelpsOf(P!FMT_SERVER_S, PageLines, ServerFams)
  BY <1>1, <1>2, ServerNamesOnce, DeclareHelps DEF PageLines, ServerFams, P!FMT_SERVER_S
<1>4. HelpsOf(P!FMT_FILTER_S, PageLines, FilterFams)
  BY <1>1, <1>2, ServerNamesOnce, DeclareHelps DEF PageLines, FilterFams, P!FMT_FILTER_S
<1>5. HelpsOf(P!FMT_UPSTREAM_S, PageLines, UpstreamFams)
  BY <1>1, <1>2, UpstreamNamesOnce, DeclareHelps DEF PageLines, UpstreamFams, P!FMT_UPSTREAM_S
<1> QED BY <1>3, <1>4, <1>5

LEMMA MainDeclares == Declares(P!FMT_MAIN, PageLines, Mains)
<1> DEFINE m == P!FMT_MAIN
           a == <<"info">>
           b == <<"start_time">>
           c == <<"main_connections">>
<1>1. a # b /\ a # c /\ b # c /\ Mains = {a, b, c} BY DEF Mains
<1>2. Mains \subseteq Families /\ <<>> \in Labels BY DEF Families, Labels
<1>3. m = <<P!Help(a), P!Sample(a, <<>>), P!Help(b), P!Sample(b, <<>>),
            P!Help(c), P!Sample(c, <<>>)>>
  BY DEF P!FMT_MAIN
<1> HIDE DEF a, b, c, m
<1>4. \A f \in Mains : /\ P!Help(f) \in PageLines /\ P!Sample(f, <<>>) \in PageLines
  BY <1>2 DEF PageLines, Lines, P!Help, P!Sample
<1>5. \A f : /\ P!Help(f).t = "help" /\ P!Help(f).fam = f
             /\ P!Sample(f, <<>>).t = "sample" /\ P!Sample(f, <<>>).fam = f
  BY DEF P!Help, P!Sample
<1>6. m \in Seq(PageLines) /\ DOMAIN m = 1 .. 6 BY <1>1, <1>3, <1>4
<1>7. /\ m[1] = P!Help(a) /\ m[2] = P!Sample(a, <<>>) /\ m[3] = P!Help(b)
      /\ m[4] = P!Sample(b, <<>>) /\ m[5] = P!Help(c) /\ m[6] = P!Sample(c, <<>>)
  BY <1>3
<1> DEFINE k(i) == m[i].t
           f(i) == m[i].fam
<1>8. /\ k(1) = "help" /\ k(2) = "sample" /\ k(3) = "help" /\ k(4) = "sample" /\ k(5) = "help"
      /\ k(6) = "sample" /\ f(1) = a /\ f(2) = a /\ f(3) = b /\ f(4) = b /\ f(5) = c /\ f(6) = c
  BY <1>5, <1>7
<1>9. \A i \in 1 .. 6 : P!IsSample(m[i]) => \E j \in 1 .. i - 1 : m[j] = P!Help(m[i].fam)
  <2> SUFFICES ASSUME NEW i \in 1 .. 6, m[i].t = "sample"
               PROVE  \E j \in 1 .. i - 1 : m[j] = P!Help(m[i].fam)
    BY DEF P!IsSample
  <2>1. i = 2 \/ i = 4 \/ i = 6
    <3>1. i # 1 /\ i # 3 /\ i # 5 BY <1>8
    <3> QED BY <3>1
  <2>2. m[i - 1] = P!Help(m[i].fam) BY <1>7, <1>8, <2>1
  <2> QED BY <2>1, <2>2
<1>10. \A i, j \in 1 .. 6 : m[i].t = "help" /\ m[i] = m[j] => i = j
  <2> SUFFICES ASSUME NEW i \in 1 .. 6, NEW j \in 1 .. 6, m[i].t = "help", m[i] = m[j]
               PROVE  i = j
    OBVIOUS
  <2>1. i # 2 /\ i # 4 /\ i # 6 /\ j # 2 /\ j # 4 /\ j # 6 BY <1>8
  <2>2. m[i].fam = m[j].fam OBVIOUS
  <2> QED BY <1>1, <1>8, <2>1, <2>2
<1>11. \A i \in 1 .. 6 : m[i].t = "help" => \E g \in Mains : m[i] = P!Help(g)
  BY <1>1, <1>7, <1>8
<1>12. \A g \in Mains : \E j \in 1 .. 6 : m[j] = P!Help(g) BY <1>1, <1>7
<1>13. P!FamiliesDeclared(m) BY <1>6, <1>9, <1>10 DEF P!FamiliesDeclared
<1> QED BY <1>6, <1>11, <1>12, <1>13 DEF Declares, m

\* A section that is opened behind buf: the families of G are declared, fam is one of them.
Opens(buf, helps, opened, A, H, G, fam) ==
  /\ Declares(buf, A, H) /\ Behind(buf, helps, A, opened) /\ HelpsOf(helps, A, G)
  /\ G \cap H = {} /\ fam \in G /\ <<"collector">> \notin G

\* The lines of the nodes in S, each of which shows its name once.
Fills(pieces, S, K, A, L, G, fam, name) ==
  /\ S \subseteq K /\ IsTable(name, K, L)
  /\ \A k \in S : SamplesOf(pieces[k], A, G) /\ Shown(pieces[k], A, fam) = <<name[k]>>

\* It shows what it is to show, and what the other sections show is as before.
Sectioned(text, buf, A, G, fam, shown) ==
  /\ Shown(text, A, fam) = shown
  /\ \A g : g \notin G => Shown(text, A, g) = Shown(buf, A, g)

\* The section is filled; if nothing was written into it there was nothing to show.
Filled(text, opened, buf, A, H, G, fam, shown) ==
  /\ Declares(text, A, H \cup G) /\ Sectioned(text, buf, A, G, fam, shown)
  /\ text = opened => shown = <<>>

LEMMA SectionFilled ==
  ASSUME NEW A, NEW L, LinesIn(A, L), NEW buf, NEW helps, NEW opened, NEW H, NEW G, NEW fam,
         Opens(buf, helps, opened, A, H, G, fam),
         NEW n, NEW D, NEW E, NEW walk, NEW K, Positions(n, D, E, walk, K),
         NEW pieces, NEW S, NEW name, Fills(pieces, S, K, A, L, G, fam, name),
         NEW c, Grows(c, n, D, E, A, opened, walk, S, pieces)
  PROVE  Filled(c[n], opened, buf, A, H, G, fam, Picked(walk, S, name))
<1> DEFINE shown == Picked(walk, S, name)
           filled == c[n]
<1>1. /\ Declares(buf, A, H) /\ Behind(buf, helps, A, opened) /\ HelpsOf(helps, A, G)
      /\ G \cap H = {} /\ fam \in G /\ fam # <<"collector">>
  BY DEF Opens
<1>2. /\ S \subseteq K /\ IsTable(name, K, L) /\ \A k \in S : SamplesOf(pieces[k], A, G)
      /\ \A k \in S : Shown(pieces[k], A, fam) = <<name[k]>>
  BY DEF Fills
<1>3. Declares(opened, A, H \cup G) BY <1>1, HelpsBehind
<1>4. Declares(filled, A, H \cup G)
  <2>1. G \subseteq H \cup G OBVIOUS
  <2> DEFINE I == H \cup G
  <2> HIDE DEF I, filled
  <2>2. Declares(opened, A, I) /\ G \subseteq I BY <1>3, <2>1 DEF I
  <2>3. Declares(c[n], A, I) BY <1>2, <2>2, GrowsDeclares
  <2> QED BY <2>3 DEF I, filled
<1>5. \A g : Shown(opened, A, g) = Shown(buf, A, g)
  <2> TAKE g
  <2>1. Shown(helps, A, g) = <<>> BY <1>1, HelpsHidden
  <2> QED BY <1>1, <2>1, HiddenBehind
<1>6. Shown(buf, A, fam) = <<>>
  <2>1. fam \notin H /\ fam # <<"collector">> BY <1>1
  <2> QED BY <1>1, <2>1, Undeclared
<1>7. shown \in Seq(L)
  <2>1. n \in Nat /\ walk \in [1 .. n -> K] BY DEF Positions
  <2>2. walk \in Seq(K) BY <2>1, IsASeq
  <2> QED BY <1>2, <2>2, PickedType
<1>8. Shown(filled, A, fam) = Shown(opened, A, fam) \o shown
  <2> DEFINE pick == {l \in A : l.t = "sample" /\ l.fam = fam}
             table == [l \in A |-> l.labels]
  <2>1. IsTable(table, A, L) BY DEF LinesIn
  <2>2. \A k \in S : Picked(pieces[k], pick, table) = <<name[k]>> BY <1>2 DEF Shown
  <2> HIDE DEF pick, table, filled, shown
  <2>3. S \in SUBSET K BY <1>2
  <2>4. Behind(Picked(opened, pick, table), Picked(walk, S, name), L, Picked(c[n], pick, table))
    BY <1>2, <2>1, <2>2, <2>3, PiecesShown
  <2> QED BY <2>4 DEF Shown, Behind, pick, table, filled, shown
<1>9. Shown(filled, A, fam) = shown
  <2> HIDE DEF shown, filled
  <2>1. Shown(opened, A, fam) = <<>> BY <1>5, <1>6
  <2>2. <<>> \o shown = shown BY <1>7
  <2> QED BY <1>8, <2>1, <2>2
<1>10. ASSUME NEW g, g \notin G PROVE Shown(filled, A, g) = Shown(buf, A, g)
  <2> DEFINE pick == {l \in A : l.t = "sample" /\ l.fam = g}
             table == [l \in A |-> l.labels]
  <2>1. IsTable(table, A, L) BY DEF LinesIn
  <2>2. \A k \in S : Shown(pieces[k], A, g) = <<>> BY <1>2, <1>10, SamplesHidden
  <2>3. \A k \in S : Picked(pieces[k], pick, table) = <<>> BY <2>2 DEF Shown
  <2> HIDE DEF pick, table, filled, shown
  <2>4. S \in SUBSET K BY <1>2
  <2>5. Picked(c[n], pick, table) = Picked(opened, pick, table)
    BY <2>1, <2>3, <2>4, PiecesHidden
  <2>6. Shown(filled, A, g) = Shown(opened, A, g) BY <2>5 DEF Shown, pick, table, filled
  <2> QED BY <1>5, <2>6
<1>11. filled = opened => shown = <<>> BY <1>5, <1>6, <1>9
<1> HIDE DEF shown, filled
<1>12. Sectioned(filled, buf, A, G, fam, shown) BY <1>9, <1>10 DEF Sectioned
<1>13. Filled(filled, opened, buf, A, H, G, fam, shown) BY <1>4, <1>11, <1>12 DEF Filled
<1> QED BY <1>13 DEF shown, filled

\* A section without a node is taken back.
Taken(text, buf, A, H, G, fam, shown) ==
  /\ \E I : Declares(text, A, I) /\ H \subseteq I /\ I \subseteq H \cup G
  /\ Sectioned(text, buf, A, G, fam, shown)

LEMMA SectionTaken ==
  ASSUME NEW A, NEW buf, NEW helps, NEW opened, NEW H, NEW G, NEW fam,
         Opens(buf, helps, opened, A, H, G, fam), NEW filled, NEW shown,
         Filled(filled, opened, buf, A, H, G, fam, shown)
  PROVE  Taken(P!Section(buf, opened, filled), buf, A, H, G, fam, shown)
<1> DEFINE text == P!Section(buf, opened, filled)
<1>0. /\ Declares(filled, A, H \cup G) /\ Sectioned(filled, buf, A, G, fam, shown)
      /\ filled = opened => shown = <<>>
  BY DEF Filled
<1>1. CASE filled # opened
  <2>1. text = filled BY <1>1 DEF P!Section
  <2>2. H \subseteq H \cup G OBVIOUS
  <2> HIDE DEF text
  <2>3. Taken(text, buf, A, H, G, fam, shown) BY <1>0, <2>1, <2>2 DEF Taken
  <2> QED BY <2>3 DEF text
<1>2. CASE filled = opened
  <2>1. text = buf /\ shown = <<>> BY <1>0, <1>2 DEF P!Section
  <2>2. Declares(buf, A, H) /\ fam \notin H /\ fam # <<"collector">> BY DEF Opens
  <2>3. Shown(buf, A, fam) = <<>> BY <2>2, Undeclared
  <2> HIDE DEF text
  <2>4. Sectioned(text, buf, A, G, fam, shown) BY <2>1, <2>3 DEF Sectioned
  <2>5. Taken(text, buf, A, H, G, fam, shown) BY <2>1, <2>2, <2>4 DEF Taken
  <2> QED BY <2>5 DEF text
<1> QED BY <1>1, <1>2

(* The collectors. *)
CollectorNames == {P!Collectors[i] : i \in 1 .. 10}
CollectState == [buf : Seq(PageLines), size : Nat, full : BOOLEAN]
CollectStart(buf) == [buf |-> buf, size |-> 0, full |-> FALSE]
CollectLine(col) == P!Sample(<<"collector">>, <<col>>)

LEMMA CollectorsList == Positions(10, 1 .. 10, 0 .. 10, P!Collectors, CollectorNames)
<1>1. DOMAIN P!Collectors = 1 .. 10 BY DEF P!Collectors
<1>2. P!Collectors = [i \in 1 .. 10 |-> P!Collectors[i]] BY <1>1 DEF P!Collectors
<1>3. P!Collectors \in [1 .. 10 -> CollectorNames] BY <1>2 DEF CollectorNames
<1> QED BY <1>3 DEF Positions

LEMMA CollectLineType ==
  ASSUME NEW col \in CollectorNames
  PROVE  /\ CollectLine(col) \in PageLines /\ CollectLine(col).t = "sample"
         /\ CollectLine(col).fam = <<"collector">> /\ CollectLine(col).labels = <<col>>
<1>1. <<"collector">> \in Families BY DEF Families
<1>2. <<col>> \in Labels
  <2>1. DOMAIN P!Collectors = 1 .. 10 BY DEF P!Collectors
  <2>2. PICK i \in DOMAIN P!Collectors : col = P!Collectors[i] BY <2>1 DEF CollectorNames
  <2> QED BY <2>2 DEF Labels
<1> QED BY <1>1, <1>2 DEF CollectLine, P!Sample, PageLines, Lines

LEMMA CollectType ==
  ASSUME NEW lens \in Lens, NEW acc \in CollectState, NEW col \in CollectorNames
  PROVE  /\ P!Collect(acc, col, lens) \in CollectState
         /\ \/ P!Collect(acc, col, lens) = acc /\ (acc.full \/ col \notin Enabled)
            \/ /\ P!Collect(acc, col, lens).full
               /\ P!Collect(acc, col, lens).buf = acc.buf
               /\ P!Collect(acc, col, lens).size = acc.size
            \/ /\ ~acc.full /\ ~P!Collect(acc, col, lens).full /\ col \in Enabled
               /\ P!Collect(acc, col, lens).buf = Append(acc.buf, CollectLine(col))
               /\ P!Collect(acc, col, lens).size <= metrics_size
<1> DEFINE line == CollectLine(col)
           next == P!Collect(acc, col, lens)
<1>1. line \in PageLines BY CollectLineType
<1>2. acc.buf \in Seq(PageLines) /\ acc.size \in Nat /\ acc.full \in BOOLEAN BY DEF CollectState
<1>3. acc = [buf |-> acc.buf, size |-> acc.size, full |-> acc.full] BY DEF CollectState
<1>4. metrics_size \in Nat /\ lens \in [Enabled -> Nat] BY LensAssumption
<1>5. CASE col \notin Enabled \/ acc.full
  <2>1. next = acc BY <1>5 DEF P!Collect
  <2> QED BY <1>5, <2>1
<1>6. CASE col \in Enabled /\ ~acc.full /\ acc.size + lens[col] > metrics_size
  <2>1. next = [acc EXCEPT !.full = TRUE] BY <1>6 DEF P!Collect
  <2> HIDE DEF next
  <2>2. next \in CollectState /\ next.full /\ next.buf = acc.buf /\ next.size = acc.size
    BY <2>1 DEF CollectState
  <2> QED BY <2>2 DEF next
<1>7. CASE col \in Enabled /\ ~acc.full /\ ~(acc.size + lens[col] > metrics_size)
  <2> DEFINE size == acc.size + lens[col]
             buf == Append(acc.buf, line)
  <2>1. lens[col] \in Nat BY <1>4, <1>7
  <2>2. size \in Nat /\ size <= metrics_size BY <1>2, <1>4, <1>7, <2>1
  <2>3. buf \in Seq(PageLines) BY <1>1, <1>2, AppendProperties
  <2>4. next = [acc EXCEPT !.size = size, !.buf = buf] BY <1>7 DEF P!Collect, CollectLine
  <2> HIDE DEF size, buf, next
  <2>5. next = [buf |-> buf, size |-> size, full |-> acc.full] BY <1>3, <2>4
  <2>6. next \in CollectState /\ next.buf = buf /\ next.size = size /\ ~next.full
    BY <1>2, <1>7, <2>2, <2>3, <2>5 DEF CollectState
  <2> QED BY <1>7, <2>2, <2>6 DEF next, buf
<1> QED BY <1>5, <1>6, <1>7

CollectFold(buf, list, lens) ==
  P!FoldLeft(LAMBDA acc, col : P!Collect(acc, col, lens), CollectStart(buf), list)
CollectChain(c, n, D, E, buf, list, lens) ==
  /\ c \in [E -> CollectState] /\ c[0] = CollectStart(buf) /\ c[n] = CollectFold(buf, list, lens)
  /\ \A k \in D : c[k] = P!Collect(c[k - 1], list[k], lens)

LEMMA CollectorsFold ==
  ASSUME NEW buf, buf \in Seq(PageLines), NEW lens, lens \in Lens,
         NEW n, NEW D, NEW E, NEW list, Positions(n, D, E, list, CollectorNames)
  PROVE  \E c : CollectChain(c, n, D, E, buf, list, lens)
<1>0. n \in Nat /\ D = 1 .. n /\ E = 0 .. n /\ list \in [D -> CollectorNames] BY DEF Positions
<1> DEFINE A == CollectState
           f == [q \in A \X CollectorNames |-> P!Collect(q[1], q[2], lens)]
           Is(g) == g = [s \in SUBSET D |->
                           IF s = {} THEN CollectStart(buf)
                           ELSE P!Collect(g[s \ {Highest(s)}], list[Highest(s)], lens)]
           h == CHOOSE g : Is(g)
<1>1. f \in [A \X CollectorNames -> A] /\ CollectStart(buf) \in A BY CollectType DEF CollectStart, CollectState
<1>2. \A b \in A, k \in CollectorNames : f[<<b, k>>] = P!Collect(b, k, lens) OBVIOUS
<1>3. CollectFold(buf, list, lens) = h[D]
  BY <1>0 DEF CollectFold, CollectStart, P!FoldLeft, P!MapThenFoldSet, P!Max, Highest
<1> HIDE DEF f, A
<1>4. Is(h)
  <2>1. PICK g \in [SUBSET D -> A] : Folds(g, f, CollectStart(buf), list, D) BY <1>0, <1>1, FoldExists
  <2>2. \A s \in SUBSET D : s # {} => g[s \ {Highest(s)}] \in A /\ list[Highest(s)] \in CollectorNames BY <1>0, HighestOf
  <2>3. \A s \in SUBSET D : s # {} =>
          f[<<g[s \ {Highest(s)}], list[Highest(s)]>>]
            = P!Collect(g[s \ {Highest(s)}], list[Highest(s)], lens)
    BY <1>2, <2>2
  <2>4. Is(g) BY <2>1, <2>3 DEF Folds
  <2> QED BY <2>4
<1> HIDE DEF h
<1> DEFINE c == [k \in E |-> h[1 .. k]]
<1>5. c[0] = CollectStart(buf) /\ c[n] = h[D]
  <2>1. 1 .. 0 = {} /\ 0 \in E /\ n \in E BY <1>0
  <2> QED BY <1>0, <1>4, <2>1
<1>6. \A k \in D : c[k] = P!Collect(c[k - 1], list[k], lens)
  <2> SUFFICES ASSUME NEW k \in D
               PROVE  c[k] = P!Collect(c[k - 1], list[k], lens)
    OBVIOUS
  <2>1. 1 .. k \in SUBSET D /\ 1 \in 1 .. k /\ k \in E /\ k - 1 \in E BY <1>0
  <2>2. Highest(1 .. k) = k /\ (1 .. k) \ {k} = 1 .. k - 1 BY <1>0, HighestUpTo
  <2>3. h[1 .. k] = P!Collect(h[1 .. k - 1], list[k], lens)
    BY <1>4, <2>1, <2>2
  <2>4. c[k] = h[1 .. k] /\ c[k - 1] = h[1 .. k - 1] BY <2>1
  <2> QED BY <2>3, <2>4
<1> HIDE DEF Is, c
<1>7. \A k \in D : c[k - 1] \in A => c[k] = f[<<c[k - 1], list[k]>>] BY <1>0, <1>2, <1>6
<1>8. \A k \in E : c[k] \in A
  <2>1. Chained(n, D, E, A, CollectorNames, list, f, c) BY <1>0, <1>1, <1>5, <1>7 DEF Chained
  <2> QED BY <2>1, FoldChain
<1>9. c \in [E -> A] BY <1>8 DEF c
<1> QED BY <1>3, <1>5, <1>6, <1>9 DEF A, CollectChain

\* What is kept of a beginning is a beginning of what is kept.
LEMMA KeptPrefix ==
  ASSUME NEW X, NEW n \in Nat, NEW c, NEW s, NEW set, KeptUpTo(s, set, c, n),
         \A i \in 0 .. n : c[i] \in Seq(X), NEW j \in 0 .. n
  PROVE  IsPrefix(c[j], c[n])
<1> DEFINE p == c[j]
           T == {i \in 0 .. n : i >= j => Len(p) <= Len(c[i]) /\ SubSeq(c[i], 1, Len(p)) = p}
<1>1. p \in Seq(X) BY DEF KeptUpTo
<1>2. Len(p) \in Nat /\ SubSeq(p, 1, Len(p)) = p BY <1>1, LenProperties
<1>3. 0 \in T
  <2>1. 0 >= j => j = 0 OBVIOUS
  <2> QED BY <1>2, <2>1
<1>4. ASSUME NEW i \in 0 .. n - 1, i \in T PROVE i + 1 \in T
  <2> DEFINE a == c[i]
             b == c[i + 1]
             x == s[i + 1]
  <2>1. i + 1 \in 1 .. n /\ i + 1 \in 0 .. n /\ (i + 1) - 1 = i /\ i \in 0 .. n OBVIOUS
  <2>2. b = IF x \in set THEN Append(a, x) ELSE a BY <2>1 DEF KeptUpTo
  <2>3. a \in Seq(X) /\ b \in Seq(X) BY <2>1
  <2>4. CASE i + 1 < j BY <2>1, <2>4
  <2>5. CASE i + 1 = j BY <1>2, <2>1, <2>5
  <2>6. CASE i >= j
    <3>1. Len(p) <= Len(a) /\ SubSeq(a, 1, Len(p)) = p BY <1>4, <2>6
    <3>2. CASE x \notin set BY <2>1, <2>2, <3>1, <3>2
    <3>3. CASE x \in set
      <4>1. b = Append(a, x) BY <2>2, <3>3
      <4> HIDE DEF a, b, x, p
      <4>2. x \in X
        <5>1. Len(b) = Len(a) + 1 /\ b[Len(a) + 1] = x BY <2>3, <4>1
        <5>2. Len(a) \in Nat BY <2>3, LenProperties
        <5> QED BY <2>3, <5>1, <5>2, ElementOfSeq
      <4>3. Len(b) = Len(a) + 1 /\ \A k \in 1 .. Len(a) : b[k] = a[k]
        BY <2>3, <4>1, <4>2, AppendProperties
      <4>4. Len(a) \in Nat BY <2>3, LenProperties
      <4>5. Len(p) <= Len(b) BY <1>2, <3>1, <4>3, <4>4
      <4>6. SubSeq(b, 1, Len(p)) = SubSeq(a, 1, Len(p)) BY <1>2, <2>3, <3>1, <4>3, <4>4
      <4>7. SubSeq(b, 1, Len(p)) = p BY <3>1, <4>6
      <4> QED BY <2>1, <4>5, <4>7 DEF b
    <3> QED BY <3>2, <3>3
  <2> QED BY <2>1, <2>4, <2>5, <2>6
<1> HIDE DEF T
<1>5. \A i \in 0 .. n : i \in T BY <1>3, <1>4, InductTo
<1>6. n \in 0 .. n /\ n >= j OBVIOUS
<1>7. Len(p) <= Len(c[n]) /\ SubSeq(c[n], 1, Len(p)) = p BY <1>5, <1>6 DEF T
<1> QED BY <1>2, <1>7 DEF IsPrefix

\* The collectors that a text names.
NamedIn(text) ==
  Picked(text, {l \in PageLines : l.fam = <<"collector">>}, [l \in PageLines |-> l.labels[1]])

LEMMA SpelledAppend ==
  ASSUME NEW m \in Seq(PageLines), NEW col \in CollectorNames
  PROVE  NamedIn(Append(m, CollectLine(col))) = Append(NamedIn(m), col)
<1> DEFINE pick == {l \in PageLines : l.fam = <<"collector">>}
           table == [l \in PageLines |-> l.labels[1]]
           Q == {l.labels[1] : l \in PageLines}
           line == CollectLine(col)
           k == Kept(m, pick)
<1>1. IsTable(table, PageLines, Q) BY DEF IsTable
<1>2. line \in PageLines /\ line \in pick /\ table[line] = col BY CollectLineType
<1> HIDE DEF pick, table, Q, line
<1>3. Kept(Append(m, line), pick) = Append(k, line) BY <1>2, KeptAppend
<1>4. k \in Seq(PageLines) BY KeptType
<1> HIDE DEF k
<1>5. Mapped(Append(k, line), table) = Append(Mapped(k, table), table[line])
  BY <1>1, <1>2, <1>4, MappedAppend
<1> QED BY <1>2, <1>3, <1>5 DEF NamedIn, Picked, pick, table, line, k

\* What the collectors have appended so far: lines of theirs, that name the first of those
\* turned on; d[i] are those among the first i.
Appended(buf, m, acc, d, i) ==
  /\ SamplesOf(m, PageLines, {<<"collector">>}) /\ Behind(buf, m, PageLines, acc.buf)
  /\ \E j \in 0 .. i : NamedIn(m) = d[j] /\ (acc.full \/ NamedIn(m) = d[i])
  /\ acc.size <= metrics_size

LEMMA CollectorsAppended ==
  ASSUME NEW buf \in Seq(PageLines), NEW lens \in Lens
  PROVE  LET end == CollectFold(buf, P!Collectors, lens)
         IN /\ end.size <= metrics_size
            /\ \E m : /\ SamplesOf(m, PageLines, {<<"collector">>})
                      /\ Behind(buf, m, PageLines, end.buf)
                      /\ IsPrefix(NamedIn(m), Kept(P!Collectors, Enabled))
<1> DEFINE list == P!Collectors
           n == 10
           D == 1 .. n
           E == 0 .. n
           coll == <<"collector">>
<1>1. Positions(n, D, E, list, CollectorNames) BY CollectorsList
<1>2. list \in Seq(CollectorNames) /\ Len(list) = n
  <2>1. list \in [1 .. n -> CollectorNames] BY <1>1 DEF Positions
  <2>2. n \in Nat OBVIOUS
  <2> HIDE DEF list, n
  <2>3. list \in Seq(CollectorNames) BY <2>1, <2>2, IsASeq
  <2>4. DOMAIN list = 1 .. n BY <2>1
  <2> QED BY <2>2, <2>3, <2>4, LenProperties
<1>3. n \in Nat /\ D = 1 .. n /\ E = 0 .. n OBVIOUS
<1> HIDE DEF n, D, E, list, coll
<1>4. PICK c : CollectChain(c, n, D, E, buf, list, lens) BY <1>1, CollectorsFold
<1>5. PICK d : /\ \A i \in 0 .. n : d[i] \in Seq(CollectorNames)
               /\ KeptUpTo(list, Enabled, d, n) /\ Kept(list, Enabled) = d[n]
  BY <1>2, KeptSteps
<1> DEFINE T == {i \in 0 .. n : \E m : Appended(buf, m, c[i], d, i)}
<1>6. 0 \in T
  <2>1. c[0] = CollectStart(buf) BY <1>4 DEF CollectChain
  <2>2. c[0].buf = buf /\ c[0].size = 0 BY <2>1 DEF CollectStart
  <2>3. SamplesOf(<<>>, PageLines, {coll}) BY DEF SamplesOf
  <2>4. Behind(buf, <<>>, PageLines, buf) BY DEF Behind
  <2>5. NamedIn(<<>>) = <<>>
    <3> DEFINE pick == {l \in PageLines : l.fam = <<"collector">>}
               table == [l \in PageLines |-> l.labels[1]]
    <3> HIDE DEF pick, table
    <3>1. \A j \in 1 .. Len(<<>>) : <<>>[j] \notin pick OBVIOUS
    <3>2. <<>> \in Seq(PageLines) OBVIOUS
    <3>3. Kept(<<>>, pick) = <<>> BY <3>1, <3>2, KeptNone
    <3>4. Mapped(<<>>, table) = <<>> BY DEF Mapped
    <3> QED BY <3>3, <3>4 DEF NamedIn, Picked, pick, table
  <2>6. d[0] = <<>> BY <1>5 DEF KeptUpTo
  <2>7. metrics_size \in Nat BY LensAssumption
  <2>8. 0 <= metrics_size BY <2>7
  <2>9. 0 \in 0 .. 0 /\ 0 \in 0 .. n BY <1>3
  <2>10. Appended(buf, <<>>, c[0], d, 0)
    BY <2>2, <2>3, <2>4, <2>5, <2>6, <2>8, <2>9 DEF Appended, coll
  <2> QED BY <2>9, <2>10
<1>7. ASSUME NEW i \in 0 .. n - 1, i \in T PROVE i + 1 \in T
  <2> DEFINE acc == c[i]
             next == c[i + 1]
             col == list[i + 1]
  <2>1. i + 1 \in 1 .. n /\ i + 1 \in 0 .. n /\ (i + 1) - 1 = i /\ i \in 0 .. n /\ i \in Nat
    BY <1>3
  <2>2. acc \in CollectState /\ col \in CollectorNames BY <1>1, <1>3, <1>4, <2>1 DEF CollectChain, Positions
  <2>3. next = P!Collect(acc, col, lens) BY <1>3, <1>4, <2>1 DEF CollectChain
  <2>4. d[i + 1] = IF col \in Enabled THEN Append(d[i], col) ELSE d[i] BY <1>5, <2>1 DEF KeptUpTo
  <2>5. PICK m : Appended(buf, m, acc, d, i) BY <1>7
  <2> HIDE DEF acc, next, col
  <2>6. PICK j \in 0 .. i : NamedIn(m) = d[j] /\ (acc.full \/ NamedIn(m) = d[i])
    BY <2>5 DEF Appended
  <2>7. SamplesOf(m, PageLines, {coll}) /\ Behind(buf, m, PageLines, acc.buf)
        /\ acc.size <= metrics_size
    BY <2>5 DEF Appended, coll
  <2>8. j \in 0 .. i + 1 /\ i + 1 \in 0 .. i + 1 BY <2>1
  <2>9. CASE next = acc /\ (acc.full \/ col \notin Enabled)
    <3>1. acc.full \/ NamedIn(m) = d[i + 1] BY <2>4, <2>6, <2>9
    <3>2. Appended(buf, m, next, d, i + 1) BY <2>6, <2>7, <2>8, <2>9, <3>1 DEF Appended, coll
    <3> QED BY <2>1, <3>2 DEF next
  <2>10. CASE next.full /\ next.buf = acc.buf /\ next.size = acc.size
    <3>1. Appended(buf, m, next, d, i + 1) BY <2>6, <2>7, <2>8, <2>10 DEF Appended, coll
    <3> QED BY <2>1, <3>1 DEF next
  <2>11. CASE /\ ~acc.full /\ ~next.full /\ col \in Enabled
              /\ next.buf = Append(acc.buf, CollectLine(col)) /\ next.size <= metrics_size
    <3> DEFINE line == CollectLine(col)
               more == Append(m, line)
    <3>1. line \in PageLines /\ line.t = "sample" /\ line.fam = coll
      BY <2>2, CollectLineType DEF coll
    <3>2. m \in Seq(PageLines) BY <2>7 DEF SamplesOf
    <3>3. NamedIn(more) = d[i + 1]
      <4>1. NamedIn(more) = Append(NamedIn(m), col) BY <2>2, <3>2, SpelledAppend
      <4> HIDE DEF more
      <4>2. NamedIn(m) = d[i] BY <2>6, <2>11
      <4> QED BY <2>4, <2>11, <4>1, <4>2
    <3> HIDE DEF line
    <3>4. SamplesOf(more, PageLines, {coll})
      <4>1. more \in Seq(PageLines) /\ Len(more) = Len(m) + 1 /\ Len(m) \in Nat
            /\ more[Len(m) + 1] = line /\ \A k \in 1 .. Len(m) : more[k] = m[k]
        BY <3>1, <3>2, AppendProperties, LenProperties
      <4> HIDE DEF more
      <4>2. DOMAIN more = 1 .. Len(m) + 1 /\ DOMAIN m = 1 .. Len(m)
        BY <3>2, <4>1, LenProperties
      <4>3. ASSUME NEW k \in 1 .. Len(m) + 1 PROVE more[k].t = "sample" /\ more[k].fam = coll
        <5>1. CASE k = Len(m) + 1 BY <3>1, <4>1, <5>1
        <5>2. CASE k \in 1 .. Len(m)
          <6>1. m[k].t = "sample" /\ m[k].fam = coll BY <2>7, <4>2, <5>2 DEF SamplesOf
          <6>2. more[k] = m[k] BY <4>1, <5>2
          <6> QED BY <6>1, <6>2
        <5>3. k = Len(m) + 1 \/ k \in 1 .. Len(m) BY <4>1
        <5> QED BY <5>1, <5>2, <5>3
      <4> QED BY <4>1, <4>2, <4>3 DEF SamplesOf
    <3>5. Behind(buf, more, PageLines, next.buf)
      <4>1. acc.buf = buf \o m BY <2>7 DEF Behind
      <4>2. buf \o more = Append(buf \o m, line) BY <3>1, <3>2, AppendBehind
      <4>3. more \in Seq(PageLines) BY <3>1, <3>2, AppendProperties
      <4> HIDE DEF more
      <4>4. next.buf = buf \o more BY <2>11, <4>1, <4>2 DEF line
      <4> QED BY <4>3, <4>4 DEF Behind
    <3> HIDE DEF more
    <3>6. Appended(buf, more, next, d, i + 1) BY <2>8, <2>11, <3>3, <3>4, <3>5 DEF Appended, coll
    <3> QED BY <2>1, <3>6 DEF next
  <2> QED BY <2>2, <2>3, <2>9, <2>10, <2>11, CollectType
<1> HIDE DEF T
<1>8. \A i \in 0 .. n : i \in T BY <1>3, <1>6, <1>7, InductTo
<1>9. n \in 0 .. n BY <1>3
<1>10. PICK m : Appended(buf, m, c[n], d, n) BY <1>8, <1>9 DEF T
<1>11. c[n] = CollectFold(buf, list, lens) BY <1>4 DEF CollectChain
<1>12. PICK j \in 0 .. n : NamedIn(m) = d[j] BY <1>10 DEF Appended
<1>13. IsPrefix(d[j], d[n]) BY <1>3, <1>5, KeptPrefix
<1>14. IsPrefix(NamedIn(m), Kept(list, Enabled)) BY <1>5, <1>12, <1>13
<1>15. /\ SamplesOf(m, PageLines, {<<"collector">>}) /\ Behind(buf, m, PageLines, c[n].buf)
       /\ c[n].size <= metrics_size
  BY <1>10 DEF Appended
<1> QED BY <1>11, <1>14, <1>15 DEF list

LEMMA ServerSection ==
  ASSUME NEW n, NEW D, NEW E, NEW walk, Positions(n, D, E, walk, Keys),
         NEW buf, NEW H, Declares(buf, PageLines, H), ServerFams \cap H = {}
  PROVE  LET text == P!SetServer(buf \o P!FMT_SERVER_S, walk)
         IN Filled(text, buf \o P!FMT_SERVER_S, buf, PageLines, H, ServerFams, <<"server", "bytes_total">>,
                   Picked(walk, ServerNodes, ServerName))
<1> DEFINE G == ServerFams
           S == ServerNodes
           fam == <<"server", "bytes_total">>
           helps == P!FMT_SERVER_S
           opened == buf \o helps
           filled == P!SetServer(opened, walk)
           shown == Picked(walk, S, ServerName)
           text == filled
<1>1. HelpsOf(helps, PageLines, G) BY SectionHelps
<1>2. Behind(buf, helps, PageLines, opened) BY <1>1 DEF Behind, Declares, HelpsOf
<1>3. fam \in G /\ <<"collector">> \notin G
  <2>1. fam \in G BY DEF ServerFams, OfSection, ServerNames, UpstreamNames
  <2> QED BY <2>1, FamsApart
<1> HIDE DEF helps, opened, G, fam
<1>4. Opens(buf, helps, opened, PageLines, H, G, fam) BY <1>1, <1>2, <1>3 DEF Opens, G
<1>5. Fills(ServerPieces, S, Keys, PageLines, Labels, G, fam, ServerName)
  <2>1. IsTable(ServerName, Keys, Labels) BY DEF IsTable, ServerName, Labels, Names
  <2>2. \A k \in Keys : /\ SamplesOf(ServerPieces[k], PageLines, G)
                       /\ Shown(ServerPieces[k], PageLines, fam) = <<ServerName[k]>>
    BY ServerPiece DEF PieceOf, G, fam
  <2>3. S \subseteq Keys BY DEF ServerNodes
  <2> HIDE DEF S
  <2> QED BY <2>1, <2>2, <2>3 DEF Fills
<1>6. opened \in Seq(PageLines) BY <1>2, BehindAt
<1>7. PICK c : Grows(c, n, D, E, PageLines, opened, walk, S, ServerPieces) /\ c[n] = filled
  <2> HIDE DEF filled
  <2>1. \E c : /\ Grows(c, n, D, E, PageLines, opened, walk, S, ServerPieces)
               /\ c[n] = P!SetServer(opened, walk)
    BY <1>6, ServerLinesGrow
  <2> QED BY <2>1 DEF filled
<1> HIDE DEF S
<1>8. Filled(filled, opened, buf, PageLines, H, G, fam, shown)
  <2>1. LinesIn(PageLines, Labels) BY LinesLabels DEF PageLines
  <2> HIDE DEF filled, shown
  <2>2. Grows(c, n, D, E, PageLines, opened, walk, S, ServerPieces) BY <1>7
  <2>3. Filled(c[n], opened, buf, PageLines, H, G, fam, Picked(walk, S, ServerName))
    BY <1>4, <1>5, <2>1, <2>2, SectionFilled
  <2> QED BY <1>7, <2>3 DEF shown
<1> HIDE DEF filled, shown
<1> QED BY <1>8 DEF text, shown, S, fam, G, opened, helps, filled

LEMMA FilterSection ==
  ASSUME NEW n, NEW D, NEW E, NEW walk, Positions(n, D, E, walk, Keys),
         NEW buf, NEW H, Declares(buf, PageLines, H), FilterFams \cap H = {}
  PROVE  LET text == P!Section(buf, buf \o P!FMT_FILTER_S, P!SetFilter(buf \o P!FMT_FILTER_S, walk))
         IN Taken(text, buf, PageLines, H, FilterFams, <<"filter", "bytes_total">>,
                   Picked(walk, FilterNodes, FilterName))
<1> DEFINE G == FilterFams
           S == FilterNodes
           fam == <<"filter", "bytes_total">>
           helps == P!FMT_FILTER_S
           opened == buf \o helps
           filled == P!SetFilter(opened, walk)
           shown == Picked(walk, S, FilterName)
           text == P!Section(buf, opened, filled)
<1>1. HelpsOf(helps, PageLines, G) BY SectionHelps
<1>2. Behind(buf, helps, PageLines, opened) BY <1>1 DEF Behind, Declares, HelpsOf
<1>3. fam \in G /\ <<"collector">> \notin G
  <2>1. fam \in G BY DEF FilterFams, OfSection, ServerNames, UpstreamNames
  <2> QED BY <2>1, FamsApart
<1> HIDE DEF helps, opened, G, fam
<1>4. Opens(buf, helps, opened, PageLines, H, G, fam) BY <1>1, <1>2, <1>3 DEF Opens, G
<1>5. Fills(FilterPieces, S, Keys, PageLines, Labels, G, fam, FilterName)
  <2>1. IsTable(FilterName, Keys, Labels) BY DEF IsTable, FilterName, Labels, Names
  <2>2. \A k \in Keys : /\ SamplesOf(FilterPieces[k], PageLines, G)
                       /\ Shown(FilterPieces[k], PageLines, fam) = <<FilterName[k]>>
    BY FilterPiece DEF PieceOf, G, fam
  <2>3. S \subseteq Keys BY DEF FilterNodes
  <2> HIDE DEF S
  <2> QED BY <2>1, <2>2, <2>3 DEF Fills
<1>6. opened \in Seq(PageLines) BY <1>2, BehindAt
<1>7. PICK c : Grows(c, n, D, E, PageLines, opened, walk, S, FilterPieces) /\ c[n] = filled
  <2> HIDE DEF filled
  <2>1. \E c : /\ Grows(c, n, D, E, PageLines, opened, walk, S, FilterPieces)
               /\ c[n] = P!SetFilter(opened, walk)
    BY <1>6, FilterLinesGrow
  <2> QED BY <2>1 DEF filled
<1> HIDE DEF S
<1>8. Filled(filled, opened, buf, PageLines, H, G, fam, shown)
  <2>1. LinesIn(PageLines, Labels) BY LinesLabels DEF PageLines
  <2> HIDE DEF filled, shown
  <2>2. Grows(c, n, D, E, PageLines, opened, walk, S, FilterPieces) BY <1>7
  <2>3. Filled(c[n], opened, buf, PageLines, H, G, fam, Picked(walk, S, FilterName))
    BY <1>4, <1>5, <2>1, <2>2, SectionFilled
  <2> QED BY <1>7, <2>3 DEF shown
<1> HIDE DEF filled, shown
<1>9. Taken(text, buf, PageLines, H, G, fam, shown) BY <1>4, <1>8, SectionTaken
<1> QED BY <1>9 DEF text, shown, S, fam, G, opened, helps, filled

LEMMA UpstreamSection ==
  ASSUME NEW n, NEW D, NEW E, NEW walk, Positions(n, D, E, walk, Keys),
         NEW buf, NEW H, Declares(buf, PageLines, H), UpstreamFams \cap H = {}
  PROVE  LET text == P!Section(buf, buf \o P!FMT_UPSTREAM_S, P!SetUpstream(buf \o P!FMT_UPSTREAM_S, walk))
         IN Taken(text, buf, PageLines, H, UpstreamFams, <<"upstream", "response_seconds">>,
                   Picked(walk, UpstreamNodes, BackendName))
<1> DEFINE G == UpstreamFams
           S == UpstreamNodes
           fam == <<"upstream", "response_seconds">>
           helps == P!FMT_UPSTREAM_S
           opened == buf \o helps
           filled == P!SetUpstream(opened, walk)
           shown == Picked(walk, S, BackendName)
           text == P!Section(buf, opened, filled)
<1>1. HelpsOf(helps, PageLines, G) BY SectionHelps
<1>2. Behind(buf, helps, PageLines, opened) BY <1>1 DEF Behind, Declares, HelpsOf
<1>3. fam \in G /\ <<"collector">> \notin G
  <2>1. fam \in G BY DEF UpstreamFams, OfSection, ServerNames, UpstreamNames
  <2> QED BY <2>1, FamsApart
<1> HIDE DEF helps, opened, G, fam
<1>4. Opens(buf, helps, opened, PageLines, H, G, fam) BY <1>1, <1>2, <1>3 DEF Opens, G
<1>5. Fills(UpstreamPieces, S, Keys, PageLines, Labels, G, fam, BackendName)
  <2>1. IsTable(BackendName, Keys, Labels) BY DEF IsTable, BackendName, Labels, Names
  <2>2. \A k \in Keys : /\ SamplesOf(UpstreamPieces[k], PageLines, G)
                       /\ Shown(UpstreamPieces[k], PageLines, fam) = <<BackendName[k]>>
    BY UpstreamPiece DEF PieceOf, G, fam
  <2>3. S \subseteq Keys BY DEF UpstreamNodes
  <2> HIDE DEF S
  <2> QED BY <2>1, <2>2, <2>3 DEF Fills
<1>6. opened \in Seq(PageLines) BY <1>2, BehindAt
<1>7. PICK c : Grows(c, n, D, E, PageLines, opened, walk, S, UpstreamPieces) /\ c[n] = filled
  <2> HIDE DEF filled
  <2>1. \E c : /\ Grows(c, n, D, E, PageLines, opened, walk, S, UpstreamPieces)
               /\ c[n] = P!SetUpstream(opened, walk)
    BY <1>6, UpstreamLinesGrow
  <2> QED BY <2>1 DEF filled
<1> HIDE DEF S
<1>8. Filled(filled, opened, buf, PageLines, H, G, fam, shown)
  <2>1. LinesIn(PageLines, Labels) BY LinesLabels DEF PageLines
  <2> HIDE DEF filled, shown
  <2>2. Grows(c, n, D, E, PageLines, opened, walk, S, UpstreamPieces) BY <1>7
  <2>3. Filled(c[n], opened, buf, PageLines, H, G, fam, Picked(walk, S, BackendName))
    BY <1>4, <1>5, <2>1, <2>2, SectionFilled
  <2> QED BY <1>7, <2>3 DEF shown
<1> HIDE DEF filled, shown
<1>9. Taken(text, buf, PageLines, H, G, fam, shown) BY <1>4, <1>8, SectionTaken
<1> QED BY <1>9 DEF text, shown, S, fam, G, opened, helps, filled

\* The page up to its collectors, section by section.
ServerText(walk) == P!SetServer(P!FMT_MAIN \o P!FMT_SERVER_S, walk)
FilterText(walk) ==
  P!Section(ServerText(walk), ServerText(walk) \o P!FMT_FILTER_S,
            P!SetFilter(ServerText(walk) \o P!FMT_FILTER_S, walk))
BackendText(walk) ==
  P!Section(FilterText(walk), FilterText(walk) \o P!FMT_UPSTREAM_S,
            P!SetUpstream(FilterText(walk) \o P!FMT_UPSTREAM_S, walk))

LEMMA PageOfBackends ==
  ASSUME NEW walk, NEW lens
  PROVE  P!PrometheusSet(walk, lens) = CollectFold(BackendText(walk), P!Collectors, lens)
BY DEF P!PrometheusSet, CollectFold, CollectStart, ServerText, FilterText, BackendText

OfServers == <<"server", "bytes_total">>
OfFilters == <<"filter", "bytes_total">>
OfBackends == <<"upstream", "response_seconds">>

\* The nodes of a walk are shown in the sections of their kinds.
PageShows(text, walk) ==
  /\ Shown(text, PageLines, OfServers) = Picked(walk, ServerNodes, ServerName)
  /\ Shown(text, PageLines, OfFilters) = Picked(walk, FilterNodes, FilterName)
  /\ Shown(text, PageLines, OfBackends) = Picked(walk, UpstreamNodes, BackendName)

LEMMA NamedFams ==
  /\ OfServers \in ServerFams /\ OfFilters \in FilterFams /\ OfBackends \in UpstreamFams
  /\ OfServers \notin FilterFams \cup UpstreamFams /\ OfFilters \notin UpstreamFams
<1>1. OfServers \in ServerFams /\ OfFilters \in FilterFams /\ OfBackends \in UpstreamFams
  BY DEF OfServers, OfFilters, OfBackends, ServerFams, FilterFams, UpstreamFams, OfSection,
         ServerNames, UpstreamNames
<1> QED BY <1>1, FamsApart

LEMMA MainHasNoCollector == Shown(P!FMT_MAIN, PageLines, <<"collector">>) = <<>>
<1>1. P!FMT_MAIN \in Seq(PageLines) BY MainDeclares DEF Declares
<1>2. \A i \in DOMAIN P!FMT_MAIN : P!FMT_MAIN[i].fam \in Mains
  <2>1. \A f : P!Help(f).fam = f /\ P!Sample(f, <<>>).fam = f BY DEF P!Help, P!Sample
  <2>2. ASSUME NEW i \in DOMAIN P!FMT_MAIN
        PROVE  \E f \in Mains : P!FMT_MAIN[i] = P!Help(f) \/ P!FMT_MAIN[i] = P!Sample(f, <<>>)
    BY DEF P!FMT_MAIN, Mains
  <2> QED BY <2>1, <2>2
<1> DEFINE coll == <<"collector">>
<1>3. coll \notin Mains BY FamsApart
<1> HIDE DEF coll
<1>4. \A i \in DOMAIN P!FMT_MAIN : ~(P!FMT_MAIN[i].t = "sample" /\ P!FMT_MAIN[i].fam = coll)
  BY <1>2, <1>3
<1>5. Shown(P!FMT_MAIN, PageLines, coll) = <<>> BY <1>1, <1>4, NotShown
<1> QED BY <1>5 DEF coll

\* The families that the page declares; nothing of a collector is among them.
Sections(text, walk) ==
  /\ \E H : Declares(text, PageLines, H) /\ <<"collector">> \notin H
  /\ PageShows(text, walk) /\ Shown(text, PageLines, <<"collector">>) = <<>>

LEMMA SectionsWritten ==
  ASSUME NEW n, NEW D, NEW E, NEW walk, Positions(n, D, E, walk, Keys)
  PROVE  Sections(BackendText(walk), walk)
<1> DEFINE main == P!FMT_MAIN
           opened == main \o P!FMT_SERVER_S
           servers == ServerText(walk)
           filters == FilterText(walk)
           backends == BackendText(walk)
           coll == <<"collector">>
           ofServers == Picked(walk, ServerNodes, ServerName)
           ofFilters == Picked(walk, FilterNodes, FilterName)
           ofBackends == Picked(walk, UpstreamNodes, BackendName)
<1>0. coll \notin Mains \cup ServerFams \cup FilterFams \cup UpstreamFams BY FamsApart
<1>1. Declares(main, PageLines, Mains) /\ Shown(main, PageLines, coll) = <<>>
  BY MainDeclares, MainHasNoCollector
<1>2. ServerFams \cap Mains = {} BY FamsApart
<1>3. Filled(servers, opened, main, PageLines, Mains, ServerFams, OfServers, ofServers)
  <2> HIDE DEF main
  <2>1. Filled(P!SetServer(main \o P!FMT_SERVER_S, walk), main \o P!FMT_SERVER_S, main, PageLines,
               Mains, ServerFams, <<"server", "bytes_total">>, Picked(walk, ServerNodes, ServerName))
    BY <1>1, <1>2, ServerSection
  <2> QED BY <2>1 DEF ServerText, OfServers, main
<1> HIDE DEF opened, main, ofServers, ofFilters, ofBackends
<1> DEFINE H == Mains \cup ServerFams
<1>4. Declares(servers, PageLines, H) /\ Sectioned(servers, main, PageLines, ServerFams, OfServers, ofServers)
  BY <1>3 DEF Filled
<1>5. FilterFams \cap H = {} BY FamsApart
<1>6. coll \notin H /\ H \subseteq Mains \cup ServerFams BY <1>0
<1> HIDE DEF servers, H
<1>7. Taken(filters, servers, PageLines, H, FilterFams, OfFilters, ofFilters)
  <2>1. Taken(P!Section(servers, servers \o P!FMT_FILTER_S, P!SetFilter(servers \o P!FMT_FILTER_S, walk)),
              servers, PageLines, H, FilterFams, <<"filter", "bytes_total">>,
              Picked(walk, FilterNodes, FilterName))
    BY <1>4, <1>5, FilterSection
  <2> QED BY <2>1 DEF FilterText, OfFilters, ofFilters, servers
<1>8. PICK I : Declares(filters, PageLines, I) /\ I \subseteq H \cup FilterFams
  BY <1>7 DEF Taken
<1>9. Sectioned(filters, servers, PageLines, FilterFams, OfFilters, ofFilters) BY <1>7 DEF Taken
<1>10. UpstreamFams \cap I = {} BY <1>6, <1>8, FamsApart
<1> HIDE DEF filters
<1>11. Taken(backends, filters, PageLines, I, UpstreamFams, OfBackends, ofBackends)
  <2>1. Taken(P!Section(filters, filters \o P!FMT_UPSTREAM_S, P!SetUpstream(filters \o P!FMT_UPSTREAM_S, walk)),
              filters, PageLines, I, UpstreamFams, <<"upstream", "response_seconds">>,
              Picked(walk, UpstreamNodes, BackendName))
    BY <1>8, <1>10, UpstreamSection
  <2> QED BY <2>1 DEF BackendText, OfBackends, ofBackends, filters
<1>12. PICK L : Declares(backends, PageLines, L) /\ L \subseteq I \cup UpstreamFams
  BY <1>11 DEF Taken
<1>13. Sectioned(backends, filters, PageLines, UpstreamFams, OfBackends, ofBackends)
  BY <1>11 DEF Taken
<1> HIDE DEF coll
<1>14. coll \notin L BY <1>0, <1>6, <1>8, <1>12
<1> HIDE DEF backends
<1>15. Shown(backends, PageLines, coll) = <<>>
  BY <1>0, <1>1, <1>4, <1>9, <1>13 DEF Sectioned
<1>16. Shown(backends, PageLines, OfServers) = ofServers
  BY <1>4, <1>9, <1>13, NamedFams DEF Sectioned
<1>17. Shown(backends, PageLines, OfFilters) = ofFilters
  BY <1>9, <1>13, NamedFams DEF Sectioned
<1>18. Shown(backends, PageLines, OfBackends) = ofBackends BY <1>13 DEF Sectioned
<1>19. PageShows(backends, walk)
  BY <1>16, <1>17, <1>18 DEF PageShows, ofServers, ofFilters, ofBackends
<1>20. Sections(backends, walk) BY <1>12, <1>14, <1>15, <1>19 DEF Sections, coll
<1> QED BY <1>20 DEF backends

\* What is read back from a text is what is picked of it.
LEMMA ReadPicked ==
  ASSUME NEW A, NEW Q, NEW table, IsTable(table, A, Q), NEW text \in Seq(A),
         NEW pick, NEW of, of = Kept(text, pick)
  PROVE  [i \in DOMAIN of |-> table[of[i]]] = Picked(text, pick, table)
BY DEF Picked, Mapped

LEMMA NodesRead ==
  ASSUME NEW text \in Seq(PageLines), NEW section, NEW name
  PROVE  P!NodesShown(text, section, name) = Shown(text, PageLines, <<section, name>>)
<1> DEFINE fam == <<section, name>>
           coll == <<"collector">>
           read == {l \in ToSet(text) : P!IsSample(l) /\ l.fam = fam}
           pick == {l \in PageLines : l.t = "sample" /\ l.fam = fam}
           table == [l \in PageLines |-> l.labels]
           of == P!Kept(text, read)
<1>1. fam # coll OBVIOUS
<1>2. /\ Len(text) \in Nat /\ DOMAIN text = 1 .. Len(text)
      /\ \A i \in 1 .. Len(text) : text[i] \in PageLines
  BY LenProperties, ElementOfSeq
<1>3. P!NodesShown(text, section, name) = [i \in DOMAIN of |-> of[i].labels]
  BY DEF P!NodesShown, P!ToSet, ToSet
<1> HIDE DEF fam, coll
<1>4. \A i \in 1 .. Len(text) : text[i] \in read <=> text[i] \in pick
  <2> TAKE i \in 1 .. Len(text)
  <2>1. text[i] \in ToSet(text) BY <1>2 DEF ToSet
  <2>2. P!IsSample(text[i]) /\ text[i].fam = fam <=> text[i].t = "sample" /\ text[i].fam = fam
    BY <1>1 DEF P!IsSample, coll
  <2> QED BY <1>2, <2>1, <2>2
<1> HIDE DEF read, pick
<1>5. of = Kept(text, pick)
  <2>1. Kept(text, read) = Kept(text, pick) BY <1>4, KeptSame
  <2> QED BY <2>1, KeyOps
<1> HIDE DEF of
<1>6. of \in Seq(PageLines) BY <1>5, KeptType
<1>7. \A i \in DOMAIN of : of[i] \in PageLines BY <1>6, LenProperties, ElementOfSeq
<1>8. [i \in DOMAIN of |-> of[i].labels] = [i \in DOMAIN of |-> table[of[i]]] BY <1>7
<1>9. [i \in DOMAIN of |-> table[of[i]]] = Picked(text, pick, table)
  BY <1>5 DEF Picked, Mapped
<1> QED BY <1>3, <1>8, <1>9 DEF Shown, pick, fam

LEMMA CollectedRead ==
  ASSUME NEW text \in Seq(PageLines)
  PROVE  P!Collected(text) = NamedIn(text)
<1> DEFINE coll == <<"collector">>
           read == {l \in ToSet(text) : l.fam = coll}
           pick == {l \in PageLines : l.fam = coll}
           table == [l \in PageLines |-> l.labels[1]]
           of == P!Kept(text, read)
<1>2. /\ Len(text) \in Nat /\ DOMAIN text = 1 .. Len(text)
      /\ \A i \in 1 .. Len(text) : text[i] \in PageLines
  BY LenProperties, ElementOfSeq
<1>3. P!Collected(text) = [i \in DOMAIN of |-> of[i].labels[1]] BY DEF P!Collected, P!ToSet, ToSet
<1> HIDE DEF coll
<1>4. \A i \in 1 .. Len(text) : text[i] \in read <=> text[i] \in pick
  <2> TAKE i \in 1 .. Len(text)
  <2>1. text[i] \in ToSet(text) BY <1>2 DEF ToSet
  <2> QED BY <1>2, <2>1
<1> HIDE DEF read, pick
<1>5. of = Kept(text, pick)
  <2>1. Kept(text, read) = Kept(text, pick) BY <1>4, KeptSame
  <2> QED BY <2>1, KeyOps
<1> HIDE DEF of
<1>6. of \in Seq(PageLines) BY <1>5, KeptType
<1>7. \A i \in DOMAIN of : of[i] \in PageLines BY <1>6, LenProperties, ElementOfSeq
<1>8. [i \in DOMAIN of |-> of[i].labels[1]] = [i \in DOMAIN of |-> table[of[i]]] BY <1>7
<1>9. [i \in DOMAIN of |-> table[of[i]]] = Picked(text, pick, table)
  BY <1>5 DEF Picked, Mapped
<1> QED BY <1>3, <1>8, <1>9 DEF NamedIn, pick, coll

\* Before the collectors nothing names one.
LEMMA NoneSpelled ==
  ASSUME NEW text, NEW walk, Sections(text, walk)
  PROVE  NamedIn(text) = <<>>
<1> DEFINE coll == <<"collector">>
           pick == {l \in PageLines : l.fam = coll}
           shown == {l \in PageLines : l.t = "sample" /\ l.fam = coll}
           table == [l \in PageLines |-> l.labels[1]]
           labels == [l \in PageLines |-> l.labels]
<1>1. PICK H : Declares(text, PageLines, H) /\ coll \notin H BY DEF Sections
<1>2. text \in Seq(PageLines) BY <1>1 DEF Declares
<1>3. /\ Len(text) \in Nat /\ DOMAIN text = 1 .. Len(text)
      /\ \A i \in 1 .. Len(text) : text[i] \in PageLines
  BY <1>2, LenProperties, ElementOfSeq
<1>4. Picked(text, shown, labels) = <<>> BY DEF Sections, Shown
<1> HIDE DEF coll
<1>5. ASSUME NEW i \in 1 .. Len(text), text[i].fam = coll PROVE FALSE
  <2>1. text[i].t = "help" \/ text[i].t = "sample" BY <1>3 DEF PageLines, Lines
  <2>2. CASE text[i].t = "help"
    <3>1. PICK f \in H : text[i] = P!Help(f) BY <1>1, <1>3, <2>2 DEF Declares
    <3>2. P!Help(f).fam = f BY DEF P!Help
    <3> QED BY <1>1, <1>5, <3>1, <3>2
  <2>3. CASE text[i].t = "sample"
    <3>1. text[i] \in shown BY <1>3, <1>5, <2>3
    <3> HIDE DEF shown
    <3>2. \E j \in 1 .. Len(Kept(text, shown)) : Kept(text, shown)[j] = text[i]
      BY <1>2, <3>1, KeptSet
    <3>3. Kept(text, shown) \in Seq(PageLines) BY <1>2, KeptType
    <3> DEFINE kept == Kept(text, shown)
    <3>4. 1 .. Len(kept) # {} /\ DOMAIN kept = 1 .. Len(kept) BY <3>2, <3>3, LenProperties
    <3>5. DOMAIN Mapped(kept, labels) = DOMAIN kept BY DEF Mapped
    <3>6. Mapped(kept, labels) = <<>> BY <1>4 DEF Picked
    <3> HIDE DEF kept
    <3>7. DOMAIN Mapped(kept, labels) = {} BY <3>6
    <3> QED BY <3>4, <3>5, <3>7
  <2> QED BY <2>1, <2>2, <2>3
<1>6. \A i \in 1 .. Len(text) : text[i] \notin pick BY <1>5
<1> HIDE DEF pick, table
<1>7. Kept(text, pick) = <<>> BY <1>2, <1>6, KeptNone
<1>8. Mapped(<<>>, table) = <<>> BY DEF Mapped
<1> QED BY <1>7, <1>8 DEF NamedIn, Picked, pick, table, coll

\* What a page shows: the families, the nodes, and the first of the collectors.
Whole(text, walk) ==
  /\ \E H : Declares(text, PageLines, H)
  /\ PageShows(text, walk)
  /\ IsPrefix(P!Collected(text), P!Kept(P!Collectors, Enabled))

LEMMA PageWhole ==
  ASSUME NEW n, NEW D, NEW E, NEW walk, Positions(n, D, E, walk, Keys), NEW lens \in Lens
  PROVE  /\ Whole(P!PrometheusSet(walk, lens).buf, walk)
         /\ P!PrometheusSet(walk, lens).size <= metrics_size
<1> DEFINE b == BackendText(walk)
           end == CollectFold(b, P!Collectors, lens)
           text == end.buf
           coll == <<"collector">>
           G == {coll}
           set == Kept(P!Collectors, Enabled)
<1>1. Sections(b, walk) BY SectionsWritten
<1> HIDE DEF b
<1>2. PICK H : Declares(b, PageLines, H) /\ coll \notin H BY <1>1 DEF Sections
<1>3. b \in Seq(PageLines) BY <1>2 DEF Declares
<1>4. end.size <= metrics_size BY <1>3, CollectorsAppended
<1>5. PICK m : /\ SamplesOf(m, PageLines, {<<"collector">>}) /\ Behind(b, m, PageLines, end.buf)
               /\ IsPrefix(NamedIn(m), Kept(P!Collectors, Enabled))
  BY <1>3, CollectorsAppended
<1>6. SamplesOf(m, PageLines, G) /\ Behind(b, m, PageLines, text) BY <1>5
<1> HIDE DEF text
<1>7. Declares(text, PageLines, H)
  <2>1. \A f \in G : f \in H \/ f = <<"collector">> OBVIOUS
  <2> HIDE DEF G
  <2> QED BY <1>2, <1>6, <2>1, SamplesBehind
<1>8. LinesIn(PageLines, Labels) BY LinesLabels DEF PageLines
<1>9. ASSUME NEW fam, fam # coll PROVE Shown(text, PageLines, fam) = Shown(b, PageLines, fam)
  <2>1. fam \notin G BY <1>9
  <2> HIDE DEF G
  <2>2. Shown(m, PageLines, fam) = <<>> BY <1>6, <2>1, SamplesHidden
  <2> QED BY <1>6, <1>8, <2>2, HiddenBehind
<1>10. OfServers # coll /\ OfFilters # coll /\ OfBackends # coll
  BY DEF OfServers, OfFilters, OfBackends
<1>11. PageShows(text, walk) BY <1>1, <1>9, <1>10 DEF Sections, PageShows
<1>12. NamedIn(text) = NamedIn(m)
  <2> DEFINE pick == {l \in PageLines : l.fam = coll}
             table == [l \in PageLines |-> l.labels[1]]
             Q == {l.labels[1] : l \in PageLines}
  <2>1. IsTable(table, PageLines, Q) BY DEF IsTable
  <2>2. Picked(b, pick, table) = <<>> BY <1>1, NoneSpelled DEF NamedIn
  <2> DEFINE x == Picked(b, pick, table)
             y == Picked(m, pick, table)
             z == Picked(text, pick, table)
  <2> HIDE DEF pick, table, Q
  <2>3. Behind(x, y, Q, z) BY <1>6, <2>1, PickedBehind
  <2>4. x = <<>> BY <2>2
  <2> HIDE DEF x, y, z
  <2>5. z = y BY <2>3, <2>4 DEF Behind
  <2> QED BY <2>5 DEF z, y, pick, table, NamedIn
<1>13. text \in Seq(PageLines) BY <1>7 DEF Declares
<1>14. P!Collected(text) = NamedIn(m) BY <1>12, <1>13, CollectedRead
<1>15. IsPrefix(P!Collected(text), P!Kept(P!Collectors, Enabled)) BY <1>5, <1>14, KeyOps
<1>16. Whole(text, walk) BY <1>7, <1>11, <1>15 DEF Whole
<1>17. P!PrometheusSet(walk, lens) = end BY PageOfBackends DEF b
<1> QED BY <1>4, <1>16, <1>17 DEF text

\* A Prometheus page is what prometheus_set made of some tree.
PrometheusMade ==
  Prometheus =>
    \E t \in SUBSET Keys, lens \in Lens :
      /\ reply.walk \in SetToSeqs(t)
      /\ reply.page = P!PrometheusSet(reply.walk, lens).buf
      /\ reply.size = P!PrometheusSet(reply.walk, lens).size

\* The names that the upstream nodes of a walk are shown by.
LEMMA BackendsShown ==
  ASSUME NEW walk \in Seq(Keys)
  PROVE  ToSet(Picked(walk, UpstreamNodes, BackendName))
           = {<<J!PositionKey(k, 1), J!PositionKey(k, 2)>> :
                k \in ToSet(Kept(walk, {k \in Keys : k[1] = "UG"}))}
               \cup {<<<<"::nogroups">>, J!PositionKey(k, 1)>> :
                       k \in ToSet(Kept(walk, {k \in Keys : k[1] = "UA"}))}
<1> DEFINE groups == {k \in Keys : k[1] = "UG"}
           alone == {k \in Keys : k[1] = "UA"}
           both == Kept(walk, UpstreamNodes)
           ofGroups == Kept(walk, groups)
           ofAlone == Kept(walk, alone)
           one(k) == <<J!PositionKey(k, 1), J!PositionKey(k, 2)>>
           two(k) == <<<<"::nogroups">>, J!PositionKey(k, 1)>>
           shown == Picked(walk, UpstreamNodes, BackendName)
<1>1. /\ Len(walk) \in Nat /\ DOMAIN walk = 1 .. Len(walk)
      /\ \A i \in 1 .. Len(walk) : walk[i] \in Keys
  BY LenProperties, ElementOfSeq
<1>2. \A set : /\ Kept(walk, set) \in Seq(Keys)
               /\ DOMAIN Kept(walk, set) = 1 .. Len(Kept(walk, set))
  BY KeptType, LenProperties
<1>3. \A set : ToSet(Kept(walk, set)) = {walk[j] : j \in {i \in 1 .. Len(walk) : walk[i] \in set}}
  <2> TAKE set
  <2> DEFINE kept == Kept(walk, set)
  <2>1. /\ \A i \in 1 .. Len(kept) : \E j \in 1 .. Len(walk) : walk[j] \in set /\ kept[i] = walk[j]
        /\ \A j \in 1 .. Len(walk) : walk[j] \in set => \E i \in 1 .. Len(kept) : kept[i] = walk[j]
    BY KeptSet
  <2>2. DOMAIN kept = 1 .. Len(kept) BY <1>2
  <2> HIDE DEF kept
  <2>3. ToSet(kept) = {kept[i] : i \in 1 .. Len(kept)} BY <2>2 DEF ToSet
  <2> DEFINE met == {walk[j] : j \in {i \in 1 .. Len(walk) : walk[i] \in set}}
  <2>4. ASSUME NEW x \in ToSet(kept) PROVE x \in met
    <3>1. PICK i \in 1 .. Len(kept) : x = kept[i] BY <2>3
    <3>2. PICK j \in 1 .. Len(walk) : walk[j] \in set /\ kept[i] = walk[j] BY <2>1
    <3> QED BY <3>1, <3>2
  <2>5. ASSUME NEW x \in met PROVE x \in ToSet(kept)
    <3>1. PICK j \in 1 .. Len(walk) : walk[j] \in set /\ x = walk[j] OBVIOUS
    <3>2. PICK i \in 1 .. Len(kept) : kept[i] = walk[j] BY <2>1, <3>1
    <3> QED BY <2>3, <3>1, <3>2
  <2> HIDE DEF met
  <2>6. ToSet(kept) = met BY <2>4, <2>5
  <2> QED BY <2>6 DEF kept, met
<1>4. ToSet(shown) = {BackendName[k] : k \in ToSet(both)} BY DEF Picked, Mapped, ToSet
<1>5. \A k \in Keys : /\ k[1] = "UG" => BackendName[k] = one(k)
                      /\ k[1] = "UA" => BackendName[k] = two(k)
  <2>1. \A k \in Keys : BackendName[k] = P!Backend(k) BY DEF BackendName
  <2> QED BY <2>1, KeyOps DEF P!Backend
<1>6. ToSet(both) = {walk[j] : j \in {i \in 1 .. Len(walk) : walk[i] \in UpstreamNodes}} BY <1>3
<1>7. ToSet(ofGroups) = {walk[j] : j \in {i \in 1 .. Len(walk) : walk[i] \in groups}} BY <1>3
<1>8. ToSet(ofAlone) = {walk[j] : j \in {i \in 1 .. Len(walk) : walk[i] \in alone}} BY <1>3
<1>9. \A i \in 1 .. Len(walk) :
        /\ walk[i] \in UpstreamNodes <=> walk[i][1] \in {"UG", "UA"}
        /\ walk[i] \in groups <=> walk[i][1] = "UG"
        /\ walk[i] \in alone <=> walk[i][1] = "UA"
  BY <1>1 DEF UpstreamNodes
<1> HIDE DEF shown, both, ofGroups, ofAlone, groups, alone, one, two
<1>10. ASSUME NEW x \in ToSet(shown)
       PROVE  x \in {one(k) : k \in ToSet(ofGroups)} \cup {two(k) : k \in ToSet(ofAlone)}
  <2>1. PICK i \in 1 .. Len(walk) : walk[i] \in UpstreamNodes /\ x = BackendName[walk[i]]
    BY <1>4, <1>6
  <2>2. CASE walk[i][1] = "UG"
    <3>1. walk[i] \in ToSet(ofGroups) BY <1>7, <1>9, <2>2
    <3> QED BY <1>1, <1>5, <2>1, <2>2, <3>1
  <2>3. CASE walk[i][1] = "UA"
    <3>1. walk[i] \in ToSet(ofAlone) BY <1>8, <1>9, <2>3
    <3> QED BY <1>1, <1>5, <2>1, <2>3, <3>1
  <2> QED BY <1>9, <2>1, <2>2, <2>3
<1>11. ASSUME NEW k \in ToSet(ofGroups) PROVE one(k) \in ToSet(shown)
  <2>1. PICK i \in 1 .. Len(walk) : walk[i] \in groups /\ k = walk[i] BY <1>7
  <2>2. k \in ToSet(both) /\ BackendName[k] = one(k) BY <1>1, <1>5, <1>6, <1>9, <2>1
  <2> QED BY <1>4, <2>2
<1>12. ASSUME NEW k \in ToSet(ofAlone) PROVE two(k) \in ToSet(shown)
  <2>1. PICK i \in 1 .. Len(walk) : walk[i] \in alone /\ k = walk[i] BY <1>8
  <2>2. k \in ToSet(both) /\ BackendName[k] = two(k) BY <1>1, <1>5, <1>6, <1>9, <2>1
  <2> QED BY <1>4, <2>2
<1>13. ToSet(shown) = {one(k) : k \in ToSet(ofGroups)} \cup {two(k) : k \in ToSet(ofAlone)}
  BY <1>10, <1>11, <1>12
<1> QED BY <1>13 DEF shown, ofGroups, ofAlone, groups, alone, one, two

LEMMA PrometheusPage ==
  ASSUME PrometheusMade
  PROVE  PrometheusComplete
<1> SUFFICES ASSUME Prometheus
             PROVE  /\ P!FamiliesDeclared(reply.page)
                    /\ P!NodesShown(reply.page, "server", "bytes_total")
                         = [i \in DOMAIN Of("NO") |-> <<J!PositionKey(Of("NO")[i], 1)>>]
                    /\ P!NodesShown(reply.page, "filter", "bytes_total")
                         = [i \in DOMAIN Of("FG") |->
                             <<J!PositionKey(Of("FG")[i], 1), J!PositionKey(Of("FG")[i], 2)>>]
                    /\ ToSet(P!NodesShown(reply.page, "upstream", "response_seconds"))
                         = {<<J!PositionKey(k, 1), J!PositionKey(k, 2)>> : k \in ToSet(Of("UG"))}
                             \cup {<<<<"::nogroups">>, J!PositionKey(k, 1)>> : k \in ToSet(Of("UA"))}
                    /\ IsPrefix(P!Collected(reply.page), P!Kept(P!Collectors, Enabled))
                    /\ reply.size <= metrics_size
  BY DEF PrometheusComplete
<1>1. PICK t \in SUBSET Keys, lens \in Lens :
        /\ reply.walk \in SetToSeqs(t)
        /\ reply.page = P!PrometheusSet(reply.walk, lens).buf
        /\ reply.size = P!PrometheusSet(reply.walk, lens).size
  BY DEF PrometheusMade
<1> DEFINE walk == reply.walk
           text == reply.page
           n == Cardinality(t)
           D == 1 .. n
           E == 0 .. n
<1>2. n \in Nat BY KeysAssumption, FS_Subset, FS_CardinalityType
<1>3. Positions(n, D, E, walk, Keys) BY <1>1, <1>2 DEF SetToSeqs, Positions
<1>4. walk \in Seq(Keys)
  <2>1. walk \in [1 .. n -> Keys] BY <1>3 DEF Positions
  <2> HIDE DEF n, walk
  <2> QED BY <1>2, <2>1, IsASeq
<1> HIDE DEF walk, n, D, E
<1>5. text = P!PrometheusSet(walk, lens).buf /\ reply.size = P!PrometheusSet(walk, lens).size
  BY <1>1 DEF walk
<1> HIDE DEF text
<1>6. Whole(text, walk) /\ reply.size <= metrics_size BY <1>3, <1>5, PageWhole
<1>7. PICK H : Declares(text, PageLines, H) BY <1>6 DEF Whole
<1>8. text \in Seq(PageLines) /\ P!FamiliesDeclared(text) BY <1>7 DEF Declares
<1>9. PageShows(text, walk) /\ IsPrefix(P!Collected(text), P!Kept(P!Collectors, Enabled))
  BY <1>6 DEF Whole
<1>10. \A type : Of(type) = Kept(walk, {k \in Keys : k[1] = type})
  BY SelectionOps DEF Of, walk
<1>11. \A set : \A i \in DOMAIN Kept(walk, set) : Kept(walk, set)[i] \in Keys
  <2> TAKE set
  <2>1. Kept(walk, set) \in Seq(Keys) BY <1>4, KeptType
  <2> QED BY <2>1, LenProperties, ElementOfSeq
<1>12. P!NodesShown(text, "server", "bytes_total")
         = [i \in DOMAIN Of("NO") |-> <<J!PositionKey(Of("NO")[i], 1)>>]
  <2> DEFINE kept == Kept(walk, ServerNodes)
  <2>1. Of("NO") = kept BY <1>10 DEF ServerNodes
  <2>2. P!NodesShown(text, "server", "bytes_total") = Picked(walk, ServerNodes, ServerName)
    BY <1>8, <1>9, NodesRead DEF PageShows, OfServers
  <2>3. \A i \in DOMAIN kept : kept[i] \in Keys BY <1>11
  <2> HIDE DEF kept
  <2>4. \A i \in DOMAIN kept : ServerName[kept[i]] = <<J!PositionKey(kept[i], 1)>>
    BY <2>3 DEF ServerName
  <2>5. Picked(walk, ServerNodes, ServerName) = [i \in DOMAIN kept |-> ServerName[kept[i]]]
    BY DEF Picked, Mapped, kept
  <2> QED BY <2>1, <2>2, <2>4, <2>5
<1>13. P!NodesShown(text, "filter", "bytes_total")
         = [i \in DOMAIN Of("FG") |->
             <<J!PositionKey(Of("FG")[i], 1), J!PositionKey(Of("FG")[i], 2)>>]
  <2> DEFINE kept == Kept(walk, FilterNodes)
  <2>1. Of("FG") = kept BY <1>10 DEF FilterNodes
  <2>2. P!NodesShown(text, "filter", "bytes_total") = Picked(walk, FilterNodes, FilterName)
    BY <1>8, <1>9, NodesRead DEF PageShows, OfFilters
  <2>3. \A i \in DOMAIN kept : kept[i] \in Keys BY <1>11
  <2> HIDE DEF kept
  <2>4. \A i \in DOMAIN kept :
          FilterName[kept[i]] = <<J!PositionKey(kept[i], 1), J!PositionKey(kept[i], 2)>>
    BY <2>3 DEF FilterName
  <2>5. Picked(walk, FilterNodes, FilterName) = [i \in DOMAIN kept |-> FilterName[kept[i]]]
    BY DEF Picked, Mapped, kept
  <2> QED BY <2>1, <2>2, <2>4, <2>5
<1>14. ToSet(P!NodesShown(text, "upstream", "response_seconds"))
         = {<<J!PositionKey(k, 1), J!PositionKey(k, 2)>> : k \in ToSet(Of("UG"))}
             \cup {<<<<"::nogroups">>, J!PositionKey(k, 1)>> : k \in ToSet(Of("UA"))}
  <2>1. P!NodesShown(text, "upstream", "response_seconds") = Picked(walk, UpstreamNodes, BackendName)
    BY <1>8, <1>9, NodesRead DEF PageShows, OfBackends
  <2>2. ToSet(Picked(walk, UpstreamNodes, BackendName))
          = {<<J!PositionKey(k, 1), J!PositionKey(k, 2)>> :
               k \in ToSet(Kept(walk, {k \in Keys : k[1] = "UG"}))}
              \cup {<<<<"::nogroups">>, J!PositionKey(k, 1)>> :
                      k \in ToSet(Kept(walk, {k \in Keys : k[1] = "UA"}))}
    BY <1>4, BackendsShown
  <2> QED BY <1>10, <2>1, <2>2
<1> QED BY <1>6, <1>8, <1>9, <1>12, <1>13, <1>14 DEF text

(* The invariant. *)

\* Every text a page may hold.
Titles ==
  {<<>>, <<"serverZones">>, <<"filterZones">>, <<"upstreamZones">>, <<"::nogroups">>}
KeyTexts ==
  {J!PositionKey(k, 1) : k \in Keys} \cup {J!PositionKey(k, 2) : k \in Keys}
    \cup {J!EscapeJson(J!PositionKey(k, 1)) : k \in Keys}
HostTexts == {u.host : u \in ToSet(Upstreams)} \cup {J!EscapeJson(a) : a \in Addresses}
PageTexts == Titles \cup Keys \cup KeyTexts \cup HostTexts

LEMMA TextsOfPage == TextsIn(PageTexts, Keys)
<1>1. /\ <<>> \in Titles /\ <<"serverZones">> \in Titles /\ <<"filterZones">> \in Titles
      /\ <<"upstreamZones">> \in Titles /\ <<"::nogroups">> \in Titles
  BY DEF Titles
<1>2. Titles \subseteq PageTexts /\ Keys \subseteq PageTexts
      /\ KeyTexts \subseteq PageTexts /\ HostTexts \subseteq PageTexts
  BY DEF PageTexts
<1>3. NamesIn(PageTexts, Keys)
  <2>1. <<>> \in PageTexts BY <1>1, <1>2
  <2>2. \A k \in Keys : /\ J!PositionKey(k, 1) \in PageTexts /\ J!PositionKey(k, 2) \in PageTexts
                        /\ J!EscapeJson(J!PositionKey(k, 1)) \in PageTexts
    BY <1>2 DEF KeyTexts
  <2> QED BY <2>1, <2>2 DEF NamesIn
<1>4. UpstreamsIn(PageTexts)
  <2>1. <<>> \in PageTexts BY <1>1, <1>2
  <2>2. <<"::nogroups">> \in PageTexts BY <1>1, <1>2
  <2>3. \A u \in ToSet(Upstreams) : u.host \in PageTexts BY <1>2 DEF HostTexts
  <2>4. \A a \in Addresses : J!EscapeJson(a) \in PageTexts BY <1>2 DEF HostTexts
  <2> QED BY <2>1, <2>2, <2>3, <2>4 DEF UpstreamsIn
<1>5. <<"serverZones">> \in PageTexts BY <1>1, <1>2
<1>6. <<"filterZones">> \in PageTexts BY <1>1, <1>2
<1>7. <<"upstreamZones">> \in PageTexts BY <1>1, <1>2
<1> QED BY <1>2, <1>3, <1>4, <1>5, <1>6, <1>7 DEF TextsIn

\* A JSON page is what display_set made of some tree.
PageMade ==
  Json => \E t \in SUBSET Keys : /\ reply.walk \in SetToSeqs(t)
                                 /\ reply.page = J!DisplaySet(reply.walk, reply.oom)

PageInv == tree \in SUBSET Keys /\ PageMade /\ PrometheusMade

LEMMA PageNests ==
  ASSUME PageMade
  PROVE  JsonNests
<1> SUFFICES ASSUME Json, Complete PROVE J!Nested(reply.page) BY DEF JsonNests
<1>1. PICK t \in SUBSET Keys : /\ reply.walk \in SetToSeqs(t)
                               /\ reply.page = J!DisplaySet(reply.walk, reply.oom)
  BY DEF PageMade
<1> DEFINE walk == reply.walk
           n == Cardinality(t)
           D == 1 .. n
           E == 0 .. n
           set == {k \in Keys : k[1] = "NO"}
<1>2. n \in Nat BY KeysAssumption, FS_Subset, FS_CardinalityType
<1>3. Positions(n, D, E, walk, Keys) BY <1>1, <1>2 DEF SetToSeqs, Positions
<1>4. Kept(walk, set) # <<>> BY SelectionOps DEF Complete, Of
<1> HIDE DEF walk
<1>5. walk \in Seq(Keys) /\ Len(walk) = n
  <2>1. walk \in [1 .. n -> Keys] BY <1>3 DEF Positions
  <2> HIDE DEF n
  <2>2. walk \in Seq(Keys) BY <1>2, <2>1, IsASeq
  <2>3. DOMAIN walk = 1 .. n BY <2>1
  <2> QED BY <1>2, <2>2, <2>3, LenProperties
<1>6. \E j \in D : walk[j][1] = "NO"
  <2> HIDE DEF set
  <2>1. PICK j \in 1 .. Len(walk) : walk[j] \in set BY <1>4, <1>5, KeptSome
  <2> QED BY <1>5, <2>1 DEF set
<1> HIDE DEF n, D, E
<1>7. ReadWhole(J!DisplaySet(walk, J!NoOom), PageTexts)
  BY <1>3, <1>6, PageWritten, TextsOfPage DEF ReadWhole
<1>8. reply.page = J!DisplaySet(walk, J!NoOom) BY <1>1 DEF Complete, walk
<1> DEFINE whole == J!DisplaySet(walk, J!NoOom)
<1> HIDE DEF whole
<1>9. J!Nested(whole) BY <1>7, ReadBack DEF whole
<1> QED BY <1>8, <1>9 DEF whole

LEMMA PageInit == RequestInit => PageInv
<1> SUFFICES ASSUME RequestInit PROVE PageInv OBVIOUS
<1>1. tree \in SUBSET Keys BY DEF RequestInit, Init
<1>2. ~Json /\ ~Prometheus BY DEF RequestInit, Init, Blank, Json, Prometheus
<1> QED BY <1>1, <1>2 DEF PageInv, PageMade, PrometheusMade

LEMMA PageStays ==
  ASSUME PageInv, tree' \in SUBSET Keys, UNCHANGED <<format, reply>>
  PROVE  PageInv'
BY DEF PageInv, PageMade, PrometheusMade, Json, Prometheus

LEMMA PageKept ==
  ASSUME PageInv, [RequestNext]_requestVars
  PROVE  PageInv'
<1>1. tree \in SUBSET Keys BY DEF PageInv
<1>2. ASSUME NEW status, reply' = Answer(status), UNCHANGED tree PROVE PageInv'
  <2>1. reply'.page = <<>> BY <1>2 DEF Answer, Blank
  <2> QED BY <1>1, <1>2, <2>1 DEF PageInv, PageMade, PrometheusMade, Json, Prometheus
<1>3. ASSUME reply' = Blank, UNCHANGED tree PROVE PageInv'
  <2>1. reply'.page = <<>> BY <1>3 DEF Blank
  <2> QED BY <1>1, <1>3, <2>1 DEF PageInv, PageMade, PrometheusMade, Json, Prometheus
<1>4. CASE UNCHANGED requestVars
  BY <1>1, <1>4, PageStays DEF requestVars, vars
<1>5. CASE ControlStep
  <2>1. UNCHANGED <<format, reply>> BY <1>5 DEF ControlStep, page
  <2>2. tree' \in SUBSET Keys
    <3>1. C!Next BY <1>5 DEF ControlStep
    <3>2. CASE \E k \in Keys : C!Log(k) BY <1>1, <3>2 DEF C!Log
    <3>3. CASE \E a \in C!Args : C!Request(a) BY <1>1, <3>3 DEF C!Request
    <3>4. CASE C!Status \/ C!Reset \/ C!Refuse \/ C!NoReply \/ C!Done
      BY <1>1, <3>4 DEF C!Status, C!Reset, C!Refuse, C!NoReply, C!Done, C!vars
    <3>5. CASE C!Delete BY <1>1, <3>5 DEF C!Delete
    <3> QED BY <3>1, <3>2, <3>3, <3>4, <3>5 DEF C!Next
  <2> QED BY <2>1, <2>2, PageStays
<1>6. CASE PageStep
  <2>1. Next BY <1>6 DEF PageStep
  <2>2. ASSUME NEW k \in Keys, AddNode(k) \/ RemoveNode(k) PROVE PageInv'
    BY <1>1, <2>2, PageStays DEF AddNode, RemoveNode, Changed
  <2>3. ASSUME NEW method, NEW uri, Request(method, uri) PROVE PageInv'
    BY <1>2, <1>3, <2>3 DEF Request
  <2>4. CASE GetSize BY <1>1, <1>2, <2>4, PageStays DEF GetSize
  <2>5. CASE NoBuffer BY <1>2, <2>5 DEF NoBuffer
  <2>6. CASE FillJson
    <3>1. PICK walk \in SetToSeqs(tree), oom \in Ooms :
            reply' = [Answer(200) EXCEPT !.walk = walk, !.oom = oom, !.page = J!DisplaySet(walk, oom)]
      BY <2>6 DEF FillJson
    <3>2. reply'.walk = walk /\ reply'.oom = oom /\ reply'.page = J!DisplaySet(walk, oom)
      BY <3>1 DEF Answer, Blank
    <3>3. format' \in {"JSON", "JSONP"} /\ UNCHANGED tree BY <2>6 DEF FillJson
    <3> QED BY <1>1, <3>2, <3>3 DEF PageInv, PageMade, PrometheusMade, Prometheus
  <2>7. CASE FillPrometheus
    <3>1. PICK walk \in SetToSeqs(tree), lens \in Lens :
            reply' = [Answer(200) EXCEPT !.walk = walk, !.page = P!PrometheusSet(walk, lens).buf,
                                         !.size = P!PrometheusSet(walk, lens).size]
      BY <2>7 DEF FillPrometheus
    <3>2. /\ reply'.walk = walk /\ reply'.page = P!PrometheusSet(walk, lens).buf
          /\ reply'.size = P!PrometheusSet(walk, lens).size
      BY <3>1 DEF Answer, Blank
    <3>3. format' = "PROMETHEUS" /\ UNCHANGED tree BY <2>7 DEF FillPrometheus
    <3> QED BY <1>1, <3>2, <3>3 DEF PageInv, PageMade, PrometheusMade, Json
  <2>8. CASE FillHtml BY <1>2, <2>8 DEF FillHtml
  <2>9. CASE Done BY <1>3, <2>9 DEF Done
  <2> QED BY <2>1, <2>2, <2>3, <2>4, <2>5, <2>6, <2>7, <2>8, <2>9 DEF Next
<1> QED BY <1>4, <1>5, <1>6 DEF RequestNext

\* The objects, arrays and members of every JSON page of a zone that holds a server nest,
\* for every tree, every order of its walk, every list of upstreams and all names: each
\* buf-- of display_set and its helpers takes back a comma.  It says nothing of the
\* characters inside the names: those of a server's key are no JSON (PagesParse).
THEOREM JsonAlwaysNests == RequestSpec => []JsonNests
<1>1. RequestInit => PageInv BY PageInit
<1>2. PageInv /\ [RequestNext]_requestVars => PageInv' BY PageKept
<1>3. PageInv => JsonNests BY PageNests DEF PageInv
<1> QED BY <1>1, <1>2, <1>3, PTL DEF RequestSpec

\* Every Prometheus page declares its families once and before their samples, names every
\* server and filter node of the tree once, in the order of the walk, and its upstream nodes,
\* and ends with the first of the collectors, within the budget: for every tree, every walk of
\* it and all lengths of the collectors' texts.
THEOREM PrometheusIsComplete == RequestSpec => []PrometheusComplete
<1>1. RequestInit => PageInv BY PageInit
<1>2. PageInv /\ [RequestNext]_requestVars => PageInv' BY PageKept
<1>3. PageInv => PrometheusComplete BY PrometheusPage DEF PageInv
<1> QED BY <1>1, <1>2, <1>3, PTL DEF RequestSpec

(* The nodes that a control command names. *)

Outward(c) == IF (IF c = "@" THEN "[:alpha:]" ELSE c) = C!Sep THEN "@"
              ELSE IF c = "@" THEN "[:alpha:]" ELSE c
Inward(c) == IF (IF c = "@" THEN C!Sep ELSE c) = "[:alpha:]" THEN "@"
             ELSE IF c = "@" THEN C!Sep ELSE c

\* One way of writing a name undoes the other.
LEMMA OutAndIn ==
  /\ \A c : c # "[:alpha:]" => Inward(Outward(c)) = c
  /\ \A c : c # C!Sep => Outward(Inward(c)) = c
<1>1. C!Sep = "US" BY DEF C!Sep
<1>2. "US" # "@" /\ "US" # "[:alpha:]" /\ "@" # "[:alpha:]" OBVIOUS
<1> QED BY <1>1, <1>2 DEF Outward, Inward

\* z is how the control interface writes a name.
IsZone(z) == IsList(z) /\ C!Sep \notin ToSet(z)

LEMMA ZoneInward ==
  ASSUME NEW a, IsZone(a.zone)
  PROVE  /\ Len(a.zone) \in Nat
         /\ C!Zone(a) = [i \in 1 .. Len(a.zone) |-> Inward(a.zone[i])]
<1> DEFINE z == a.zone
           once == [i \in DOMAIN z |-> IF z[i] = "@" THEN C!Sep ELSE z[i]]
<1>1. z \in Seq(ToSet(z)) BY DEF IsZone, IsList
<1>2. Len(z) \in Nat /\ DOMAIN z = 1 .. Len(z) BY <1>1, LenProperties
<1>3. C!ReplaceChrc(z, "@", C!Sep) = once BY DEF C!ReplaceChrc
<1>4. C!Zone(a) = [i \in DOMAIN once |-> IF once[i] = "[:alpha:]" THEN "@" ELSE once[i]]
  BY <1>3 DEF C!Zone, C!ReplaceStrc, C!ReplaceChrc
<1>5. DOMAIN once = 1 .. Len(z) BY <1>2
<1> HIDE DEF z
<1>6. \A i \in 1 .. Len(z) : (IF once[i] = "[:alpha:]" THEN "@" ELSE once[i]) = Inward(z[i])
  BY <1>2 DEF Inward
<1> HIDE DEF once
<1>7. C!Zone(a) = [i \in 1 .. Len(z) |-> Inward(z[i])] BY <1>4, <1>5, <1>6
<1> QED BY <1>2, <1>7 DEF z

LEMMA WrittenOutward ==
  ASSUME NEW k \in Keys
  PROVE  /\ k \in Seq(ToSet(k)) /\ Len(k) \in Nat /\ Len(k) > 2
         /\ C!Written(k) = [i \in 1 .. Len(k) - 2 |-> Outward(k[i + 2])]
<1> DEFINE n == Len(k)
           T == ToSet(k)
           name == SubSeq(k, 3, n)
           once == [i \in DOMAIN name |-> IF name[i] = "@" THEN "[:alpha:]" ELSE name[i]]
<1>1. k \in Seq(T) /\ n > 2 BY NamesAssumption DEF IsList
<1>2. n \in Nat /\ \A i \in 1 .. n : k[i] \in T BY <1>1, LenProperties, ElementOfSeq
<1> HIDE DEF T, n
<1>3. \A i \in 3 .. n : k[i] \in T BY <1>2
<1>4. 3 \in Int /\ n \in Int BY <1>2
<1>5. /\ SubSeq(k, 3, n) \in Seq(T)
      /\ Len(SubSeq(k, 3, n)) = IF 3 <= n THEN n - 3 + 1 ELSE 0
      /\ \A i \in 1 .. n - 3 + 1 : SubSeq(k, 3, n)[i] = k[3 + i - 1]
  BY <1>3, <1>4, SubSeqProperties
<1> HIDE DEF name
<1>6. name \in Seq(T) /\ Len(name) = n - 2 /\ \A i \in 1 .. n - 2 : name[i] = k[i + 2]
  <2>1. 3 <= n /\ n - 3 + 1 = n - 2 BY <1>1, <1>2
  <2>2. \A i \in 1 .. n - 2 : 3 + i - 1 = i + 2 BY <1>2
  <2> QED BY <1>5, <2>1, <2>2 DEF name
<1>7. DOMAIN name = 1 .. n - 2 BY <1>6, LenProperties
<1>8. C!ReplaceChrc(name, "@", "[:alpha:]") = once BY DEF C!ReplaceChrc
<1>9. C!Written(k) = [i \in DOMAIN once |-> IF once[i] = C!Sep THEN "@" ELSE once[i]]
  BY <1>8 DEF C!Written, C!ReplaceChrc, name, n
<1>10. DOMAIN once = 1 .. n - 2 BY <1>7
<1>11. \A i \in 1 .. n - 2 : (IF once[i] = C!Sep THEN "@" ELSE once[i]) = Outward(k[i + 2])
  BY <1>6, <1>7 DEF Outward
<1> HIDE DEF once
<1>12. C!Written(k) = [i \in 1 .. n - 2 |-> Outward(k[i + 2])] BY <1>9, <1>10, <1>11
<1> QED BY <1>1, <1>2, <1>12 DEF T, n

\* The key that is made of an argument is the node's that the argument is written for.
LEMMA NamedByZone ==
  ASSUME NEW k \in Keys, NEW a, IsZone(a.zone), NEW g
  PROVE  k = <<g, C!Sep>> \o C!Zone(a) <=> k[1] = g /\ a.zone = C!Written(k)
<1> DEFINE z == a.zone
           n == Len(k)
           m == Len(z)
           zone == C!Zone(a)
           X == ToSet(k) \cup {Inward(z[i]) : i \in 1 .. m} \cup {g, C!Sep}
           head == <<g, C!Sep>>
           key == head \o zone
           written == C!Written(k)
<1>1. m \in Nat /\ zone = [i \in 1 .. m |-> Inward(z[i])] BY ZoneInward
<1>2. /\ k \in Seq(ToSet(k)) /\ n \in Nat /\ n > 2
      /\ written = [i \in 1 .. n - 2 |-> Outward(k[i + 2])]
  BY WrittenOutward
<1>3. z \in Seq(ToSet(z)) /\ C!Sep \notin ToSet(z) BY DEF IsZone, IsList
<1>4. DOMAIN z = 1 .. m /\ \A i \in 1 .. m : z[i] # C!Sep BY <1>3, LenProperties DEF ToSet
<1>5. k[2] = C!Sep /\ \A i \in 1 .. n : k[i] # "[:alpha:]"
  <2>1. k[2] = C!Sep /\ "[:alpha:]" \notin ToSet(k) BY NamesAssumption
  <2>2. DOMAIN k = 1 .. n BY <1>2, LenProperties
  <2> QED BY <2>1, <2>2 DEF ToSet
<1>6. zone \in Seq(X) /\ Len(zone) = m /\ DOMAIN zone = 1 .. m
  <2>1. \A i \in 1 .. m : Inward(z[i]) \in X OBVIOUS
  <2> HIDE DEF X
  <2>2. zone \in [1 .. m -> X] BY <1>1, <2>1
  <2> HIDE DEF zone
  <2>3. zone \in Seq(X) BY <1>1, <2>2, IsASeq
  <2> QED BY <1>1, <2>2, <2>3, LenProperties
<1>7. head \in Seq(X) /\ Len(head) = 2 /\ head[1] = g /\ head[2] = C!Sep OBVIOUS
<1>8. k \in Seq(X)
  <2>1. ToSet(k) \subseteq X OBVIOUS
  <2> HIDE DEF X
  <2>2. DOMAIN k = 1 .. n /\ \A i \in 1 .. n : k[i] \in X
    BY <1>2, <2>1, LenProperties, ElementOfSeq
  <2>3. k \in [1 .. n -> X] BY <1>2, <2>2
  <2> HIDE DEF n
  <2> QED BY <1>2, <2>3, IsASeq
<1> HIDE DEF X, head, zone, written
<1>9. /\ key \in Seq(X) /\ Len(key) = 2 + m
      /\ \A i \in 1 .. 2 + m : key[i] = IF i <= 2 THEN head[i] ELSE zone[i - 2]
  <2>1. zone \in Seq(X) /\ head \in Seq(X) BY <1>6, <1>7
  <2>2. /\ head \o zone \in Seq(X) /\ Len(head \o zone) = Len(head) + Len(zone)
        /\ \A i \in 1 .. Len(head) + Len(zone) :
             (head \o zone)[i] = IF i <= Len(head) THEN head[i] ELSE zone[i - Len(head)]
    BY <2>1, ConcatProperties
  <2> QED BY <1>6, <1>7, <2>2
<1> HIDE DEF key
<1>10. key[1] = g /\ key[2] = C!Sep /\ \A i \in 1 .. m : key[i + 2] = Inward(z[i])
  <2>1. key[1] = g /\ key[2] = C!Sep BY <1>1, <1>7, <1>9
  <2>2. ASSUME NEW i \in 1 .. m PROVE key[i + 2] = Inward(z[i])
    <3>1. i + 2 \in 1 .. 2 + m /\ ~(i + 2 <= 2) /\ (i + 2) - 2 = i BY <1>1
    <3>2. key[i + 2] = zone[i] BY <1>9, <3>1
    <3> QED BY <1>1, <3>2
  <2> QED BY <2>1, <2>2
<1>11. ASSUME k = key PROVE k[1] = g /\ z = written
  <2>1. n - 2 = m BY <1>1, <1>2, <1>9, <1>11
  <2>2. \A i \in 1 .. m : written[i] = z[i]
    <3> TAKE i \in 1 .. m
    <3>1. written[i] = Outward(k[i + 2]) BY <1>2, <2>1
    <3>2. k[i + 2] = Inward(z[i]) BY <1>10, <1>11
    <3> QED BY <1>4, <3>1, <3>2, OutAndIn
  <2>3. DOMAIN written = 1 .. m BY <1>2, <2>1
  <2>4. written = [i \in 1 .. m |-> z[i]] BY <1>2, <2>1, <2>2
  <2>5. z = [i \in 1 .. m |-> z[i]] BY <1>3, <1>4
  <2> QED BY <1>10, <1>11, <2>4, <2>5
<1>12. ASSUME k[1] = g, z = written PROVE k = key
  <2>1. n - 2 = m
    <3>1. DOMAIN z = 1 .. n - 2 BY <1>2, <1>12
    <3> HIDE DEF z, n, m
    <3> QED BY <1>1, <1>2, <1>4, <3>1
  <2>2. \A i \in 1 .. m : key[i + 2] = k[i + 2]
    <3> TAKE i \in 1 .. m
    <3>1. z[i] = Outward(k[i + 2]) BY <1>2, <1>12, <2>1
    <3>2. i + 2 \in 1 .. n BY <1>1, <1>2, <2>1
    <3> QED BY <1>5, <1>10, <3>1, <3>2, OutAndIn
  <2>3. \A i \in 1 .. n : key[i] = k[i]
    <3> TAKE i \in 1 .. n
    <3>1. CASE i > 2
      <4>1. i - 2 \in 1 .. m /\ (i - 2) + 2 = i BY <1>1, <1>2, <2>1, <3>1
      <4> QED BY <2>2, <4>1
    <3>2. CASE i = 1 BY <1>10, <1>12, <3>2
    <3>3. CASE i = 2 BY <1>5, <1>10, <3>3
    <3> QED BY <1>2, <3>1, <3>2, <3>3
  <2>4. Len(key) = n BY <1>1, <1>2, <1>9, <2>1
  <2> HIDE DEF n
  <2>5. DOMAIN key = 1 .. n /\ DOMAIN k = 1 .. n BY <1>8, <1>9, <2>4, LenProperties DEF n
  <2>6. key = [i \in 1 .. n |-> key[i]] /\ k = [i \in 1 .. n |-> k[i]]
    BY <1>8, <1>9, <2>5
  <2> QED BY <2>3, <2>6
<1> QED BY <1>11, <1>12 DEF key, written, head, zone, z

LEMMA ZoneText ==
  ASSUME NEW a, IsZone(a.zone)
  PROVE  /\ C!Zone(a) = <<>> <=> a.zone = <<>>
         /\ C!Zone(a) = <<"*">> <=> a.zone = <<"*">>
<1> DEFINE z == a.zone
           zone == C!Zone(a)
           m == Len(z)
<1>1. m \in Nat /\ zone = [i \in 1 .. m |-> Inward(z[i])] BY ZoneInward
<1>2. z \in Seq(ToSet(z)) BY DEF IsZone, IsList
<1>3. DOMAIN z = 1 .. m /\ z = [i \in 1 .. m |-> z[i]] BY <1>2, LenProperties
<1>4. \A c : Inward(c) = "*" <=> c = "*"
  <2>1. C!Sep = "US" BY DEF C!Sep
  <2> QED BY <2>1 DEF Inward
<1> HIDE DEF z, zone, m
<1>5. zone = <<>> <=> m = 0
  <2>1. DOMAIN zone = 1 .. m BY <1>1
  <2>2. m = 0 => zone = <<>> BY <1>1
  <2>3. zone = <<>> => 1 .. m = {} BY <2>1
  <2> QED BY <1>1, <2>2, <2>3
<1>6. z = <<>> <=> m = 0
  <2>1. z = <<>> => 1 .. m = {} BY <1>3
  <2>2. m = 0 => z = <<>> BY <1>3
  <2> QED BY <1>1, <2>1, <2>2
<1>7. \A c : <<c>> = [i \in 1 .. 1 |-> c] OBVIOUS
<1>8. ASSUME zone = <<"*">> PROVE z = <<"*">>
  <2>1. 1 .. m = 1 .. 1 /\ zone[1] = "*" BY <1>1, <1>8
  <2>2. m = 1 BY <1>1, <2>1
  <2>3. z[1] = "*" BY <1>1, <1>4, <2>1, <2>2
  <2>4. \A i \in 1 .. 1 : z[i] = "*" BY <2>3
  <2>5. z = [i \in 1 .. 1 |-> "*"] BY <1>3, <2>2, <2>4
  <2> QED BY <1>7, <2>5
<1>9. ASSUME z = <<"*">> PROVE zone = <<"*">>
  <2>0. DOMAIN <<"*">> = 1 .. 1 /\ <<"*">>[1] = "*" OBVIOUS
  <2>1. 1 .. m = 1 .. 1 /\ z[1] = "*" BY <1>3, <1>9, <2>0
  <2>2. m = 1 BY <1>1, <2>1
  <2>3. \A i \in 1 .. 1 : Inward(z[i]) = "*" BY <1>4, <2>1
  <2>4. zone = [i \in 1 .. 1 |-> "*"] BY <1>1, <2>2, <2>3
  <2> QED BY <1>7, <2>4
<1> QED BY <1>5, <1>6, <1>8, <1>9 DEF z, zone

LEMMA GroupKinds ==
  ASSUME NEW a
  PROVE  C!Group(a) \in {"all", "NO", "UA", "UG", "CC", "FG", "none"}
<1> DEFINE g == a.group
<1>1. C!Group(a) = CASE g = "*" -> "all" [] g = "server" -> "NO" [] g = "upstream@alone" -> "UA"
                     [] g = "upstream@group" -> "UG" [] g = "cache" -> "CC" [] g = "filter" -> "FG"
                     [] OTHER -> "none"
  BY DEF C!Group
<1> HIDE DEF g
<1> QED BY <1>1

LEMMA KeyOfZone ==
  ASSUME NEW k \in Keys, NEW a, IsZone(a.zone), C!Group(a) # "all"
  PROVE  k = C!KeyOf(a) <=>
           k[1] = (IF C!Group(a) = "none" THEN "NO" ELSE C!Group(a)) /\ a.zone = C!Written(k)
<1> DEFINE g == IF C!Group(a) = "none" THEN "NO" ELSE C!Group(a)
<1>1. C!GroupToString(C!Group(a)) = g BY GroupKinds DEF C!GroupToString
<1>2. C!KeyOf(a) = <<g, C!Sep>> \o C!Zone(a) BY <1>1 DEF C!KeyOf, C!GenerateKey
<1> HIDE DEF g
<1>3. k = <<g, C!Sep>> \o C!Zone(a) <=> k[1] = g /\ a.zone = C!Written(k) BY NamedByZone
<1> QED BY <1>2, <1>3 DEF g

\* The nodes of a group, or the one of a zone, are those that the arguments select.
LEMMA RangeSelects ==
  ASSUME NEW a, IsZone(a.zone), NEW nodes \in SUBSET Keys
  PROVE  LET selected == {k \in nodes : C!Selects(a, k)}
         IN /\ C!RangeOf(a) = "ALL" => selected = nodes
            /\ C!RangeOf(a) = "NONE" => selected = {}
            /\ C!RangeOf(a) = "GROUP" => selected = {k \in nodes : k[1] = C!Group(a)}
            /\ C!RangeOf(a) = "ZONE" => selected = {C!KeyOf(a)} \cap nodes
            /\ C!RangeOf(a) \in {"ALL", "NONE", "GROUP", "ZONE"}
<1> DEFINE g == C!Group(a)
           named(k) == k[1] = (IF g = "none" THEN "NO" ELSE g) /\ a.zone = C!Written(k)
           selected == {k \in nodes : C!Selects(a, k)}
           range == C!RangeOf(a)
           empty == <<>>
           star == <<"*">>
<1>1. range = CASE g = "all" -> "ALL"
                [] g # "all" /\ C!Zone(a) = empty -> "NONE"
                [] g # "all" /\ C!Zone(a) = star -> "GROUP"
                [] OTHER -> "ZONE"
  BY DEF C!RangeOf
<1>2. (C!Zone(a) = empty <=> a.zone = empty) /\ (C!Zone(a) = star <=> a.zone = star) /\ empty # star
  BY ZoneText
<1>3. \A k : C!Selects(a, k) <=> \/ g = "all"
                                 \/ g # "none" /\ a.zone = star /\ k[1] = g
                                 \/ a.zone # star /\ named(k)
  BY DEF C!Selects
<1>4. \A k \in nodes : k[1] # "none"
  <2>1. \A k \in Keys : k[1] \in {"NO", "UA", "UG", "CC", "FG"} BY NamesAssumption
  <2> QED BY <2>1
<1>5. \A k \in nodes : C!Written(k) # empty
  <2> TAKE k \in nodes
  <2>1. Len(k) \in Nat /\ Len(k) > 2 /\ C!Written(k) = [i \in 1 .. Len(k) - 2 |-> Outward(k[i + 2])]
    BY WrittenOutward
  <2>2. 1 \in 1 .. Len(k) - 2 BY <2>1
  <2>3. 1 \in DOMAIN C!Written(k) BY <2>1, <2>2
  <2>4. DOMAIN empty = {} OBVIOUS
  <2> QED BY <2>3, <2>4
<1>6. \A k \in nodes : g # "all" => (k = C!KeyOf(a) <=> named(k)) BY KeyOfZone
<1> HIDE DEF g, named, range, empty, star
<1>7. CASE g = "all"
  <2>1. range = "ALL" /\ selected = nodes BY <1>1, <1>3, <1>7
  <2> QED BY <2>1 DEF range
<1>8. CASE g # "all" /\ a.zone = empty
  <2>1. range = "NONE" BY <1>1, <1>2, <1>8
  <2>2. \A k \in nodes : ~C!Selects(a, k) BY <1>2, <1>3, <1>5, <1>8 DEF named
  <2>3. selected = {} BY <2>2
  <2> QED BY <2>1, <2>3 DEF range
<1>9. CASE g # "all" /\ a.zone = star
  <2>1. range = "GROUP" BY <1>1, <1>2, <1>9
  <2>2. \A k \in nodes : C!Selects(a, k) <=> k[1] = g BY <1>3, <1>4, <1>9
  <2>3. selected = {k \in nodes : k[1] = g} BY <2>2
  <2> QED BY <2>1, <2>3 DEF range, g
<1>10. CASE g # "all" /\ a.zone # empty /\ a.zone # star
  <2>1. range = "ZONE" BY <1>1, <1>2, <1>10
  <2>2. \A k \in nodes : C!Selects(a, k) <=> k = C!KeyOf(a) BY <1>3, <1>6, <1>10
  <2>3. selected = {C!KeyOf(a)} \cap nodes BY <2>2
  <2> QED BY <2>1, <2>3 DEF range
<1> QED BY <1>7, <1>8, <1>9, <1>10

\* A command affects what its arguments select, or nothing where an allocation failed.
Hits(set, a, oom) ==
  set = {k \in tree : C!Selects(a, k)} \/ (set = {} /\ oom # C!J!NoOom)

LEMMA DeleteHits ==
  ASSUME IsZone(args.zone), tree \in SUBSET Keys, NEW oom
  PROVE  Hits(C!NodeDelete(args, oom), args, oom)
<1> DEFINE selected == {k \in tree : C!Selects(args, k)}
           range == C!RangeOf(args)
           deleted == C!NodeDelete(args, oom)
<1>1. oom = C!J!NoOom => oom.site = "none" BY DEF C!J!NoOom
<1>2. /\ range = "ALL" => selected = tree
      /\ range = "NONE" => selected = {}
      /\ range = "GROUP" => selected = C!OfGroup(C!Group(args))
      /\ range = "ZONE" => selected = {C!KeyOf(args)} \cap tree
      /\ range \in {"ALL", "NONE", "GROUP", "ZONE"}
  BY RangeSelects DEF C!OfGroup
<1> HIDE DEF selected
<1>3. range = "ALL" => deleted = tree BY DEF C!NodeDelete
<1>4. range = "NONE" => deleted = {} BY DEF C!NodeDelete
<1>5. range = "GROUP" =>
        deleted = C!OfGroup(C!Group(args)) \/ (deleted = {} /\ oom.site = "delete")
  BY DEF C!NodeDelete
<1>6. range = "ZONE" =>
        deleted = {C!KeyOf(args)} \cap tree \/ (deleted = {} /\ oom.site = "key")
  BY DEF C!NodeDelete
<1> HIDE DEF range, deleted
<1>7. deleted = selected \/ (deleted = {} /\ oom # C!J!NoOom)
  BY <1>1, <1>2, <1>3, <1>4, <1>5, <1>6
<1> QED BY <1>7 DEF Hits, deleted, selected

LEMMA ResetHits ==
  ASSUME IsZone(args.zone), tree \in SUBSET Keys, NEW oom
  PROVE  Hits(C!NodeReset(args, oom), args, oom)
<1> DEFINE selected == {k \in tree : C!Selects(args, k)}
           range == C!RangeOf(args)
           zeroed == C!NodeReset(args, oom)
<1>1. oom = C!J!NoOom => oom.site = "none" BY DEF C!J!NoOom
<1>2. /\ range = "ALL" => selected = tree
      /\ range = "NONE" => selected = {}
      /\ range = "GROUP" => selected = C!OfGroup(C!Group(args))
      /\ range = "ZONE" => selected = {C!KeyOf(args)} \cap tree
      /\ range \in {"ALL", "NONE", "GROUP", "ZONE"}
  BY RangeSelects DEF C!OfGroup
<1> HIDE DEF selected
<1>3. range = "ALL" => zeroed = tree BY DEF C!NodeReset
<1>4. range = "NONE" => zeroed = {} BY DEF C!NodeReset
<1>5. range = "GROUP" => zeroed = C!OfGroup(C!Group(args)) BY DEF C!NodeReset
<1>6. range = "ZONE" =>
        zeroed = {C!KeyOf(args)} \cap tree \/ (zeroed = {} /\ oom.site = "key")
  BY DEF C!NodeReset
<1> HIDE DEF range, zeroed
<1>7. zeroed = selected \/ (zeroed = {} /\ oom # C!J!NoOom)
  BY <1>1, <1>2, <1>3, <1>4, <1>5, <1>6
<1> QED BY <1>7 DEF Hits, zeroed, selected

LEMMA TreeKept ==
  ASSUME tree \in SUBSET Keys, [RequestNext]_requestVars
  PROVE  tree' \in SUBSET Keys
<1>1. CASE UNCHANGED requestVars BY <1>1 DEF requestVars, vars
<1>2. CASE ControlStep
  <2>1. C!Next BY <1>2 DEF ControlStep
  <2>2. CASE \E k \in Keys : C!Log(k) BY <2>2 DEF C!Log
  <2>3. CASE \E a \in C!Args : C!Request(a) BY <2>3 DEF C!Request
  <2>4. CASE C!Status \/ C!Reset \/ C!Refuse \/ C!NoReply \/ C!Done
    BY <2>4 DEF C!Status, C!Reset, C!Refuse, C!NoReply, C!Done, C!vars
  <2>5. CASE C!Delete BY <2>5 DEF C!Delete
  <2> QED BY <2>1, <2>2, <2>3, <2>4, <2>5 DEF C!Next
<1>3. CASE PageStep
  <2>1. Next BY <1>3 DEF PageStep
  <2>2. ASSUME NEW k \in Keys, AddNode(k) \/ RemoveNode(k) PROVE tree' \in SUBSET Keys
    BY <2>2 DEF AddNode, RemoveNode, Changed
  <2>3. ASSUME NEW method, NEW uri, Request(method, uri) PROVE tree' \in SUBSET Keys
    BY <2>3 DEF Request
  <2>4. CASE GetSize \/ NoBuffer \/ FillJson \/ FillPrometheus \/ FillHtml \/ Done
    BY <2>4 DEF GetSize, NoBuffer, FillJson, FillPrometheus, FillHtml, Done
  <2> QED BY <2>1, <2>2, <2>3, <2>4 DEF Next
<1> QED BY <1>1, <1>2, <1>3 DEF RequestNext

\* A request of the control interface answers once, and until then has done nothing.
ControlInv ==
  /\ tree \in SUBSET Keys /\ IsZone(args.zone)
  /\ control_pc # "done" => control_reply.ran = "no"
  /\ ControlSelects

LEMMA ControlInit == RequestInit => ControlInv
<1> SUFFICES ASSUME RequestInit PROVE ControlInv OBVIOUS
<1>1. tree \in SUBSET Keys BY DEF RequestInit, Init
<1>2. IsZone(args.zone)
  <2>1. args = C!NoArgs BY DEF RequestInit, C!Init
  <2>2. args.zone = <<>> BY <2>1 DEF C!NoArgs
  <2>3. ToSet(<<>>) = {} BY DEF ToSet
  <2>4. <<>> \in Seq({}) OBVIOUS
  <2> QED BY <2>2, <2>3, <2>4 DEF IsZone, IsList
<1>3. control_reply.ran = "no"
  <2>1. control_reply = C!Blank BY DEF RequestInit, C!Init
  <2> QED BY <2>1 DEF C!Blank
<1>4. ControlSelects BY <1>3 DEF ControlSelects, C!AffectsSelected
<1> QED BY <1>1, <1>2, <1>3, <1>4 DEF ControlInv

\* What Run answers, field by field.
LEMMA RunAnswers ==
  ASSUME NEW ran, NEW ret, NEW n, NEW text, NEW walk, NEW oom, C!Run(ran, ret, n, text, walk, oom)
  PROVE  /\ control_reply'.ran = ran /\ control_reply'.ret = ret /\ control_reply'.count = n
         /\ control_reply'.oom = oom /\ control_reply'.tree = tree
         /\ control_reply'.counts = count
         /\ control_pc' = "done" /\ args' = args
BY DEF C!Run

\* Sets are counted there as they are here.
LEMMA SameCount ==
  /\ \A hit : C!Cardinality(hit) = Cardinality(hit)
  /\ C!Cardinality({}) = 0
<1>1. \A hit : C!Cardinality(hit) = Cardinality(hit) BY DEF C!Cardinality, Cardinality
<1>2. Cardinality({}) = 0 BY FS_EmptySet
<1> QED BY <1>1, <1>2

\* A delete or a reset that affects what its arguments select.
LEMMA AffectedBy ==
  ASSUME tree \in SUBSET Keys, NEW hit, NEW oom, Hits(hit, args, oom),
         NEW ran \in {"delete", "reset"}, C!Run(ran, TRUE, C!Cardinality(hit), <<>>, <<>>, oom),
         tree' = (IF ran = "delete" THEN tree \ hit ELSE tree),
         count' = [k \in Keys |-> IF k \in hit THEN 0 ELSE count[k]]
  PROVE  ControlSelects'
<1> DEFINE selected == {k \in tree : C!Selects(args, k)}
           r == control_reply'
           n == C!Cardinality(hit)
<1>1. hit = selected \/ (hit = {} /\ oom # C!J!NoOom) BY DEF Hits
<1> HIDE DEF n
<1>2. /\ r.ran = ran /\ r.ret = TRUE /\ r.count = n /\ r.oom = oom /\ r.tree = tree
      /\ r.counts = count /\ args' = args
  BY RunAnswers DEF n
<1>3. C!Selected' = selected BY <1>2 DEF C!Selected
<1> HIDE DEF selected, r
<1>4. hit \in {selected, {}} /\ (oom = C!J!NoOom => hit = selected) BY <1>1
<1>5. tree' = IF r.ran = "delete" THEN r.tree \ hit ELSE r.tree BY <1>2
<1>6. \A k \in Keys : count'[k] = IF k \in hit THEN 0 ELSE r.counts[k] BY <1>2
<1>7. r.count = C!Cardinality(hit) BY <1>2 DEF n
<1>8. /\ r.ret /\ r.oom = C!J!NoOom => hit = C!Selected'
      /\ ~r.ret => hit = {}
      /\ hit \in {C!Selected', {}}
  BY <1>2, <1>3, <1>4
<1>9. C!AffectsSelected'
  BY <1>5, <1>6, <1>7, <1>8 DEF C!AffectsSelected, r
<1> QED BY <1>9 DEF ControlSelects

LEMMA ControlKept ==
  ASSUME ControlInv, [RequestNext]_requestVars
  PROVE  ControlInv'
<1>1. /\ tree \in SUBSET Keys /\ IsZone(args.zone)
      /\ control_pc # "done" => control_reply.ran = "no"
  BY DEF ControlInv
<1>2. tree' \in SUBSET Keys BY <1>1, TreeKept
<1>3. ASSUME control_reply'.ran \notin {"delete", "reset", "none"} PROVE ControlSelects'
  BY <1>3 DEF ControlSelects, C!AffectsSelected
<1>4. ASSUME control_reply.ran = "no", UNCHANGED control_reply, IsZone(args.zone)' PROVE ControlInv'
  <2>1. control_reply'.ran = "no" BY <1>4
  <2> QED BY <1>2, <1>3, <1>4, <2>1 DEF ControlInv
<1>5. CASE UNCHANGED requestVars
  <2>1. UNCHANGED <<tree, count, control_pc, args, control_reply>>
    BY <1>5 DEF requestVars, vars, control
  <2>2. ControlSelects' BY <2>1 DEF ControlInv, ControlSelects, C!AffectsSelected, C!Selected
  <2> QED BY <1>1, <2>1, <2>2 DEF ControlInv
<1>6. CASE PageStep
  <2>1. control_pc = "idle" /\ UNCHANGED <<args, control_reply>> BY <1>6 DEF PageStep, control
  <2> QED BY <1>1, <1>4, <2>1
<1>7. CASE ControlStep
  <2>1. C!Next BY <1>7 DEF ControlStep
  <2>2. ASSUME NEW k \in Keys, C!Log(k) PROVE ControlInv'
    <3>1. control_pc = "sized" /\ UNCHANGED <<args, control_reply>> BY <2>2 DEF C!Log
    <3> QED BY <1>1, <1>4, <3>1
  <2>3. ASSUME NEW a \in C!Args, C!Request(a) PROVE ControlInv'
    <3>1. control_pc = "idle" /\ args' = a /\ UNCHANGED control_reply BY <2>3 DEF C!Request
    <3>2. a.zone \in Zones \cup {<<>>} BY DEF C!Args
    <3>3. IsZone(<<>>)
      <4>1. ToSet(<<>>) = {} BY DEF ToSet
      <4>2. <<>> \in Seq({}) OBVIOUS
      <4> QED BY <4>1, <4>2 DEF IsZone, IsList
    <3>4. IsZone(a.zone) BY <3>2, <3>3, ZonesAssumption DEF IsZone
    <3>5. IsZone(args.zone)' BY <3>1, <3>4 DEF IsZone, IsList
    <3> QED BY <1>1, <1>4, <3>1, <3>5
  <2>4. CASE C!Status
    <3>1. PICK walk, oom : C!Run("status", TRUE, 0, C!NodeStatus(args, walk, oom), walk, oom)
      BY <2>4 DEF C!Status
    <3>2. control_reply'.ran = "status" /\ control_pc' = "done" /\ args' = args
      BY <3>1, RunAnswers
    <3>3. ControlSelects' BY <1>3, <3>2
    <3> QED BY <1>1, <1>2, <3>2, <3>3 DEF ControlInv
  <2>5. CASE C!Delete
    <3>1. PICK oom :
            /\ tree' = tree \ C!NodeDelete(args, oom)
            /\ count' = [k \in Keys |-> IF k \in C!NodeDelete(args, oom) THEN 0 ELSE count[k]]
            /\ C!Run("delete", TRUE, C!Cardinality(C!NodeDelete(args, oom)), <<>>, <<>>, oom)
      BY <2>5 DEF C!Delete
    <3> DEFINE hit == C!NodeDelete(args, oom)
    <3>2. Hits(hit, args, oom) BY <1>1, DeleteHits
    <3>3. control_pc' = "done" /\ args' = args BY <3>1, RunAnswers
    <3> HIDE DEF hit
    <3>4. ControlSelects' BY <1>1, <3>1, <3>2, AffectedBy DEF hit
    <3> QED BY <1>1, <1>2, <3>3, <3>4 DEF ControlInv
  <2>6. CASE C!Reset
    <3>1. PICK oom :
            /\ count' = [k \in Keys |-> IF k \in C!NodeReset(args, oom) THEN 0 ELSE count[k]]
            /\ C!Run("reset", TRUE, C!Cardinality(C!NodeReset(args, oom)), <<>>, <<>>, oom)
            /\ UNCHANGED tree
      BY <2>6 DEF C!Reset
    <3> DEFINE hit == C!NodeReset(args, oom)
    <3>2. Hits(hit, args, oom) BY <1>1, ResetHits
    <3>3. control_pc' = "done" /\ args' = args BY <3>1, RunAnswers
    <3> HIDE DEF hit
    <3>4. ControlSelects' BY <1>1, <3>1, <3>2, AffectedBy DEF hit
    <3> QED BY <1>1, <1>2, <3>3, <3>4 DEF ControlInv
  <2>7. CASE C!Refuse
    <3>1. C!Run("none", FALSE, 0, <<>>, <<>>, C!J!NoOom) /\ UNCHANGED <<tree, count>>
      BY <2>7 DEF C!Refuse
    <3>2. /\ control_reply'.ran = "none" /\ control_reply'.ret = FALSE /\ control_reply'.count = 0
          /\ control_reply'.tree = tree /\ control_reply'.counts = count
          /\ control_pc' = "done" /\ args' = args
      BY <3>1, RunAnswers
    <3> DEFINE r == control_reply'
    <3> /\ r.ran = "none" /\ r.ret = FALSE /\ r.count = 0 /\ r.tree = tree /\ r.counts = count
        /\ tree' = tree /\ count' = count
      BY <3>1, <3>2
    <3> HIDE DEF r
    <3>4. C!AffectsSelected'
      <4>1. /\ {} \in {C!Selected', {}} /\ r.count = C!Cardinality({})
            /\ r.ret /\ r.oom = C!J!NoOom => {} = C!Selected'
            /\ ~r.ret => {} = {}
        BY SameCount
      <4>2. tree' = IF r.ran = "delete" THEN r.tree \ {} ELSE r.tree OBVIOUS
      <4>3. \A k \in Keys : count'[k] = IF k \in {} THEN 0 ELSE r.counts[k] OBVIOUS
      <4> QED BY <4>1, <4>2, <4>3 DEF C!AffectsSelected, r
    <3> QED BY <1>1, <1>2, <3>2, <3>4 DEF ControlInv, ControlSelects
  <2>8. CASE C!NoReply
    <3>1. control_pc = "sized" /\ UNCHANGED <<args, control_reply>> BY <2>8 DEF C!NoReply
    <3> QED BY <1>1, <1>4, <3>1
  <2>9. CASE C!Done
    <3>1. UNCHANGED <<tree, count, control_pc, args, control_reply>> BY <2>9 DEF C!Done, C!vars
    <3>2. ControlSelects' BY <3>1 DEF ControlInv, ControlSelects, C!AffectsSelected, C!Selected
    <3> QED BY <1>1, <3>1, <3>2 DEF ControlInv
  <2> QED BY <2>1, <2>2, <2>3, <2>4, <2>5, <2>6, <2>7, <2>8, <2>9 DEF C!Next
<1> QED BY <1>5, <1>6, <1>7 DEF RequestNext

\* A control command deletes or resets the nodes that its arguments name, all of them or
\* none, and reports how many: for every tree, all names, every argument that can be
\* written and every allocation that fails.  What a name turns into on the way out, with "@"
\* for its separators and the placeholder for each "@", turns back on the way in.
THEOREM ControlAlwaysSelects == RequestSpec => []ControlSelects
<1>1. RequestInit => ControlInv BY ControlInit
<1>2. ControlInv /\ [RequestNext]_requestVars => ControlInv' BY ControlKept
<1>3. ControlInv => ControlSelects BY DEF ControlInv
<1> QED BY <1>1, <1>2, <1>3, PTL DEF RequestSpec
=============================================================================
