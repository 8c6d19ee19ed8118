--------------------------- MODULE ChatEvents_proofs ---------------------------
(***************************************************************************)
(* Proofs about ChatEvents: what TLC works out for some texts holds for    *)
(* all.  A text is a sequence over any set S of tokens.  Induction over    *)
(* the length of a text is by the least counterexample (NatMin).           *)
(***************************************************************************)
EXTENDS MCBridge, SequenceTheorems, WellFoundedInduction, TLAPS

-----------------------------------------------------------------------------
(* Induction.                                                              *)

Below == {p \in Nat \X Nat : p[1] < p[2]}

LEMMA NatMin ==
  ASSUME NEW T \in SUBSET Nat, T # {}
  PROVE  \E x \in T : \A y \in T : ~(y < x)
<1>1. IsWellFoundedOn(Below, Nat)
  BY NatLessThanWellFounded DEF OpToRel, Below
<1>2. \E x \in T : \A y \in T : <<y, x>> \notin Below
  BY <1>1, WFMin
<1> QED BY <1>2 DEF Below

\* A set of texts that has the empty one, and with each text every longer one,
\* has them all.
LEMMA TextInduction ==
  ASSUME NEW S, NEW P \in SUBSET Seq(S), <<>> \in P,
         \A s \in P, e \in S : Append(s, e) \in P
  PROVE  P = Seq(S)
<1> DEFINE Lengths == {Len(s) : s \in Seq(S) \ P}
<1> SUFFICES ASSUME NEW z \in Seq(S), z \notin P PROVE FALSE
  OBVIOUS
<1>1. Lengths \in SUBSET Nat /\ Len(z) \in Lengths
  BY LenProperties
<1>2. PICK n \in Lengths : \A m \in Lengths : ~(m < n)
  BY <1>1, NatMin
<1>3. PICK s \in Seq(S) \ P : Len(s) = n
  BY <1>2
<1>4. PICK front \in Seq(S), e \in S : s = Append(front, e)
  <2>1. s \in Seq(S) /\ s # <<>>
    BY <1>3
  <2> QED BY <2>1, SequenceEmptyOrAppend
<1>5. Len(s) = Len(front) + 1 /\ Len(front) \in Nat
  BY <1>4, AppendProperties, LenProperties
<1>6. front \notin P
  BY <1>3, <1>4
<1>7. Len(front) \in Lengths
  BY <1>4, <1>6
<1> HIDE DEF Lengths
<1> QED BY <1>2, <1>3, <1>5, <1>7

-----------------------------------------------------------------------------
(* Without.                                                                *)

\* g is what is kept of the first n tokens of s without x, for all n up to m.
Keeps(g, x, s, m) ==
  g = [i \in 0..m |-> IF i = 0 THEN <<>>
                      ELSE IF s[i] = x THEN g[i - 1]
                      ELSE Append(g[i - 1], s[i])]

LEMMA KeepsExists ==
  ASSUME NEW x, NEW s, NEW m \in Nat
  PROVE  \E g : Keeps(g, x, s, m)
<1> DEFINE Bad == {n \in Nat : ~ \E g : Keeps(g, x, s, n)}
<1> SUFFICES ASSUME Bad # {} PROVE FALSE
  OBVIOUS
<1>1. PICK n \in Bad : \A k \in Bad : ~(k < n)
  BY NatMin
<1>2. n # 0
  <2> DEFINE g == [i \in 0..0 |-> <<>>]
  <2>1. Keeps(g, x, s, 0)
    BY DEF Keeps
  <2> QED BY <2>1
<1>3. n - 1 \in Nat /\ n - 1 < n
  BY <1>2
<1>4. PICK g : Keeps(g, x, s, n - 1)
  BY <1>1, <1>3
<1> DEFINE last == IF s[n] = x THEN g[n - 1] ELSE Append(g[n - 1], s[n])
           h == [i \in 0..n |-> IF i = n THEN last ELSE g[i]]
<1>5. \A i \in 0..n : h[i] = IF i = 0 THEN <<>>
                             ELSE IF s[i] = x THEN h[i - 1]
                             ELSE Append(h[i - 1], s[i])
  <2> SUFFICES ASSUME NEW i \in 0..n
               PROVE  h[i] = IF i = 0 THEN <<>>
                             ELSE IF s[i] = x THEN h[i - 1]
                             ELSE Append(h[i - 1], s[i])
    OBVIOUS
  <2>1. CASE i = n
    BY <1>2, <1>3, <2>1
  <2>2. CASE i # n
    <3>1. i \in 0..(n - 1) /\ h[i] = g[i]
      BY <2>2
    <3>2. i # 0 => i - 1 \in 0..n /\ i - 1 # n
      BY <3>1
    <3>3. i # 0 => h[i - 1] = g[i - 1]
      BY <3>2
    <3> QED BY <1>4, <3>1, <3>3 DEF Keeps
  <2> QED BY <2>1, <2>2
<1>6. Keeps(h, x, s, n)
  BY <1>5 DEF Keeps
<1> QED BY <1>1, <1>6

\* The first n tokens of s and t are the same.
Agree(s, t, n) == \A i \in 1..n : s[i] = t[i]

\* One token more: what was kept stays, and the new one if it is not x.
LEMMA KeepsAppend ==
  ASSUME NEW x, NEW s, NEW t, NEW n \in Nat, Agree(s, t, n),
         NEW g, Keeps(g, x, s, n), NEW h, Keeps(h, x, t, n + 1)
  PROVE  h[n + 1] = IF t[n + 1] = x THEN g[n] ELSE Append(g[n], t[n + 1])
<1>1. g[n] = h[n]
  <2> DEFINE Bad == {i \in 0..n : g[i] # h[i]}
  <2> SUFFICES ASSUME Bad # {} PROVE FALSE
    OBVIOUS
  <2>1. Bad \in SUBSET Nat
    OBVIOUS
  <2>2. PICK i \in Bad : \A k \in Bad : ~(k < i)
    BY <2>1, NatMin
  <2>3. i \in 0..n /\ i \in 0..(n + 1)
    OBVIOUS
  <2>4. i # 0
    BY <2>2, <2>3 DEF Keeps
  <2>5. i - 1 \in 0..n /\ i - 1 < i /\ i \in 1..n
    BY <2>3, <2>4
  <2>6. g[i - 1] = h[i - 1]
    BY <2>2, <2>5
  <2>7. /\ g[i] = IF s[i] = x THEN g[i - 1] ELSE Append(g[i - 1], s[i])
        /\ h[i] = IF t[i] = x THEN h[i - 1] ELSE Append(h[i - 1], t[i])
    BY <2>3, <2>4 DEF Keeps
  <2>8. s[i] = t[i]
    BY <2>5 DEF Agree
  <2> QED BY <2>2, <2>6, <2>7, <2>8
<1>2. n + 1 \in 0..(n + 1) /\ n + 1 # 0 /\ (n + 1) - 1 = n
  OBVIOUS
<1>3. h[n + 1] = IF t[n + 1] = x THEN h[n] ELSE Append(h[n], t[n + 1])
  BY <1>2 DEF Keeps
<1> QED BY <1>1, <1>3

LEMMA WithoutKeeps ==
  ASSUME NEW kind, NEW v, NEW S, NEW s \in Seq(S)
  PROVE  \E g : /\ Keeps(g, Token(kind, v), s, Len(s))
                /\ Without(kind, v, s) = g[Len(s)]
<1> DEFINE x == Token(kind, v)
           kept == CHOOSE g : Keeps(g, x, s, Len(s))
<1>1. Len(s) \in Nat
  BY LenProperties
<1>2. Keeps(kept, x, s, Len(s))
  BY <1>1, KeepsExists
<1>3. Without(kind, v, s) = kept[Len(s)]
  BY DEF Without, Keeps
<1> QED BY <1>2, <1>3

LEMMA WithoutEmpty ==
  ASSUME NEW kind, NEW v
  PROVE  Without(kind, v, <<>>) = <<>>
<1>1. <<>> \in Seq({}) /\ Len(<<>>) = 0
  BY EmptySeq
<1>2. PICK g : /\ Keeps(g, Token(kind, v), <<>>, 0)
               /\ Without(kind, v, <<>>) = g[0]
  BY <1>1, WithoutKeeps
<1> QED BY <1>2 DEF Keeps

LEMMA WithoutAppend ==
  ASSUME NEW kind, NEW v, NEW S, NEW s \in Seq(S), NEW e \in S
  PROVE  Without(kind, v, Append(s, e)) =
           IF e = Token(kind, v) THEN Without(kind, v, s)
                                 ELSE Append(Without(kind, v, s), e)
<1>1. PICK x, t, n : x = Token(kind, v) /\ t = Append(s, e) /\ n = Len(s)
  OBVIOUS
<1>2. /\ t \in Seq(S) /\ n \in Nat /\ Len(t) = n + 1
      /\ Agree(s, t, n)
      /\ t[n + 1] = e
  BY <1>1, AppendProperties, LenProperties DEF Agree
<1>3. PICK g : Keeps(g, x, s, n) /\ Without(kind, v, s) = g[n]
  BY <1>1, WithoutKeeps
<1>4. PICK h : Keeps(h, x, t, n + 1) /\ Without(kind, v, t) = h[n + 1]
  BY <1>1, <1>2, WithoutKeeps
<1>5. h[n + 1] = IF t[n + 1] = x THEN g[n] ELSE Append(g[n], t[n + 1])
  BY <1>2, <1>3, <1>4, KeepsAppend
<1> QED BY <1>1, <1>2, <1>3, <1>4, <1>5

\* Without takes one token away and nothing else; it is a homomorphism, and
\* leaves a text without that token as it is.
LEMMA WithoutType ==
  ASSUME NEW kind, NEW v, NEW S, NEW s \in Seq(S)
  PROVE  Without(kind, v, s) \in Seq(S \ {Token(kind, v)})
<1> DEFINE R == S \ {Token(kind, v)}
           P == {t \in Seq(S) : Without(kind, v, t) \in Seq(R)}
<1>1. <<>> \in P
  BY WithoutEmpty, EmptySeq
<1>2. ASSUME NEW t \in P, NEW e \in S
      PROVE  Append(t, e) \in P
  <2>1. t \in Seq(S) /\ Without(kind, v, t) \in Seq(R) /\ Append(t, e) \in Seq(S)
    BY AppendProperties
  <2>2. Without(kind, v, Append(t, e)) =
          IF e = Token(kind, v) THEN Without(kind, v, t)
                                ELSE Append(Without(kind, v, t), e)
    BY <2>1, WithoutAppend
  <2>3. e # Token(kind, v) => Append(Without(kind, v, t), e) \in Seq(R)
    BY <2>1, AppendProperties
  <2> QED BY <2>1, <2>2, <2>3
<1>3. P = Seq(S)
  BY <1>1, <1>2, TextInduction
<1> QED BY <1>3

LEMMA ConcatAppend ==
  ASSUME NEW S, NEW s \in Seq(S), NEW t \in Seq(S), NEW e \in S
  PROVE  s \o Append(t, e) = Append(s \o t, e)
<1>1. <<e>> \in Seq(S) /\ s \o t \in Seq(S)
  BY ConcatProperties
<1>2. Append(t, e) = t \o <<e>> /\ Append(s \o t, e) = (s \o t) \o <<e>>
  BY <1>1, AppendIsConcat
<1> QED BY <1>1, <1>2, ConcatAssociative

Regroup(s, t, u) == (s \o t) \o u = s \o (t \o u)

LEMMA ConcatRegroup ==
  \A S : \A s, t, u \in Seq(S) : Regroup(s, t, u)
BY ConcatAssociative DEF Regroup

LEMMA WithoutConcat ==
  ASSUME NEW kind, NEW v, NEW S, NEW s \in Seq(S), NEW t \in Seq(S)
  PROVE  Without(kind, v, s \o t) = Without(kind, v, s) \o Without(kind, v, t)
<1> DEFINE W(r) == Without(kind, v, r)
           P == {r \in Seq(S) : W(s \o r) = W(s) \o W(r)}
<1>1. <<>> \in P
  <2>1. W(s) \in Seq(S \ {Token(kind, v)})
    BY WithoutType
  <2>2. W(s) \o <<>> = W(s) /\ s \o <<>> = s
    BY <2>1, ConcatEmptySeq
  <2> QED BY <2>2, WithoutEmpty, EmptySeq
<1>2. ASSUME NEW r \in P, NEW e \in S
      PROVE  Append(r, e) \in P
  <2>1. /\ r \in Seq(S) /\ Append(r, e) \in Seq(S) /\ s \o r \in Seq(S)
        /\ W(s \o r) = W(s) \o W(r)
    BY AppendProperties, ConcatProperties
  <2>2. s \o Append(r, e) = Append(s \o r, e)
    BY <2>1, ConcatAppend
  <2>3. /\ W(Append(r, e)) = IF e = Token(kind, v) THEN W(r) ELSE Append(W(r), e)
        /\ W(Append(s \o r, e)) = IF e = Token(kind, v) THEN W(s \o r)
                                  ELSE Append(W(s \o r), e)
    <3>1. \A q \in Seq(S) : W(Append(q, e)) =
            IF e = Token(kind, v) THEN W(q) ELSE Append(W(q), e)
      BY WithoutAppend
    <3> QED BY <2>1, <3>1
  <2>4. W(s) \in Seq(S) /\ W(r) \in Seq(S)
    <3>1. S \ {Token(kind, v)} \subseteq S
      OBVIOUS
    <3>2. W(s) \in Seq(S \ {Token(kind, v)}) /\ W(r) \in Seq(S \ {Token(kind, v)})
      BY <2>1, WithoutType
    <3> HIDE DEF W
    <3> QED BY <3>1, <3>2, SeqMonotonic
  <2>5. W(s) \o Append(W(r), e) = Append(W(s) \o W(r), e)
    BY <2>4, ConcatAppend
  <2>6. W(s \o Append(r, e)) = W(s) \o W(Append(r, e))
    <3> HIDE DEF W
    <3> QED BY <2>1, <2>2, <2>3, <2>5
  <2> QED BY <2>1, <2>6
<1>3. P = Seq(S)
  <2> HIDE DEF P
  <2> QED BY <1>1, <1>2, TextInduction DEF P
<1> QED BY <1>3

LEMMA WithoutFree ==
  ASSUME NEW kind, NEW v, NEW S, NEW s \in Seq(S), Token(kind, v) \notin S
  PROVE  Without(kind, v, s) = s
<1> DEFINE P == {t \in Seq(S) : Without(kind, v, t) = t}
<1>1. <<>> \in P
  BY WithoutEmpty, EmptySeq
<1>2. ASSUME NEW t \in P, NEW e \in S
      PROVE  Append(t, e) \in P
  <2>1. t \in Seq(S) /\ Append(t, e) \in Seq(S) /\ e # Token(kind, v)
    BY AppendProperties
  <2> QED BY <2>1, WithoutAppend
<1>3. P = Seq(S)
  BY <1>1, <1>2, TextInduction
<1> QED BY <1>3

-----------------------------------------------------------------------------
(* Lines of the console.                                                   *)

\* The texts whose names and words are in V, and those of them that have no
\* carriage return.
Kinds == {"name", "angle", "bracket", "verb", "word", "mark"}
Tokens(V) == [kind : Kinds, v : V \cup {">", "cr", "colour", "prefix", "source"}]
Texts(V) == Seq(Tokens(V))
OneLine(V) == Seq(Tokens(V) \ {Mark("cr")})

\* What is left of a text without its colours, on both ways.
Plain(text) == Without("mark", "colour", text)

LEMMA TokensAre ==
  ASSUME NEW V
  PROVE  /\ Word(">") \in Tokens(V)
         /\ \A v \in {"cr", "colour", "prefix", "source"} : Mark(v) \in Tokens(V)
         /\ \A v \in V : Name(v) \in Tokens(V) /\ Angle(v) \in Tokens(V)
BY DEF Tokens, Kinds, Name, Angle, Tagged, Verb, Word, Mark, Token

LEMMA OneLineIsText == ASSUME NEW V PROVE OneLine(V) \subseteq Texts(V)
BY SeqMonotonic DEF OneLine, Texts

LEMMA PlainOneLine ==
  ASSUME NEW V, NEW text \in OneLine(V)
  PROVE  Plain(text) \in OneLine(V) /\ Plain(text) \in Texts(V)
<1>1. Plain(text) \in Seq((Tokens(V) \ {Mark("cr")}) \ {Token("mark", "colour")})
  BY WithoutType DEF OneLine, Plain
<1>2. (Tokens(V) \ {Mark("cr")}) \ {Token("mark", "colour")} \subseteq Tokens(V) \ {Mark("cr")}
  OBVIOUS
<1>3. Plain(text) \in OneLine(V)
  BY <1>1, <1>2, SeqMonotonic DEF OneLine
<1> QED BY <1>3, OneLineIsText

LEMMA PlainConcat ==
  ASSUME NEW V, NEW s \in Texts(V), NEW t \in Texts(V)
  PROVE  Plain(s \o t) = Plain(s) \o Plain(t)
BY WithoutConcat DEF Plain, Texts

LEMMA PlainFree ==
  ASSUME NEW S, NEW s \in Seq(S), Mark("colour") \notin S
  PROVE  Plain(s) = s
<1>1. Token("mark", "colour") \notin S
  BY DEF Mark
<1> QED BY <1>1, WithoutFree DEF Plain

LEMMA PlainColour == Plain(<<Mark("colour")>>) = <<>>
<1> DEFINE x == Token("mark", "colour")
<1>1. <<>> \in Seq({x}) /\ x \in {x} /\ Mark("colour") = x
  BY EmptySeq DEF Mark
<1> HIDE DEF x
<1>2. <<x>> = Append(<<>>, x)
  OBVIOUS
<1>3. Without("mark", "colour", Append(<<>>, x)) = Without("mark", "colour", <<>>)
  BY <1>1, WithoutAppend DEF x
<1> QED BY <1>1, <1>2, <1>3, WithoutEmpty DEF Plain

LEMMA MaxOne ==
  ASSUME NEW n \in Nat
  PROVE  Max({n}) = n
BY DEF Max

\* What stands in front of a carriage return is cut off, a line without one
\* stays; colours go first.
LEMMA NormaliseOneLine ==
  ASSUME NEW V, NEW raw, NEW rest \in OneLine(V), Plain(raw) = rest
  PROVE  NormaliseLine(raw) = rest
<1>1. \A i \in DOMAIN rest : rest[i] # Mark("cr")
  BY ElementOfSeq, LenProperties DEF OneLine
<1> QED BY <1>1 DEF NormaliseLine, Plain

LEMMA NormalisePrompt ==
  ASSUME NEW V, NEW raw, NEW rest \in OneLine(V),
         Plain(raw) = <<Word(">"), Mark("cr")>> \o rest
  PROVE  NormaliseLine(raw) = rest
<1> DEFINE prompt == <<Word(">"), Mark("cr")>>
           line == prompt \o rest
           crs == {i \in DOMAIN line : line[i] = Mark("cr")}
<1>1. prompt \in Texts(V) /\ Len(prompt) = 2 /\ rest \in Texts(V) /\ Len(rest) \in Nat
  <2>1. rest \in Texts(V)
    BY OneLineIsText
  <2>2. Word(">") \in Tokens(V) /\ Mark("cr") \in Tokens(V)
    BY TokensAre
  <2> QED BY <2>1, <2>2, LenProperties DEF Texts
<1>2. /\ line \in Texts(V) /\ Len(line) = 2 + Len(rest)
      /\ \A i \in 1..Len(line) : line[i] = IF i <= 2 THEN prompt[i] ELSE rest[i - 2]
  BY <1>1, ConcatProperties DEF Texts
<1>3. DOMAIN line = 1..Len(line)
  BY <1>2, LenProperties DEF Texts
<1>4. \A i \in 1..Len(rest) : rest[i] # Mark("cr")
  BY ElementOfSeq DEF OneLine
<1>5. Word(">") # Mark("cr")
  BY DEF Word, Mark, Token
<1>6. crs = {2}
  <2>1. 2 \in crs
    BY <1>1, <1>2, <1>3
  <2>2. ASSUME NEW i \in crs PROVE i = 2
    <3>1. i \in 1..Len(line) /\ line[i] = Mark("cr")
      BY <1>3
    <3>2. CASE i <= 2
      <4>1. line[i] = prompt[i] /\ i \in 1..2
        BY <1>2, <3>1, <3>2
      <4> QED BY <1>5, <3>1, <4>1
    <3>3. CASE ~(i <= 2)
      <4> HIDE DEF line
      <4>1. line[i] = rest[i - 2] /\ i - 2 \in 1..Len(rest)
        BY <1>1, <1>2, <3>1, <3>3
      <4> QED BY <1>4, <3>1, <4>1
    <3> QED BY <3>2, <3>3
  <2> QED BY <2>1, <2>2
<1>7. NormaliseLine(raw) = From(line, 3)
  <2>1. Max(crs) + 1 = 3
    <3> HIDE DEF crs
    <3> QED BY <1>6, MaxOne
  <2>2. NormaliseLine(raw) = From(line, Max(crs) + 1)
    BY <1>6 DEF NormaliseLine, Plain
  <2> QED BY <2>1, <2>2
<1>8. From(line, 3) = rest
  BY <1>1, <1>2, SubSeqOfConcat2, SubSeqFull, SubSeqEmpty DEF From, Texts
<1> QED BY <1>7, <1>8

\* What the server names before the text of a line.
Naming(h, c) == IF h.kind = "chat" THEN h.tags \o <<Angle(h.player)>>
                ELSE IF c.source THEN <<Mark("source")>> ELSE <<>>

\* Whatever the console adds in front and colours, behind the log prefix there
\* is the naming, and the text without its colours.
LEMMA ConsoleNormalised ==
  ASSUME NEW V, NEW h, NEW c \in Consoles, h.text \in OneLine(V),
         Naming(h, c) \in Seq(Tokens(V) \ {Mark("cr"), Mark("colour")})
  PROVE  /\ NormaliseLine(ConsoleLine(h, c))
              = <<Mark("prefix")>> \o (Naming(h, c) \o Plain(h.text))
         /\ Naming(h, c) \o Plain(h.text) \in OneLine(V)
<1> DEFINE prompt == IF c.prompt THEN <<Word(">"), Mark("cr")>> ELSE <<>>
           colours == IF c.colours THEN <<Mark("colour")>> ELSE <<>>
           prefix == <<Mark("prefix")>>
           naming == Naming(h, c)
           text == h.text
           rest == prefix \o (naming \o Plain(text))
<1>1. ConsoleLine(h, c) = (((prompt \o colours) \o prefix) \o naming) \o text
  BY DEF ConsoleLine, Naming
<1>2. /\ Word(">") \in Tokens(V) /\ Mark("cr") \in Tokens(V)
      /\ Mark("colour") \in Tokens(V) /\ Mark("prefix") \in Tokens(V)
  BY TokensAre
<1>3. /\ prompt \in Texts(V) /\ colours \in Texts(V) /\ prefix \in Texts(V)
  BY <1>2, EmptySeq DEF Texts
<1>4. naming \in OneLine(V) /\ naming \in Texts(V)
  <2>1. Tokens(V) \ {Mark("cr"), Mark("colour")} \subseteq Tokens(V) \ {Mark("cr")}
    OBVIOUS
  <2>2. naming \in OneLine(V)
    BY <2>1, SeqMonotonic DEF OneLine
  <2> QED BY <2>2, OneLineIsText
<1>5. text \in Texts(V) /\ Plain(text) \in OneLine(V) /\ Plain(text) \in Texts(V)
  BY PlainOneLine, OneLineIsText
<1>6. /\ Word(">") # Mark("colour") /\ Mark("cr") # Mark("colour")
      /\ Mark("prefix") # Mark("colour") /\ Mark("prefix") # Mark("cr")
      /\ Mark("colour") = Token("mark", "colour")
  BY DEF Word, Mark, Token
<1>7. Plain(prompt) = prompt
  <2>1. prompt \in Seq({Word(">"), Mark("cr")})
    OBVIOUS
  <2>2. Mark("colour") \notin {Word(">"), Mark("cr")}
    BY <1>6
  <2> HIDE DEF prompt
  <2> QED BY <2>1, <2>2, PlainFree
<1>8. Plain(prefix) = prefix
  <2>1. prefix \in Seq({Mark("prefix")})
    OBVIOUS
  <2>2. Mark("colour") \notin {Mark("prefix")}
    BY <1>6
  <2> HIDE DEF prefix
  <2> QED BY <2>1, <2>2, PlainFree
<1>9. Plain(naming) = naming
  <2>1. Token("mark", "colour") \notin Tokens(V) \ {Mark("cr"), Mark("colour")}
    BY <1>6
  <2> QED BY <2>1, WithoutFree DEF Plain
<1>10. Plain(colours) = <<>>
  <2>1. CASE ~c.colours
    <3>1. colours = <<>>
      BY <2>1
    <3> QED BY <3>1, WithoutEmpty DEF Plain
  <2>2. CASE c.colours
    <3>1. colours = <<Mark("colour")>>
      BY <2>2
    <3> QED BY <3>1, PlainColour
  <2> QED BY <2>1, <2>2 DEF Consoles
<1> HIDE DEF prompt, colours, prefix, naming, text
<1>11. Plain(ConsoleLine(h, c)) = prompt \o rest
  <2>1. /\ prompt \o colours \in Texts(V)
        /\ (prompt \o colours) \o prefix \in Texts(V)
        /\ ((prompt \o colours) \o prefix) \o naming \in Texts(V)
    BY <1>3, <1>4, ConcatProperties DEF Texts
  <2>2. Plain(prompt \o colours) = prompt
    <3>1. Plain(prompt \o colours) = prompt \o <<>>
      BY <1>3, <1>7, <1>10, PlainConcat
    <3> QED BY <1>3, <3>1, ConcatEmptySeq DEF Texts
  <2>3. Plain((prompt \o colours) \o prefix) = prompt \o prefix
    BY <1>3, <1>8, <2>1, <2>2, PlainConcat
  <2>4. Plain(((prompt \o colours) \o prefix) \o naming) = (prompt \o prefix) \o naming
    BY <1>4, <1>9, <2>1, <2>3, PlainConcat
  <2>5. Plain(ConsoleLine(h, c)) = ((prompt \o prefix) \o naming) \o Plain(text)
    BY <1>1, <1>5, <2>1, <2>4, PlainConcat
  <2>6. ((prompt \o prefix) \o naming) \o Plain(text)
          = prompt \o (prefix \o (naming \o Plain(text)))
    <3>1. /\ prompt \in Seq(Tokens(V)) /\ prefix \in Seq(Tokens(V))
          /\ naming \in Seq(Tokens(V)) /\ Plain(text) \in Seq(Tokens(V))
      BY <1>3, <1>4, <1>5 DEF Texts
    <3>2. prompt \o prefix \in Seq(Tokens(V)) /\ naming \o Plain(text) \in Seq(Tokens(V))
      BY <3>1, ConcatProperties
    <3>3. /\ Regroup(prompt \o prefix, naming, Plain(text))
          /\ Regroup(prompt, prefix, naming \o Plain(text))
      BY <3>1, <3>2, ConcatRegroup, Zenon
    <3> QED BY <3>3, Zenon DEF Regroup
  <2> QED BY <2>5, <2>6
<1>12. naming \o Plain(text) \in OneLine(V) /\ rest \in OneLine(V)
  <2>1. prefix \in OneLine(V)
    BY <1>2, <1>6 DEF prefix, OneLine
  <2>2. naming \o Plain(text) \in OneLine(V)
    BY <1>4, <1>5, ConcatProperties DEF OneLine
  <2>3. \A t \in OneLine(V) : prefix \o t \in OneLine(V)
    BY <2>1, ConcatProperties DEF OneLine
  <2> QED BY <2>2, <2>3
<1>13. NormaliseLine(ConsoleLine(h, c)) = rest
  <2>1. CASE c.prompt
    <3>1. prompt = <<Word(">"), Mark("cr")>>
      BY <2>1 DEF prompt
    <3> QED BY <1>11, <1>12, <3>1, NormalisePrompt
  <2>2. CASE ~c.prompt
    <3>1. prompt = <<>>
      BY <2>2 DEF prompt
    <3>2. prompt \o rest = rest
      BY <1>12, <3>1, ConcatEmptySeq DEF OneLine
    <3> QED BY <1>11, <1>12, <3>2, NormaliseOneLine
  <2> QED BY <2>1, <2>2 DEF Consoles
<1> QED BY <1>12, <1>13 DEF prefix, naming, text

LEMMA ConsProperties ==
  ASSUME NEW S, NEW e \in S, NEW s \in Seq(S)
  PROVE  /\ <<e>> \o s \in Seq(S) /\ <<e>> \o s # <<>>
         /\ Head(<<e>> \o s) = e /\ Tail(<<e>> \o s) = s
<1> DEFINE line == <<e>> \o s
<1>1. <<e>> \in Seq(S) /\ Len(<<e>>) = 1 /\ <<e>>[1] = e /\ Len(s) \in Nat
  BY LenProperties
<1>2. /\ line \in Seq(S) /\ Len(line) = 1 + Len(s)
      /\ \A i \in 1..(1 + Len(s)) : line[i] = IF i <= 1 THEN <<e>>[i] ELSE s[i - 1]
  BY <1>1, ConcatProperties
<1> HIDE DEF line
<1>3. line # <<>> /\ line[1] = e
  BY <1>1, <1>2
<1>4. Head(line) = e
  BY <1>2, <1>3
<1>5. Tail(line) = s
  <2>1. /\ Tail(line) \in Seq(S) /\ Len(Tail(line)) = Len(line) - 1
        /\ \A i \in 1..Len(Tail(line)) : Tail(line)[i] = line[i + 1]
    BY <1>2, <1>3, HeadTailProperties
  <2>2. Len(Tail(line)) = Len(s)
    BY <1>1, <1>2, <2>1
  <2>3. \A i \in 1..Len(s) : Tail(line)[i] = s[i]
    BY <1>1, <1>2, <2>1, <2>2
  <2> QED BY <2>1, <2>2, <2>3, SeqEqual
<1> QED BY <1>2, <1>3, <1>4, <1>5 DEF line

LEMMA HeadOfConcat ==
  ASSUME NEW S, NEW s \in Seq(S), NEW t \in Seq(S), s # <<>>
  PROVE  s \o t # <<>> /\ Head(s \o t) = Head(s)
<1>1. Len(s) \in Nat \ {0} /\ Len(t) \in Nat
  BY EmptySeq, LenProperties
<1>2. s \o t \in Seq(S) /\ Len(s \o t) = Len(s) + Len(t) /\ (s \o t)[1] = s[1]
  BY <1>1, ConcatProperties
<1>3. s \o t # <<>>
  BY <1>1, <1>2, EmptySeq
<1> QED BY <1>2, <1>3

\* parseLine comes to the text behind the prefix, and cuts one marker of the
\* source.
LEMMA ConsoleParsed ==
  ASSUME NEW V, NEW h, NEW c \in Consoles, h.text \in OneLine(V),
         Naming(h, c) \in Seq(Tokens(V) \ {Mark("cr"), Mark("colour")}),
         NEW body, body = Naming(h, c) \o Plain(h.text)
  PROVE  ParseLine(ConsoleLine(h, c)) =
           ParseBody(IF body # <<>> /\ Head(body) = Mark("source")
                       THEN Tail(body) ELSE body)
<1>1. /\ NormaliseLine(ConsoleLine(h, c)) = <<Mark("prefix")>> \o body
      /\ body \in Texts(V)
  BY ConsoleNormalised, OneLineIsText
<1>2. Mark("prefix") \in Tokens(V)
  BY TokensAre
<1> DEFINE line == <<Mark("prefix")>> \o body
<1>3. line # <<>> /\ Head(line) = Mark("prefix") /\ Tail(line) = body
  BY <1>1, <1>2, ConsProperties DEF Texts
<1> HIDE DEF line
<1>4. NormaliseLine(ConsoleLine(h, c)) = line
  BY <1>1 DEF line
<1> QED BY <1>3, <1>4 DEF ParseLine

-----------------------------------------------------------------------------
(* Chat.                                                                   *)

Brackets(V) == [kind : {"bracket"}, v : V]

\* chatRegex finds the player behind the tags, whatever the text is: another
\* <name> in it is not reached, because the first one ends the prefixes.
LEMMA ChatBody ==
  ASSUME NEW V, NEW tags \in Seq(Brackets(V)), NEW p \in V,
         NEW text \in Texts(V), text # <<>>
  PROVE  ParseBody((tags \o <<Angle(p)>>) \o text) =
           [event |-> "chat", player |-> p, message |-> text, full |-> <<>>]
<1> DEFINE named == tags \o <<Angle(p)>>
           body == named \o text
           n == Len(tags)
<1>1. Angle(p) \in Tokens(V) /\ Angle(p).kind = "angle" /\ Angle(p).v = p
  BY TokensAre DEF Angle, Token
<1>2. tags \in Texts(V) /\ n \in Nat
  <2>1. Brackets(V) \subseteq Tokens(V)
    BY DEF Brackets, Tokens, Kinds
  <2> QED BY <2>1, SeqMonotonic, LenProperties DEF Texts
<1>3. \A j \in 1..n : tags[j].kind = "bracket"
  <2>1. \A j \in 1..n : tags[j] \in Brackets(V)
    BY ElementOfSeq
  <2> QED BY <2>1 DEF Brackets
<1>4. Len(text) \in Nat /\ Len(text) > 0
  BY EmptySeq, LenProperties DEF Texts
<1>5. /\ named \in Texts(V) /\ Len(named) = n + 1
      /\ \A j \in 1..(n + 1) : named[j] = IF j <= n THEN tags[j] ELSE Angle(p)
  <2>1. <<Angle(p)>> \in Texts(V) /\ Len(<<Angle(p)>>) = 1
    BY <1>1 DEF Texts
  <2>2. /\ named \in Texts(V) /\ Len(named) = n + 1
        /\ \A j \in 1..(n + 1) : named[j] = IF j <= n THEN tags[j]
                                           ELSE <<Angle(p)>>[j - n]
    BY <1>2, <2>1, ConcatProperties DEF Texts
  <2>3. ASSUME NEW j \in 1..(n + 1), ~(j <= n) PROVE j - n = 1
    BY <1>2, <2>3
  <2> HIDE DEF named, n
  <2> QED BY <2>2, <2>3
<1> HIDE DEF n
<1>6. /\ body \in Texts(V) /\ Len(body) = n + 1 + Len(text)
      /\ \A j \in 1..(n + 1) : body[j] = named[j]
  <2> HIDE DEF named
  <2>1. /\ body \in Texts(V) /\ Len(body) = Len(named) + Len(text)
        /\ \A j \in 1..(Len(named) + Len(text)) :
              body[j] = IF j <= Len(named) THEN named[j] ELSE text[j - Len(named)]
    BY <1>5, ConcatProperties DEF Texts
  <2> HIDE DEF body
  <2> QED BY <1>2, <1>4, <1>5, <2>1
<1>7. DOMAIN body = 1..Len(body)
  BY <1>6, LenProperties DEF Texts
<1>8. From(body, n + 2) = text
  <2>1. /\ n + 2 = Len(named) + 1 /\ Len(body) = Len(named) + Len(text)
        /\ Len(named) \in Nat
    BY <1>2, <1>4, <1>5, <1>6
  <2> HIDE DEF named
  <2>2. /\ n + 2 \in (Len(named) + 1)..(Len(named) + Len(text))
        /\ Len(body) \in (Len(named) + 1)..(Len(named) + Len(text))
        /\ (n + 2) - Len(named) = 1 /\ Len(body) - Len(named) = Len(text)
    BY <1>2, <1>4, <2>1
  <2>3. named \in Seq(Tokens(V)) /\ text \in Seq(Tokens(V))
    BY <1>5 DEF Texts
  <2>4. SubSeq(body, n + 2, Len(body)) =
          SubSeq(text, (n + 2) - Len(named), Len(body) - Len(named))
    BY <2>2, <2>3, SubSeqOfConcat2
  <2>5. SubSeq(body, n + 2, Len(body)) = SubSeq(text, 1, Len(text))
    BY <2>2, <2>4
  <2> QED BY <2>5, SubSeqFull DEF From, Texts
<1> HIDE DEF named, body
<1>9. body[n + 1] = Angle(p) /\ \A j \in 1..n : body[j].kind = "bracket"
  BY <1>2, <1>3, <1>5, <1>6
<1>10. ChatAt(body) = {n + 1}
  <2>1. n + 1 \in ChatAt(body)
    BY <1>1, <1>2, <1>4, <1>6, <1>7, <1>9 DEF ChatAt
  <2>2. ASSUME NEW i \in ChatAt(body) PROVE i = n + 1
    <3>1. /\ i \in 1..Len(body) /\ body[i].kind = "angle"
          /\ \A j \in 1..(i - 1) : body[j].kind = "bracket"
      BY <1>7 DEF ChatAt
    <3>2. i \notin 1..n
      BY <1>9, <3>1
    <3>3. n + 1 \notin 1..(i - 1)
      BY <1>1, <1>9, <3>1
    <3> QED BY <1>2, <1>4, <1>6, <3>1, <3>2, <3>3
  <2> QED BY <2>1, <2>2
<1>11. Max(ChatAt(body)) = n + 1
  BY <1>2, <1>10, MaxOne
<1>12. (n + 1) + 1 = n + 2
  BY <1>2
<1>13. ParseBody(body) = [event |-> "chat", player |-> p, message |-> text, full |-> <<>>]
  BY <1>1, <1>8, <1>9, <1>10, <1>11, <1>12 DEF ParseBody
<1> QED BY <1>13 DEF body, named

\* Anything that may happen: any player, and any text on one line, for a line
\* of the log holds no more and a message of the game has no carriage return.
Events == {"join", "leave", "death", "advancement"}
AnyHappening(V) ==
  [kind : Events \cup {"chat"}, player : V \ {""}, text : OneLine(V),
   tags : Seq(Brackets(V)), announced : BOOLEAN]

Said(h) == [type |-> "text", sender |-> h.player, body |-> Plain(h.text)]

LEMMA SomeText ==
  ASSUME NEW text, Plain(text) # <<>>
  PROVE  text # <<>>
BY WithoutEmpty DEF Plain

\* Whatever a player types, under whatever tags and in whatever console, comes
\* to Matrix from both sources as that player's message with all its text:
\* nobody can type an event of the game or another player's message
\* (chatRegex comes first in parseLine; toChatLine keeps the chat text).
THEOREM ChatIsChat ==
  ASSUME NEW V, NEW h \in AnyHappening(V), h.kind = "chat", h.announced,
         Plain(h.text) # <<>>, NEW c \in Consoles, NEW all \in BOOLEAN
  PROVE  ByPlugin(h, all) = Said(h) /\ ByLog(h, c, all) = Said(h)
<1> DEFINE chat == [event |-> "chat", player |-> h.player,
                    message |-> Plain(h.text), full |-> <<>>]
<1>1. /\ h.player \in V /\ h.player # "" /\ h.text \in OneLine(V)
      /\ h.tags \in Seq(Brackets(V)) /\ h.text # <<>>
  BY SomeText DEF AnyHappening
<1>2. HandleChatLine(chat, all) = Said(h)
  BY DEF HandleChatLine, Said
<1>3. ToChatLine(SendEvent(h)) = chat
  BY <1>1 DEF ToChatLine, SendEvent, Plain
<1>4. ParseLine(ConsoleLine(h, c)) = chat
  <2> DEFINE naming == h.tags \o <<Angle(h.player)>>
             body == naming \o Plain(h.text)
             S == Tokens(V) \ {Mark("cr"), Mark("colour")}
  <2>1. Naming(h, c) = naming
    BY DEF Naming
  <2>2. naming \in Seq(S)
    <3>1. /\ Angle(h.player) \in Tokens(V) /\ Angle(h.player) # Mark("cr")
          /\ Angle(h.player) # Mark("colour")
      BY <1>1, TokensAre DEF Angle, Mark, Token
    <3>2. <<Angle(h.player)>> \in Seq(S)
      BY <3>1
    <3>3. Brackets(V) \subseteq S
      BY DEF Brackets, Tokens, Kinds, Mark, Token
    <3>4. h.tags \in Seq(S)
      BY <1>1, <3>3, SeqMonotonic
    <3> QED BY <3>2, <3>4, ConcatProperties
  <2>3. Plain(h.text) \in Texts(V)
    BY <1>1, PlainOneLine
  <2>4. Head(body).kind \in {"bracket", "angle"}
    <3>1. S \subseteq Tokens(V) /\ Brackets(V) \subseteq Tokens(V)
      BY DEF Brackets, Tokens, Kinds
    <3>2. /\ naming \in Seq(Tokens(V)) /\ Plain(h.text) \in Seq(Tokens(V))
          /\ h.tags \in Seq(Tokens(V)) /\ <<Angle(h.player)>> \in Seq(Tokens(V))
      <4>1. naming \in Seq(Tokens(V)) /\ h.tags \in Seq(Tokens(V))
        BY <1>1, <2>2, <3>1, SeqMonotonic
      <4>2. Angle(h.player) \in Tokens(V)
        BY <1>1, TokensAre
      <4> QED BY <2>3, <4>1, <4>2 DEF Texts
    <3>3. naming # <<>> /\ Head(naming).kind \in {"bracket", "angle"}
      <4>1. CASE h.tags = <<>>
        <5>1. naming = <<Angle(h.player)>>
          BY <3>2, <4>1, ConcatEmptySeq
        <5> QED BY <5>1 DEF Angle, Token
      <4>2. CASE h.tags # <<>>
        <5>1. naming # <<>> /\ Head(naming) = Head(h.tags)
          BY <3>2, <4>2, HeadOfConcat
        <5>2. Head(h.tags) \in Brackets(V)
          BY <1>1, <4>2, HeadTailProperties
        <5> QED BY <5>1, <5>2 DEF Brackets
      <4> QED BY <4>1, <4>2
    <3> HIDE DEF naming
    <3>4. Head(body) = Head(naming)
      BY <3>2, <3>3, HeadOfConcat
    <3> QED BY <3>3, <3>4
  <2>5. ParseLine(ConsoleLine(h, c)) =
          ParseBody(IF body # <<>> /\ Head(body) = Mark("source")
                      THEN Tail(body) ELSE body)
    BY <1>1, <2>1, <2>2, ConsoleParsed
  <2>6. ParseBody(body) = chat
    BY <1>1, <2>3, ChatBody
  <2>7. Mark("source").kind = "mark"
    BY DEF Mark, Token
  <2> HIDE DEF body
  <2> QED BY <2>4, <2>5, <2>6, <2>7
<1> QED BY <1>1, <1>2, <1>3, <1>4 DEF ByPlugin, ByLog

-----------------------------------------------------------------------------
(* Everything but chat.                                                    *)

Shown(h) ==
  [type |-> "notice", sender |-> h.player,
   body |-> <<Mark(h.kind)>> \o Plain(h.text)]

LEMMA ToChatLineEvent ==
  ASSUME NEW ev, ev.type # "none", ev.type # "chat", ev.player # "",
         ev.message # <<>>
  PROVE  ToChatLine(ev) =
           IF Len(ev.message) > 1 /\ Head(ev.message) = Name(ev.player)
             THEN [event |-> ev.type, player |-> ev.player,
                   message |-> Tail(ev.message), full |-> <<>>]
             ELSE [event |-> ev.type, player |-> ev.player,
                   message |-> ev.message, full |-> ev.message]
<1>1. CASE Len(ev.message) > 1 /\ Head(ev.message) = Name(ev.player)
  BY <1>1, Zenon DEF ToChatLine
<1>2. CASE ~(Len(ev.message) > 1 /\ Head(ev.message) = Name(ev.player))
  BY <1>2, Zenon DEF ToChatLine
<1> QED BY <1>1, <1>2

\* toChatLine takes the name from the text and handleChatLine puts it back,
\* and a text that does not begin with the name is passed on as it is: the
\* plugin source shows every text whole, whatever other plugins made of it.
THEOREM PluginShowsEveryText ==
  ASSUME NEW V, NEW h \in AnyHappening(V), h.kind \in Events, h.announced,
         Plain(h.text) # <<>>
  PROVE  ByPlugin(h, TRUE) = Shown(h)
<1> DEFINE text == Plain(h.text)
           named == Len(text) > 1 /\ Head(text) = Name(h.player)
           cut == [event |-> h.kind, player |-> h.player,
                   message |-> Tail(text), full |-> <<>>]
           kept == [event |-> h.kind, player |-> h.player,
                    message |-> text, full |-> text]
<1>1. /\ h.player # "" /\ text \in Texts(V) /\ text # <<>>
      /\ h.kind # "chat" /\ h.kind # "none"
  BY PlainOneLine DEF AnyHappening, Events
<1> DEFINE ev == SendEvent(h)
<1>2. ev.type = h.kind /\ ev.player = h.player /\ ev.message = text
  BY <1>1 DEF SendEvent, Plain
<1>3. Len(text) \in Nat
  BY <1>1, LenProperties DEF Texts
<1> HIDE DEF text, ev
<1>4. CASE named
  <2>1. ToChatLine(ev) = cut
    BY <1>1, <1>2, <1>4, ToChatLineEvent
  <2>2. text = <<Name(h.player)>> \o Tail(text)
    <3>1. text = SubSeq(text, 1, Len(text)) /\ Tail(text) = SubSeq(text, 2, Len(text))
      BY <1>1, SubSeqFull, TailIsSubSeq DEF Texts
    <3>2. 1 \in 1..Len(text) /\ Len(text) \in 1..Len(text)
      BY <1>3, <1>4
    <3>3. SubSeq(text, 1, Len(text)) = <<text[1]>> \o SubSeq(text, 1 + 1, Len(text))
      BY <1>1, <3>2, SubSeqRecursiveFirst DEF Texts
    <3>4. text[1] = Name(h.player)
      <4>1. Head(text) = text[1]
        BY <1>1, <3>1, <3>2, HeadTailOfSubSeq DEF Texts
      <4> QED BY <1>4, <4>1
    <3> QED BY <3>1, <3>3, <3>4
  <2>3. HandleChatLine(cut, TRUE) =
          [type |-> "notice", sender |-> h.player,
           body |-> <<Mark(h.kind)>> \o (<<Name(h.player)>> \o Tail(text))]
    BY <1>1 DEF HandleChatLine
  <2> QED BY <2>1, <2>2, <2>3 DEF ByPlugin, Shown, text, ev
<1>5. CASE ~named
  <2>1. ToChatLine(ev) = kept
    BY <1>1, <1>2, <1>5, ToChatLineEvent
  <2>2. HandleChatLine(kept, TRUE) =
          [type |-> "notice", sender |-> h.player,
           body |-> <<Mark(h.kind)>> \o text]
    BY <1>1 DEF HandleChatLine
  <2> QED BY <2>1, <2>2 DEF ByPlugin, Shown, text, ev
<1> QED BY <1>4, <1>5

\* Behind a name no chat begins.
LEMMA NoChatBehindName ==
  ASSUME NEW V, NEW body \in Texts(V), body # <<>>, body[1].kind = "name"
  PROVE  ChatAt(body) = {}
<1>1. Len(body) \in Nat \ {0} /\ DOMAIN body = 1..Len(body)
  BY EmptySeq, LenProperties DEF Texts
<1> SUFFICES ASSUME NEW i \in ChatAt(body) PROVE FALSE
  OBVIOUS
<1>2. /\ i \in 1..Len(body) /\ body[i].kind = "angle"
      /\ \A j \in 1..(i - 1) : body[j].kind = "bracket"
  BY <1>1 DEF ChatAt
<1>3. i = 1 \/ 1 \in 1..(i - 1)
  BY <1>1, <1>2
<1> QED BY <1>2, <1>3

\* What the log tailer takes a text for that is not chat.
LEMMA EventBody ==
  ASSUME NEW V, NEW body \in Texts(V),
         ParseBody(body).event \in Events
  PROVE  /\ body # <<>> /\ Len(body) > 1 /\ ChatAt(body) = {}
         /\ body[1].kind = "name"
         /\ ParseBody(body) = [event |-> ParseBody(body).event, player |-> body[1].v,
                               message |-> Tail(body), full |-> <<>>]
<1>1. Len(body) \in Nat
  BY LenProperties DEF Texts
<1>2. ChatAt(body) = {}
  BY DEF ParseBody, Events
<1>3. IsJoinLeave(body) \/ IsDeath(body) \/ IsAdvancement(body)
  BY <1>2 DEF ParseBody, NoLine, Events
<1>4. Len(body) > 1 /\ body[1].kind = "name"
  <2>1. CASE IsJoinLeave(body)
    BY <1>1, <2>1 DEF IsJoinLeave
  <2>2. CASE IsDeath(body)
    <3>1. Len(body) > 2 /\ body[1].kind = "name"
      BY <2>2 DEF IsDeath
    <3> QED BY <1>1, <3>1
  <2>3. CASE IsAdvancement(body)
    <3>1. Len(body) = 3 /\ body[1].kind = "name"
      BY <2>3 DEF IsAdvancement
    <3> QED BY <1>1, <3>1
  <2> QED BY <1>3, <2>1, <2>2, <2>3
<1>5. body # <<>>
  BY <1>1, <1>4
<1>6. ParseBody(body) = [event |-> ParseBody(body).event, player |-> body[1].v,
                         message |-> Tail(body), full |-> <<>>]
  BY <1>2, <1>3 DEF ParseBody
<1> QED BY <1>2, <1>4, <1>5, <1>6

LEMMA FirstIsHead ==
  ASSUME NEW S, NEW s \in Seq(S), s # <<>>
  PROVE  Head(s) = s[1] /\ s[1] \in S
<1>1. Len(s) \in Nat \ {0}
  BY EmptySeq, LenProperties
<1>2. 1 \in 1..Len(s) /\ Len(s) \in 1..Len(s)
  BY <1>1
<1>3. Head(SubSeq(s, 1, Len(s))) = s[1]
  BY <1>2, HeadTailOfSubSeq
<1> QED BY <1>2, <1>3, SubSeqFull, ElementOfSeq

\* Whether or not the console names the source, the log tailer reads the text.
LEMMA LogReadsText ==
  ASSUME NEW V, NEW h \in AnyHappening(V), h.kind \in Events, NEW c \in Consoles,
         Plain(h.text) = <<>> \/ Head(Plain(h.text)) # Mark("source")
  PROVE  ParseLine(ConsoleLine(h, c)) = ParseBody(Plain(h.text))
<1> DEFINE text == Plain(h.text)
           source == <<Mark("source")>>
<1>1. h.kind # "chat" /\ h.text \in OneLine(V) /\ text \in Texts(V)
  BY PlainOneLine DEF AnyHappening, Events
<1>2. Mark("source") \in Tokens(V) /\ Mark("source") \in Tokens(V) \ {Mark("cr"), Mark("colour")}
  BY TokensAre DEF Mark, Token
<1>3. CASE c.source
  <2> DEFINE body == source \o text
  <2>1. Naming(h, c) = source /\ source \in Seq(Tokens(V) \ {Mark("cr"), Mark("colour")})
    BY <1>1, <1>2, <1>3 DEF Naming
  <2>2. body # <<>> /\ Head(body) = Mark("source") /\ Tail(body) = text
    BY <1>1, <1>2, ConsProperties DEF Texts
  <2>3. ParseLine(ConsoleLine(h, c)) =
          ParseBody(IF body # <<>> /\ Head(body) = Mark("source")
                      THEN Tail(body) ELSE body)
    BY <1>1, <2>1, ConsoleParsed
  <2> HIDE DEF body
  <2> QED BY <2>2, <2>3
<1>4. CASE ~c.source
  <2>1. Naming(h, c) = <<>> /\ <<>> \in Seq(Tokens(V) \ {Mark("cr"), Mark("colour")})
    BY <1>1, <1>4, EmptySeq DEF Naming
  <2>2. text = <<>> \o text
    BY <1>1, ConcatEmptySeq DEF Texts
  <2>3. ParseLine(ConsoleLine(h, c)) =
          ParseBody(IF text # <<>> /\ Head(text) = Mark("source")
                      THEN Tail(text) ELSE text)
    BY <1>1, <2>1, <2>2, ConsoleParsed
  <2> QED BY <2>3
<1> QED BY <1>3, <1>4 DEF Consoles

LEMMA NothingInNothing == ParseBody(<<>>) = NoLine
<1>1. ChatAt(<<>>) = {}
  BY DEF ChatAt
<1>2. ~IsJoinLeave(<<>>) /\ ~IsDeath(<<>>) /\ ~IsAdvancement(<<>>)
  BY DEF IsJoinLeave, IsDeath, IsAdvancement
<1> QED BY <1>1, <1>2 DEF ParseBody

\* Where the log tailer recognises what happened, it tells Matrix what the
\* plugin would have told, message for message; where it recognises nothing, it
\* stays silent (parseLine, "the Matrix side renders it the same way",
\* pluginstream.go:213-216).
THEOREM SourcesShowAlike ==
  ASSUME NEW V, NEW h \in AnyHappening(V), h.kind \in Events, h.announced,
         Plain(h.text) = <<>> \/ Head(Plain(h.text)) # Mark("source"),
         NEW c \in Consoles, NEW all \in BOOLEAN
  PROVE  LET line == ParseBody(Plain(h.text)) IN
           /\ line.event = "none" => ByLog(h, c, all) = NoMessage
           /\ line.event = h.kind /\ line.player = h.player =>
                ByLog(h, c, all) = ByPlugin(h, all)
<1> DEFINE text == Plain(h.text)
           line == ParseBody(text)
           ev == SendEvent(h)
<1>1. /\ h.player # "" /\ text \in Texts(V)
      /\ h.kind # "chat" /\ h.kind # "none"
  BY PlainOneLine DEF AnyHappening, Events
<1>2. ByLog(h, c, all) = HandleChatLine(line, all)
  <2>1. CASE h.text # <<>>
    BY <2>1, LogReadsText DEF ByLog
  <2>2. CASE h.text = <<>>
    <3>1. text = <<>> /\ line = NoLine
      BY <2>2, WithoutEmpty, NothingInNothing DEF Plain
    <3>2. HandleChatLine(NoLine, all) = NoMessage
      BY DEF HandleChatLine, NoLine
    <3> HIDE DEF line
    <3> QED BY <2>2, <3>1, <3>2 DEF ByLog
  <2> QED BY <2>1, <2>2
<1>3. text # <<>> => ev.type = h.kind /\ ev.player = h.player /\ ev.message = text
  BY <1>1 DEF SendEvent, Plain
<1> HIDE DEF ev
<1>4. ASSUME line.event = "none" PROVE ByLog(h, c, all) = NoMessage
  BY <1>2, <1>4 DEF HandleChatLine
<1>5. ASSUME line.event = h.kind, line.player = h.player
      PROVE  ByLog(h, c, all) = ByPlugin(h, all)
  <2> HIDE DEF text
  <2>1. /\ Len(text) > 1 /\ text[1].kind = "name" /\ text # <<>>
        /\ line = [event |-> line.event, player |-> text[1].v,
                   message |-> Tail(text), full |-> <<>>]
    BY <1>1, <1>5, EventBody
  <2>2. text[1].v = h.player
    BY <1>5, <2>1
  <2>3. Head(text) = text[1] /\ text[1] \in Tokens(V)
    BY <1>1, <2>1, FirstIsHead DEF Texts
  <2>4. Head(text) = Name(h.player)
    BY <2>1, <2>2, <2>3 DEF Tokens, Name, Token
  <2>5. ToChatLine(ev) = [event |-> h.kind, player |-> h.player,
                          message |-> Tail(text), full |-> <<>>]
    BY <1>1, <1>3, <2>1, <2>4, ToChatLineEvent
  <2>6. ToChatLine(ev) = line
    BY <1>5, <2>1, <2>2, <2>5
  <2> QED BY <1>2, <2>6 DEF ByPlugin, ev
<1> QED BY <1>4, <1>5

LEMMA TwoInFront ==
  ASSUME NEW S, NEW x \in S, NEW y \in S, NEW s \in Seq(S)
  PROVE  /\ <<x, y>> \o s \in Seq(S) /\ Len(<<x, y>> \o s) = 2 + Len(s)
         /\ (<<x, y>> \o s)[1] = x /\ (<<x, y>> \o s)[2] = y
<1> DEFINE front == <<x, y>>
<1>1. front \in Seq(S) /\ Len(front) = 2 /\ front[1] = x /\ front[2] = y
  OBVIOUS
<1>2. Len(s) \in Nat
  BY LenProperties
<1> HIDE DEF front
<1>3. /\ front \o s \in Seq(S) /\ Len(front \o s) = Len(front) + Len(s)
      /\ \A i \in 1..(Len(front) + Len(s)) :
            (front \o s)[i] = IF i <= Len(front) THEN front[i] ELSE s[i - Len(front)]
  BY <1>1, ConcatProperties
<1>4. (front \o s)[1] = x /\ (front \o s)[2] = y
  BY <1>1, <1>2, <1>3
<1> QED BY <1>1, <1>3, <1>4 DEF front

\* The log tailer recognises every death whose verb deathRegex has and that
\* tells more than the verb, of every player and by whatever means; one that
\* ends with its verb it does not.
THEOREM DeathsRecognised ==
  ASSUME NEW V, NEW p \in V, NEW verb \in V, NEW rest \in Texts(V)
  PROVE  LET body == <<Name(p), Verb(verb)>> \o rest IN
           IF rest = <<>> THEN ParseBody(body) = NoLine
           ELSE ParseBody(body) = [event |-> "death", player |-> p,
                                   message |-> Tail(body), full |-> <<>>]
<1> DEFINE body == <<Name(p), Verb(verb)>> \o rest
<1>1. /\ Name(p) \in Tokens(V) /\ Verb(verb) \in Tokens(V)
      /\ Name(p).kind = "name" /\ Name(p).v = p /\ Verb(verb).kind = "verb"
      /\ Verb(verb) \notin JoinLeave /\ Verb(verb) # Word("has made the advancement")
  BY DEF Tokens, Kinds, Name, Verb, Word, Token, JoinLeave
<1>2. Len(rest) \in Nat /\ (Len(rest) = 0 <=> rest = <<>>)
  BY EmptySeq, LenProperties DEF Texts
<1>3. /\ body \in Texts(V) /\ Len(body) = 2 + Len(rest)
      /\ body[1] = Name(p) /\ body[2] = Verb(verb)
  <2>1. PICK x, y : x = Name(p) /\ y = Verb(verb)
    OBVIOUS
  <2>2. x \in Tokens(V) /\ y \in Tokens(V) /\ rest \in Seq(Tokens(V))
    BY <1>1, <2>1 DEF Texts
  <2>3. body = <<x, y>> \o rest
    BY <2>1
  <2> HIDE DEF body
  <2> QED BY <2>1, <2>2, <2>3, TwoInFront DEF Texts
<1> HIDE DEF body
<1>4. body # <<>> /\ ChatAt(body) = {}
  <2>1. body # <<>>
    BY <1>2, <1>3
  <2> QED BY <1>1, <1>3, <2>1, NoChatBehindName
<1>5. ~IsJoinLeave(body) /\ ~IsAdvancement(body)
  BY <1>1, <1>3 DEF IsJoinLeave, IsAdvancement
<1>6. IsDeath(body) <=> rest # <<>>
  <2>1. Len(body) > 2 <=> rest # <<>>
    BY <1>2, <1>3
  <2> QED BY <1>1, <1>3, <2>1 DEF IsDeath
<1>7. CASE rest = <<>>
  BY <1>4, <1>5, <1>6, <1>7 DEF ParseBody, body
<1>8. CASE rest # <<>>
  <2>1. ParseBody(body) = [event |-> "death", player |-> body[1].v,
                           message |-> Tail(body), full |-> <<>>]
    BY <1>4, <1>5, <1>6, <1>8 DEF ParseBody
  <2> QED BY <1>1, <1>3, <1>8, <2>1 DEF body
<1> QED BY <1>7, <1>8 DEF body

-----------------------------------------------------------------------------
(* The happenings of ChatEvents.                                           *)

Words ==
  {"Steve", ".Alex", "hello", "joined the game", "left the game", "died",
   "again", "Not Secure", "VIP", "Staff", "Zombie", "Goat", "was slain",
   "drowned", "was skewered", "has made the advancement", "Iron", "welcome",
   "is here"}

LEMMA PlainBehindColour ==
  ASSUME NEW S, NEW s \in Seq(S)
  PROVE  Plain(<<Mark("colour")>> \o s) = Plain(s)
<1> DEFINE T == S \cup {Mark("colour")}
<1>1. <<Mark("colour")>> \in Seq(T) /\ s \in Seq(T)
  <2>1. S \subseteq T
    OBVIOUS
  <2> QED BY <2>1, SeqMonotonic
<1>2. Plain(<<Mark("colour")>> \o s) = <<>> \o Plain(s)
  <2>1. Plain(<<Mark("colour")>> \o s) = Plain(<<Mark("colour")>>) \o Plain(s)
    <3> HIDE DEF T
    <3>1. \A a, b \in Seq(T) : Plain(a \o b) = Plain(a) \o Plain(b)
      BY WithoutConcat DEF Plain
    <3> QED BY <1>1, <3>1
  <2> QED BY <2>1, PlainColour
<1>3. Plain(s) \in Seq(T \ {Token("mark", "colour")})
  BY <1>1, WithoutType DEF Plain
<1> QED BY <1>2, <1>3, ConcatEmptySeq

\* Texts of one, two and three tokens.
LEMMA PlainShort ==
  ASSUME NEW a, NEW b, NEW c,
         a # Mark("colour"), b # Mark("colour"), c # Mark("colour")
  PROVE  /\ Plain(<<a>>) = <<a>> /\ Plain(<<a, b>>) = <<a, b>>
         /\ Plain(<<a, b, c>>) = <<a, b, c>>
         /\ Plain(<<Mark("colour"), a>>) = <<a>>
         /\ Plain(<<Mark("colour"), a, b>>) = <<a, b>>
<1> DEFINE S == {a, b, c}
<1>1. <<a>> \in Seq(S) /\ <<a, b>> \in Seq(S) /\ <<a, b, c>> \in Seq(S)
  OBVIOUS
<1>2. Mark("colour") \notin S
  OBVIOUS
<1>3. /\ Plain(<<a>>) = <<a>> /\ Plain(<<a, b>>) = <<a, b>>
      /\ Plain(<<a, b, c>>) = <<a, b, c>>
  <2> HIDE DEF S
  <2> QED BY <1>1, <1>2, PlainFree
<1>4. /\ <<Mark("colour"), a>> = <<Mark("colour")>> \o <<a>>
      /\ <<Mark("colour"), a, b>> = <<Mark("colour")>> \o <<a, b>>
  OBVIOUS
<1>5. /\ Plain(<<Mark("colour")>> \o <<a>>) = Plain(<<a>>)
      /\ Plain(<<Mark("colour")>> \o <<a, b>>) = Plain(<<a, b>>)
  <2> HIDE DEF S
  <2> QED BY <1>1, PlainBehindColour
<1> QED BY <1>3, <1>4, <1>5

LEMMA WordsAre ==
  ASSUME NEW w \in Words
  PROVE  \A t \in {Name(w), Angle(w), Tagged(w), Verb(w), Word(w)} :
           /\ t \in Tokens(Words) \ {Mark("cr")} /\ t # Mark("colour")
           /\ t # Mark("source")
BY DEF Tokens, Kinds, Name, Angle, Tagged, Verb, Word, Mark, Token

LEMMA ChatTextsAre ==
  ASSUME NEW p \in Players, NEW text \in ChatTexts(p)
  PROVE  text \in OneLine(Words) /\ Plain(text) # <<>>
<1>1. /\ p \in Words /\ "hello" \in Words /\ "joined the game" \in Words
      /\ "died" \in Words /\ "again" \in Words /\ "left the game" \in Words
  BY DEF Words, Players
<1> DEFINE T == Tokens(Words) \ {Mark("cr")}
<1>2. PICK n, g, w, j, v, o, l, k, f :
        /\ n = Name(p) /\ g = Angle(p) /\ w = Word("hello")
        /\ j = Word("joined the game") /\ v = Verb("died") /\ o = Word("again")
        /\ l = Word("left the game") /\ k = Mark("colour") /\ f = Mark("prefix")
  OBVIOUS
<1>3. /\ n \in T /\ g \in T /\ w \in T /\ j \in T /\ v \in T /\ o \in T /\ l \in T
      /\ n # k /\ g # k /\ w # k /\ j # k /\ v # k /\ o # k /\ l # k
  BY <1>1, <1>2, WordsAre
<1>4. k \in T /\ f \in T /\ f # k
  BY <1>2, TokensAre DEF Mark, Token
<1>5. text \in {<<w>>, <<k, w>>, <<n, j>>, <<g, w>>, <<n, v, o>>,
               <<f, n, l>>, <<g, n, j>>}
  BY <1>2 DEF ChatTexts
<1>6. text \in Seq(T)
  <2> HIDE DEF T
  <2>1. /\ <<w>> \in Seq(T) /\ <<k, w>> \in Seq(T) /\ <<n, j>> \in Seq(T)
        /\ <<g, w>> \in Seq(T)
    BY <1>3, <1>4
  <2>2. /\ <<n, v, o>> \in Seq(T) /\ <<f, n, l>> \in Seq(T)
        /\ <<g, n, j>> \in Seq(T)
    BY <1>3, <1>4
  <2> QED BY <1>5, <2>1, <2>2
<1>7. Plain(text) # <<>>
  <2>1. /\ Plain(<<w>>) = <<w>> /\ Plain(<<k, w>>) = <<w>>
        /\ Plain(<<n, j>>) = <<n, j>> /\ Plain(<<g, w>>) = <<g, w>>
        /\ Plain(<<n, v, o>>) = <<n, v, o>> /\ Plain(<<f, n, l>>) = <<f, n, l>>
        /\ Plain(<<g, n, j>>) = <<g, n, j>>
    BY <1>2, <1>3, <1>4, PlainShort
  <2> QED BY <1>5, <2>1
<1> QED BY <1>6, <1>7 DEF OneLine

LEMMA ChatHappens ==
  ASSUME NEW p \in Players, NEW h \in Chat(p)
  PROVE  /\ h \in AnyHappening(Words) /\ h.kind = "chat" /\ h.player = p
         /\ Plain(h.text) # <<>>
<1>1. /\ h \in [kind : {"chat"}, player : {p},
                text : UNION {ChatTexts(q) : q \in Players},
                tags : {<<>>, <<Tagged("Not Secure")>>,
                        <<Tagged("VIP"), Tagged("Staff")>>},
                announced : BOOLEAN]
  BY DEF Chat
<1>2. h.text \in OneLine(Words) /\ Plain(h.text) # <<>>
  BY <1>1, ChatTextsAre
<1>3. h.tags \in Seq(Brackets(Words))
  <2>1. PICK a, b, c : /\ a = Tagged("Not Secure") /\ b = Tagged("VIP")
                       /\ c = Tagged("Staff")
    OBVIOUS
  <2>2. a \in Brackets(Words) /\ b \in Brackets(Words) /\ c \in Brackets(Words)
    BY <2>1 DEF Brackets, Words, Tagged, Token
  <2>3. h.tags \in {<<>>, <<a>>, <<b, c>>}
    BY <1>1, <2>1
  <2>4. /\ <<>> \in Seq(Brackets(Words)) /\ <<a>> \in Seq(Brackets(Words))
        /\ <<b, c>> \in Seq(Brackets(Words))
    BY <2>2
  <2> QED BY <2>3, <2>4
<1>4. p \in Words \ {""}
  BY DEF Words, Players
<1> QED BY <1>1, <1>2, <1>3, <1>4 DEF AnyHappening

\* No fake events, for the chat texts of ChatEvents: an instance of ChatIsChat.
LEMMA NoFakeEventsHolds == NoFakeEvents
<1> SUFFICES ASSUME NEW p \in Players, NEW h \in Chat(p), NEW c \in Consoles,
                    NEW all \in BOOLEAN, h.announced
             PROVE  ByPlugin(h, all) = Said(h) /\ ByLog(h, c, all) = Said(h)
  BY ChatHappens DEF NoFakeEvents, Said, Plain
<1> QED BY ChatHappens, ChatIsChat

LEMMA TwoTokens ==
  ASSUME NEW a, NEW b, a.kind # "angle", b.kind # "angle"
  PROVE  ParseBody(<<a, b>>) =
           IF a.kind = "name" /\ b \in JoinLeave
             THEN [event |-> IF b = Word("left the game") THEN "leave" ELSE "join",
                   player |-> a.v, message |-> <<b>>, full |-> <<>>]
             ELSE NoLine
<1> DEFINE body == <<a, b>>
<1>1. /\ Len(body) = 2 /\ body[1] = a /\ body[2] = b /\ Tail(body) = <<b>>
      /\ DOMAIN body = 1..2
  OBVIOUS
<1> HIDE DEF body
<1>2. ChatAt(body) = {}
  BY <1>1 DEF ChatAt
<1>3. ~IsDeath(body) /\ ~IsAdvancement(body)
  BY <1>1 DEF IsDeath, IsAdvancement
<1>4. IsJoinLeave(body) <=> a.kind = "name" /\ b \in JoinLeave
  BY <1>1 DEF IsJoinLeave
<1>5. ASSUME IsJoinLeave(body)
      PROVE  ParseBody(body) =
               [event |-> IF b = Word("left the game") THEN "leave" ELSE "join",
                player |-> a.v, message |-> <<b>>, full |-> <<>>]
  BY <1>1, <1>2, <1>3, <1>5 DEF ParseBody
<1>6. ASSUME ~IsJoinLeave(body)
      PROVE  ParseBody(body) = NoLine
  BY <1>2, <1>3, <1>6 DEF ParseBody
<1> QED BY <1>4, <1>5, <1>6 DEF body

LEMMA ThreeTokens ==
  ASSUME NEW a, NEW b, NEW c, a.kind = "name"
  PROVE  /\ b.kind = "verb" =>
              ParseBody(<<a, b, c>>) = [event |-> "death", player |-> a.v,
                                        message |-> <<b, c>>, full |-> <<>>]
         /\ b.kind # "verb" /\ b = Word("has made the advancement")
              /\ c.kind = "bracket" =>
              ParseBody(<<a, b, c>>) = [event |-> "advancement", player |-> a.v,
                                        message |-> <<b, c>>, full |-> <<>>]
         /\ b.kind # "verb" /\ b # Word("has made the advancement") =>
              ParseBody(<<a, b, c>>) = NoLine
<1> DEFINE body == <<a, b, c>>
<1>1. /\ Len(body) = 3 /\ body[1] = a /\ body[2] = b /\ body[3] = c
      /\ Tail(body) = <<b, c>> /\ DOMAIN body = 1..3
  OBVIOUS
<1> HIDE DEF body
<1>2. ChatAt(body) = {}
  <2> SUFFICES ASSUME NEW i \in ChatAt(body) PROVE FALSE
    OBVIOUS
  <2>1. /\ i \in 1..3 /\ body[i].kind = "angle"
        /\ \A j \in 1..(i - 1) : body[j].kind = "bracket"
    BY <1>1 DEF ChatAt
  <2>2. i = 1 \/ 1 \in 1..(i - 1)
    BY <2>1
  <2> QED BY <1>1, <2>1, <2>2
<1>3. ~IsJoinLeave(body)
  BY <1>1 DEF IsJoinLeave
<1>4. IsDeath(body) <=> b.kind = "verb"
  BY <1>1 DEF IsDeath
<1>5. IsAdvancement(body) <=> b = Word("has made the advancement") /\ c.kind = "bracket"
  BY <1>1 DEF IsAdvancement
<1>6. ASSUME b.kind = "verb"
      PROVE  ParseBody(body) = [event |-> "death", player |-> a.v,
                                message |-> <<b, c>>, full |-> <<>>]
  <2>1. ParseBody(body) = [event |-> "death", player |-> body[1].v,
                           message |-> Tail(body), full |-> <<>>]
    <3>1. ~IsAdvancement(body)
      <4>1. Word("has made the advancement").kind = "word"
        BY DEF Word, Token
      <4>2. b # Word("has made the advancement")
        BY <1>6, <4>1
      <4> QED BY <1>5, <4>2
    <3> QED BY <1>2, <1>3, <1>4, <1>6, <3>1 DEF ParseBody
  <2> QED BY <1>1, <2>1
<1>7. ASSUME b.kind # "verb", b = Word("has made the advancement"),
             c.kind = "bracket"
      PROVE  ParseBody(body) = [event |-> "advancement", player |-> a.v,
                                message |-> <<b, c>>, full |-> <<>>]
  <2>1. ParseBody(body) = [event |-> "advancement", player |-> body[1].v,
                           message |-> Tail(body), full |-> <<>>]
    BY <1>2, <1>3, <1>4, <1>5, <1>7 DEF ParseBody
  <2> QED BY <1>1, <2>1
<1>8. ASSUME b.kind # "verb", b # Word("has made the advancement")
      PROVE  ParseBody(body) = NoLine
  BY <1>1, <1>2, <1>3, <1>4, <1>5, <1>8 DEF ParseBody
<1> QED BY <1>6, <1>7, <1>8 DEF body

\* The log tailer reads a text as this event of this player.
Reads(body, event, p) ==
  ParseBody(body).event = event /\ ParseBody(body).player = p

LEMMA ReadsIs ==
  ASSUME NEW body, NEW event, NEW p, NEW message,
         ParseBody(body) = [event |-> event, player |-> p, message |-> message,
                            full |-> <<>>]
  PROVE  Reads(body, event, p)
BY DEF Reads

\* The game's own texts and those of other plugins, as parseLine takes them.
LEMMA ShortBodies ==
  ASSUME NEW p
  PROVE  /\ Reads(<<Name(p), Word("joined the game")>>, "join", p)
         /\ Reads(<<Name(p), Word("left the game")>>, "leave", p)
         /\ Reads(<<Name(p), Verb("was slain"), Name("Zombie")>>, "death", p)
         /\ Reads(<<Name(p), Word("has made the advancement"), Tagged("Iron")>>,
                  "advancement", p)
         /\ ParseBody(<<Name(p), Verb("drowned")>>) = NoLine
         /\ ParseBody(<<Name(p), Word("was skewered"), Name("Goat")>>) = NoLine
         /\ ParseBody(<<Word("welcome"), Name(p)>>) = NoLine
         /\ ParseBody(<<Name(p), Word("is here")>>) = NoLine
<1>1. /\ Name(p).kind = "name" /\ Name(p).v = p /\ Name("Zombie").kind = "name"
      /\ Name("Goat").kind = "name" /\ Tagged("Iron").kind = "bracket"
      /\ \A w : Word(w).kind = "word" /\ Verb(w).kind = "verb"
  BY DEF Name, Tagged, Word, Verb, Token
<1>2. /\ Word("joined the game") \in JoinLeave /\ Word("left the game") \in JoinLeave
      /\ Word("joined the game") # Word("left the game")
      /\ Word("is here") \notin JoinLeave
      /\ Verb("drowned") \notin JoinLeave
      /\ Word("was skewered") # Word("has made the advancement")
  BY DEF JoinLeave, Word, Verb, Token
<1>3. /\ ParseBody(<<Name(p), Word("joined the game")>>) =
           [event |-> "join", player |-> p, message |-> <<Word("joined the game")>>,
            full |-> <<>>]
      /\ ParseBody(<<Name(p), Word("left the game")>>) =
           [event |-> "leave", player |-> p, message |-> <<Word("left the game")>>,
            full |-> <<>>]
  BY <1>1, <1>2, TwoTokens
<1>4. /\ ParseBody(<<Name(p), Verb("drowned")>>) = NoLine
      /\ ParseBody(<<Word("welcome"), Name(p)>>) = NoLine
      /\ ParseBody(<<Name(p), Word("is here")>>) = NoLine
  BY <1>1, <1>2, TwoTokens
<1>5. ParseBody(<<Name(p), Verb("was slain"), Name("Zombie")>>) =
        [event |-> "death", player |-> p,
         message |-> <<Verb("was slain"), Name("Zombie")>>, full |-> <<>>]
  BY <1>1, ThreeTokens
<1>6. ParseBody(<<Name(p), Word("has made the advancement"), Tagged("Iron")>>) =
        [event |-> "advancement", player |-> p,
         message |-> <<Word("has made the advancement"), Tagged("Iron")>>,
         full |-> <<>>]
  BY <1>1, ThreeTokens
<1>7. ParseBody(<<Name(p), Word("was skewered"), Name("Goat")>>) = NoLine
  BY <1>1, <1>2, ThreeTokens
<1>8. /\ Reads(<<Name(p), Word("joined the game")>>, "join", p)
      /\ Reads(<<Name(p), Word("left the game")>>, "leave", p)
  BY <1>3, ReadsIs
<1>9. Reads(<<Name(p), Verb("was slain"), Name("Zombie")>>, "death", p)
  BY <1>5, ReadsIs
<1>10. Reads(<<Name(p), Word("has made the advancement"), Tagged("Iron")>>,
             "advancement", p)
  BY <1>6, ReadsIs
<1> QED BY <1>4, <1>7, <1>8, <1>9, <1>10

\* What the game announces itself: on one line, with no colours, and read as
\* what it is, but for deaths with an unknown verb or nothing behind it.
LEMMA VanillaHappens ==
  ASSUME NEW p \in Players, NEW h \in Vanilla(p)
  PROVE  /\ h \in AnyHappening(Words) /\ h.kind \in Events /\ h.announced
         /\ h.player = p
         /\ Plain(h.text) = h.text /\ h.text # <<>> /\ Head(h.text) # Mark("source")
         /\ \/ Reads(h.text, h.kind, p)
            \/ /\ ParseBody(h.text) = NoLine /\ h.kind = "death"
               /\ Len(h.text) = 2 \/ h.text[2].kind # "verb"
<1> DEFINE T == Tokens(Words) \ {Mark("cr")}
<1>1. PICK n, j, l, v, z, d, s, g, m, i :
        /\ n = Name(p) /\ j = Word("joined the game") /\ l = Word("left the game")
        /\ v = Verb("was slain") /\ z = Name("Zombie") /\ d = Verb("drowned")
        /\ s = Word("was skewered") /\ g = Name("Goat")
        /\ m = Word("has made the advancement") /\ i = Tagged("Iron")
  OBVIOUS
<1>2. /\ h.player = p /\ h.tags = <<>> /\ h.announced
      /\ \/ h.kind = "join" /\ h.text = <<n, j>>
         \/ h.kind = "leave" /\ h.text = <<n, l>>
         \/ h.kind = "death" /\ h.text \in {<<n, v, z>>, <<n, d>>, <<n, s, g>>}
         \/ h.kind = "advancement" /\ h.text = <<n, m, i>>
      /\ h = [kind |-> h.kind, player |-> h.player, text |-> h.text,
              tags |-> h.tags, announced |-> h.announced]
  BY <1>1 DEF Vanilla, Happen
<1>3. /\ n \in T /\ j \in T /\ l \in T /\ v \in T /\ z \in T /\ d \in T /\ s \in T
      /\ g \in T /\ m \in T /\ i \in T
  <2>1. /\ p \in Words /\ "joined the game" \in Words /\ "left the game" \in Words
        /\ "was slain" \in Words /\ "Zombie" \in Words /\ "drowned" \in Words
        /\ "was skewered" \in Words /\ "Goat" \in Words
        /\ "has made the advancement" \in Words /\ "Iron" \in Words
    BY DEF Words, Players
  <2> QED BY <1>1, <2>1, WordsAre
<1>4. /\ n # Mark("colour") /\ j # Mark("colour") /\ l # Mark("colour")
      /\ v # Mark("colour") /\ z # Mark("colour") /\ d # Mark("colour")
      /\ s # Mark("colour") /\ g # Mark("colour") /\ m # Mark("colour")
      /\ i # Mark("colour") /\ n # Mark("source")
  BY <1>1 DEF Name, Word, Verb, Tagged, Mark, Token
<1>5. h.text \in {<<n, j>>, <<n, l>>, <<n, v, z>>, <<n, d>>, <<n, s, g>>, <<n, m, i>>}
  BY <1>2
<1> HIDE DEF T
<1>6. h.text \in Seq(T) /\ h.text # <<>> /\ Head(h.text) = n
  <2>1. <<n, j>> \in Seq(T) /\ <<n, l>> \in Seq(T) /\ <<n, d>> \in Seq(T)
    BY <1>3
  <2>2. /\ <<n, v, z>> \in Seq(T) /\ <<n, s, g>> \in Seq(T)
        /\ <<n, m, i>> \in Seq(T)
    BY <1>3
  <2>3. h.text \in Seq(T)
    BY <1>5, <2>1, <2>2
  <2>4. h.text # <<>>
    BY <1>5
  <2>5. Head(h.text) = n
    BY <1>5
  <2> QED BY <2>3, <2>4, <2>5
<1>7. Plain(h.text) = h.text
  <2>1. /\ Plain(<<n, j>>) = <<n, j>> /\ Plain(<<n, l>>) = <<n, l>>
        /\ Plain(<<n, d>>) = <<n, d>> /\ Plain(<<n, v, z>>) = <<n, v, z>>
        /\ Plain(<<n, s, g>>) = <<n, s, g>> /\ Plain(<<n, m, i>>) = <<n, m, i>>
    BY <1>4, PlainShort
  <2> QED BY <1>5, <2>1
<1>8. /\ Reads(<<n, j>>, "join", p) /\ Reads(<<n, l>>, "leave", p)
      /\ Reads(<<n, v, z>>, "death", p) /\ Reads(<<n, m, i>>, "advancement", p)
      /\ ParseBody(<<n, d>>) = NoLine /\ ParseBody(<<n, s, g>>) = NoLine
  BY <1>1, ShortBodies
<1>9. \/ Reads(h.text, h.kind, p)
      \/ /\ ParseBody(h.text) = NoLine /\ h.kind = "death"
         /\ Len(h.text) = 2 \/ h.text[2].kind # "verb"
  <2>1. CASE h.text = <<n, d>>
    <3>1. Len(h.text) = 2
      BY <2>1
    <3>2. h.kind = "death" \/ Reads(h.text, h.kind, p)
      BY <1>2, <1>8, <2>1
    <3> QED BY <1>8, <2>1, <3>1, <3>2
  <2>2. CASE h.text = <<n, s, g>>
    <3>1. h.text[2] = s /\ s.kind = "word" /\ Len(h.text) = 3
      <4>1. s.kind = "word"
        BY <1>1 DEF Word, Token
      <4>2. h.text[2] = s /\ Len(h.text) = 3
        BY <2>2
      <4> QED BY <4>1, <4>2
    <3>2. h.kind = "death" \/ Reads(h.text, h.kind, p)
      BY <1>2, <1>8, <2>2
    <3> QED BY <1>8, <2>2, <3>1, <3>2
  <2>3. CASE h.text \notin {<<n, d>>, <<n, s, g>>}
    BY <1>2, <1>8, <2>3
  <2> QED BY <2>1, <2>2, <2>3
<1>10. h \in AnyHappening(Words) /\ h.kind \in Events
  <2>1. p \in Words \ {""}
    BY DEF Words, Players
  <2>2. h.kind \in Events
    BY <1>2 DEF Events
  <2>3. h.text \in OneLine(Words)
    BY <1>6 DEF OneLine, T
  <2>4. h.tags \in Seq(Brackets(Words)) /\ h.announced \in BOOLEAN
    <3>1. h.announced \in BOOLEAN
      BY DEF Vanilla, Happen
    <3> QED BY <1>2, <3>1, EmptySeq
  <2> QED BY <1>2, <2>1, <2>2, <2>3, <2>4 DEF AnyHappening
<1> QED BY <1>2, <1>4, <1>6, <1>7, <1>9, <1>10

\* Of the texts of other plugins the log tailer reads none as an event.
LEMMA CustomHappens ==
  ASSUME NEW p \in Players, NEW h \in Custom(p)
  PROVE  /\ h \in AnyHappening(Words) /\ h.kind \in Events /\ h.announced
         /\ Plain(h.text) = <<>> \/ Head(Plain(h.text)) # Mark("source")
         /\ ParseBody(Plain(h.text)) = NoLine
<1> DEFINE T == Tokens(Words) \ {Mark("cr")}
<1>1. PICK k, w, n, x : /\ k = Mark("colour") /\ w = Word("welcome")
                        /\ n = Name(p) /\ x = Word("is here")
  OBVIOUS
<1>2. /\ h.kind \in {"join", "leave", "death"} /\ h.player = p /\ h.tags = <<>>
      /\ h.announced /\ h.announced \in BOOLEAN
      /\ h.text \in {<<>>, <<k>>, <<w, n>>, <<k, n, x>>}
      /\ h = [kind |-> h.kind, player |-> h.player, text |-> h.text,
              tags |-> h.tags, announced |-> h.announced]
  BY <1>1 DEF Custom, Happen
<1>3. w \in T /\ n \in T /\ x \in T /\ k \in T
  <2>1. p \in Words /\ "welcome" \in Words /\ "is here" \in Words
    BY DEF Words, Players
  <2>2. k \in T
    BY <1>1, TokensAre DEF Mark, Token
  <2> QED BY <1>1, <2>1, <2>2, WordsAre
<1>4. w # k /\ n # k /\ x # k /\ w # Mark("source") /\ n # Mark("source")
  BY <1>1 DEF Name, Word, Mark, Token
<1> HIDE DEF T
<1>5. h.text \in Seq(T)
  <2>1. <<>> \in Seq(T) /\ <<k>> \in Seq(T) /\ <<w, n>> \in Seq(T)
        /\ <<k, n, x>> \in Seq(T)
    BY <1>3
  <2> QED BY <1>2, <2>1
<1>6. Plain(h.text) \in {<<>>, <<w, n>>, <<n, x>>}
  <2>1. /\ Plain(<<w, n>>) = <<w, n>> /\ Plain(<<k, n, x>>) = <<n, x>>
    BY <1>1, <1>4, PlainShort
  <2>2. Plain(<<>>) = <<>> /\ Plain(<<k>>) = <<>>
    BY <1>1, WithoutEmpty, PlainColour DEF Plain
  <2> QED BY <1>2, <2>1, <2>2
<1>7. Plain(h.text) = <<>> \/ Head(Plain(h.text)) # Mark("source")
  <2>1. Head(<<w, n>>) = w /\ Head(<<n, x>>) = n
    OBVIOUS
  <2> QED BY <1>4, <1>6, <2>1
<1>8. ParseBody(Plain(h.text)) = NoLine
  <2>1. ParseBody(<<w, n>>) = NoLine /\ ParseBody(<<n, x>>) = NoLine
    BY <1>1, ShortBodies
  <2> QED BY <1>6, <2>1, NothingInNothing
<1>9. h \in AnyHappening(Words) /\ h.kind \in Events
  <2>1. p \in Words \ {""}
    BY DEF Words, Players
  <2>2. h.kind \in Events
    BY <1>2 DEF Events
  <2>3. h.text \in OneLine(Words)
    BY <1>5 DEF OneLine, T
  <2>4. h.tags \in Seq(Brackets(Words))
    BY <1>2, EmptySeq
  <2> QED BY <1>2, <2>1, <2>2, <2>3, <2>4 DEF AnyHappening
<1> QED BY <1>2, <1>7, <1>8, <1>9

\* What is announced is of the game, of another plugin, or chat.
LEMMA HappeningsAre ==
  ASSUME NEW h \in Happenings, h.announced
  PROVE  \E p \in Players : h \in Vanilla(p) \/ h \in Chat(p) \/ h \in Custom(p)
<1>1. PICK p \in Players :
        h \in Vanilla(p) \/ h \in Chat(p) \/ h \in Custom(p) \/ h \in Unannounced(p)
  BY DEF Happenings
<1>2. h \notin Unannounced(p)
  BY DEF Unannounced, Vanilla, Happen
<1> QED BY <1>1, <1>2

LEMMA PluginShowsAllHolds == PluginShowsAll
<1> SUFFICES ASSUME NEW h \in Happenings, h.kind # "chat", h.announced,
                    Plain(h.text) # <<>>
             PROVE  ByPlugin(h, TRUE) = Shown(h)
  BY DEF PluginShowsAll, Shown, Plain
<1>1. PICK p \in Players : h \in Vanilla(p) \/ h \in Chat(p) \/ h \in Custom(p)
  BY HappeningsAre
<1>2. h \in AnyHappening(Words) /\ h.kind \in Events
  BY <1>1, VanillaHappens, ChatHappens, CustomHappens
<1> QED BY <1>2, PluginShowsEveryText

LEMMA SourcesAgreeHolds == SourcesAgree
<1> SUFFICES ASSUME NEW h \in Happenings, NEW c \in Consoles, NEW all \in BOOLEAN,
                    ByLog(h, c, all) # NoMessage
             PROVE  ByLog(h, c, all) = ByPlugin(h, all)
  BY DEF SourcesAgree
<1>1. h.announced
  BY DEF ByLog
<1>2. PICK p \in Players : h \in Vanilla(p) \/ h \in Chat(p) \/ h \in Custom(p)
  BY <1>1, HappeningsAre
<1>3. CASE h \in Chat(p)
  <2>1. /\ h \in AnyHappening(Words) /\ h.kind = "chat" /\ Plain(h.text) # <<>>
    BY <1>3, ChatHappens
  <2> QED BY <1>1, <2>1, ChatIsChat
<1>4. CASE h \in Vanilla(p)
  <2>1. /\ h \in AnyHappening(Words) /\ h.kind \in Events /\ h.player = p
        /\ Plain(h.text) = h.text /\ Head(h.text) # Mark("source")
        /\ Reads(h.text, h.kind, p) \/ ParseBody(h.text) = NoLine
    BY <1>4, VanillaHappens
  <2>2. NoLine.event = "none"
    BY DEF NoLine
  <2>3. /\ ParseBody(Plain(h.text)).event = "none" =>
             ByLog(h, c, all) = NoMessage
        /\ ParseBody(Plain(h.text)).event = h.kind
           /\ ParseBody(Plain(h.text)).player = h.player =>
             ByLog(h, c, all) = ByPlugin(h, all)
    BY <1>1, <2>1, SourcesShowAlike
  <2> QED BY <2>1, <2>2, <2>3 DEF Reads
<1>5. CASE h \in Custom(p)
  <2>1. /\ h \in AnyHappening(Words) /\ h.kind \in Events
        /\ Plain(h.text) = <<>> \/ Head(Plain(h.text)) # Mark("source")
        /\ ParseBody(Plain(h.text)).event = "none"
    <3>1. NoLine.event = "none"
      BY DEF NoLine
    <3>2. ParseBody(Plain(h.text)) = NoLine
      BY <1>5, CustomHappens
    <3> QED BY <1>5, <3>1, <3>2, CustomHappens
  <2> QED BY <1>1, <2>1, SourcesShowAlike
<1> QED BY <1>2, <1>3, <1>4, <1>5

-----------------------------------------------------------------------------
(* The runs' properties.                                                   *)

\* What a player types stays chat of that player (parseLine and toChatLine).
THEOREM ChatStaysChatAlways == Spec => []ChatStaysChat
<1>1. ChatStaysChat
  BY NoFakeEventsHolds DEF ChatStaysChat
<1> QED BY <1>1, PTL

\* The plugin source loses and changes no announced text (toChatLine and
\* handleChatLine).
THEOREM PluginIsCompleteAlways == Spec => []PluginIsComplete
<1>1. PluginIsComplete
  BY PluginShowsAllHolds DEF PluginIsComplete
<1> QED BY <1>1, PTL

\* Both sources show the same of what happens (parseLine and toChatLine).
THEOREM SameFromBothSourcesAlways == Spec => []SameFromBothSources
<1>1. SameFromBothSources
  BY SourcesAgreeHolds DEF SameFromBothSources
<1> QED BY <1>1, PTL

=============================================================================
