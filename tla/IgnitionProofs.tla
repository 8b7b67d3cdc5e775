---------------------------- MODULE IgnitionProofs ----------------------------
(***************************************************************************)
(* Theorems about the rewriting of ignition endpoint URLs.  They hold for  *)
(* URLs of any length, made of the model's tokens in any order: nothing    *)
(* else is used of the URLs to be rewritten.                               *)
(***************************************************************************)
EXTENDS IgnitionEndpoint, SequenceTheorems, FiniteSetTheorems, TLAPS

Token ==
  Words \union Names
    \union {":", "://", "/", "?", "[", "]", "1.2.3.4", "ignition", "config", "query"}

URL == Seq(Token)

-----------------------------------------------------------------------------
(* Positions of tokens *)

LEMMA HasMin ==
  ASSUME NEW S \in SUBSET Nat, S # {}
  PROVE  Min(S) \in S /\ \A y \in S : Min(S) <= y
<1>1. \E x \in S : \A y \in S : ~(<<y, x>> \in OpToRel(<, Nat))
  BY NatLessThanWellFounded, WFMin
<1>2. \A x, y \in Nat : ~(<<y, x>> \in OpToRel(<, Nat)) => x <= y
  BY DEF OpToRel
<1>3. \E x \in S : \A y \in S : x <= y
  BY <1>1, <1>2
<1> QED
  BY <1>3 DEF Min

LEMMA HasMax ==
  ASSUME NEW n \in Nat, NEW S \in SUBSET (1..n), S # {}
  PROVE  Max(S) \in S /\ \A y \in S : Max(S) >= y
<1> DEFINE T == {n - i : i \in S}
<1>1. T \in SUBSET Nat /\ T # {}
  <2>1. \A i \in S : n - i \in Nat
    OBVIOUS
  <2> QED
    BY <2>1
<1>2. Min(T) \in T /\ \A y \in T : Min(T) <= y
  BY <1>1, HasMin
<1>3. PICK x \in S : Min(T) = n - x
  BY <1>2
<1>4. \A y \in S : n - x <= n - y
  BY <1>2, <1>3
<1>5. \E z \in S : \A y \in S : z >= y
  BY <1>4
<1> QED
  BY <1>5 DEF Max

\* What Index finds: the first t in u.
LEMMA IndexFinds ==
  ASSUME NEW u \in URL, NEW t
  PROVE  /\ Index(u, t) \in 0..Len(u)
         /\ Index(u, t) = 0 <=> \A i \in 1..Len(u) : u[i] # t
         /\ Index(u, t) # 0 => u[Index(u, t)] = t
         /\ \A i \in 1..Index(u, t) - 1 : u[i] # t
<1> DEFINE I == {i \in 1..Len(u) : u[i] = t}
<1>1. Index(u, t) = IF I # {} THEN Min(I) ELSE 0
  BY DEF Index, SelectInSeq
<1>2. I \in SUBSET Nat /\ Len(u) \in Nat
  BY DEF URL
<1>3. I # {} => Min(I) \in I /\ \A y \in I : Min(I) <= y
  BY <1>2, HasMin
<1>4. \A i \in 1..Len(u) : i \in I <=> u[i] = t
  OBVIOUS
<1>5. CASE I = {}
  BY <1>1, <1>2, <1>4, <1>5
<1>6. CASE I # {}
  <2> DEFINE k == Index(u, t)
  <2>1. k \in I /\ k \in 1..Len(u) /\ u[k] = t
    BY <1>1, <1>2, <1>3, <1>6
  <2>2. \A y \in I : k <= y
    BY <1>1, <1>3, <1>6
  <2> HIDE DEF k, I
  <2> QED
    BY <1>2, <1>4, <2>1, <2>2 DEF k
<1> QED
  BY <1>5, <1>6

\* What LastIndex finds: the last t in u.
LEMMA LastIndexFinds ==
  ASSUME NEW u \in URL, NEW t
  PROVE  /\ LastIndex(u, t) \in 0..Len(u)
         /\ LastIndex(u, t) = 0 <=> \A i \in 1..Len(u) : u[i] # t
         /\ LastIndex(u, t) # 0 => u[LastIndex(u, t)] = t
         /\ \A i \in LastIndex(u, t) + 1..Len(u) : u[i] # t
<1> DEFINE I == {i \in 1..Len(u) : u[i] = t}
<1>1. LastIndex(u, t) = IF I # {} THEN Max(I) ELSE 0
  BY DEF LastIndex, SelectLastInSeq
<1>2. I \in SUBSET (1..Len(u)) /\ Len(u) \in Nat
  BY DEF URL
<1>3. I # {} => Max(I) \in I /\ \A y \in I : Max(I) >= y
  BY <1>2, HasMax
<1>4. \A i \in 1..Len(u) : i \in I <=> u[i] = t
  OBVIOUS
<1>5. CASE I = {}
  BY <1>1, <1>2, <1>4, <1>5
<1>6. CASE I # {}
  <2> DEFINE k == LastIndex(u, t)
  <2>1. k \in I /\ k \in 1..Len(u) /\ u[k] = t
    BY <1>1, <1>2, <1>3, <1>6
  <2>2. \A y \in I : k >= y
    BY <1>1, <1>3, <1>6
  <2> HIDE DEF k, I
  <2> QED
    BY <1>2, <1>4, <2>1, <2>2 DEF k
<1> QED
  BY <1>5, <1>6
-----------------------------------------------------------------------------
(* Cutting URLs and putting them together *)

LEMMA Same ==
  ASSUME NEW s \in URL, NEW t \in URL, Len(s) = Len(t), \A i \in 1..Len(s) : s[i] = t[i]
  PROVE  s = t
BY SeqEqual DEF URL

LEMMA Lengths ==
  ASSUME NEW u \in URL
  PROVE  /\ Len(u) \in Nat /\ DOMAIN u = 1..Len(u)
         /\ u = <<>> <=> Len(u) = 0
         /\ \A i \in 1..Len(u) : u[i] \in Token
BY DEF URL

LEMMA Cuts ==
  ASSUME NEW u \in URL, NEW i \in 1..Len(u) + 1
  PROVE  /\ Before(u, i) \in URL /\ Len(Before(u, i)) = i - 1
         /\ \A k \in 1..i - 1 : Before(u, i)[k] = u[k]
         /\ From(u, i) \in URL /\ Len(From(u, i)) = Len(u) + 1 - i
         /\ \A k \in 1..Len(u) + 1 - i : From(u, i)[k] = u[i + k - 1]
<1>1. Len(u) \in Nat /\ \A k \in 1..Len(u) : u[k] \in Token
  BY Lengths
<1>2. /\ SubSeq(u, 1, i - 1) \in Seq(Token)
      /\ Len(SubSeq(u, 1, i - 1)) = IF 1 <= i - 1 THEN i - 1 - 1 + 1 ELSE 0
      /\ \A k \in 1..i - 1 - 1 + 1 : SubSeq(u, 1, i - 1)[k] = u[1 + k - 1]
  <2>1. \A k \in 1..i - 1 : u[k] \in Token
    BY <1>1
  <2> QED
    BY <1>1, <2>1, SubSeqProperties
<1>3. /\ SubSeq(u, i, Len(u)) \in Seq(Token)
      /\ Len(SubSeq(u, i, Len(u))) = IF i <= Len(u) THEN Len(u) - i + 1 ELSE 0
      /\ \A k \in 1..Len(u) - i + 1 : SubSeq(u, i, Len(u))[k] = u[i + k - 1]
  <2>1. \A k \in i..Len(u) : u[k] \in Token
    BY <1>1
  <2> QED
    BY <1>1, <2>1, SubSeqProperties
<1>4. /\ Before(u, i) \in URL /\ Len(Before(u, i)) = i - 1
      /\ \A k \in 1..i - 1 : Before(u, i)[k] = u[k]
  BY <1>1, <1>2 DEF Before, URL
<1>5. /\ From(u, i) \in URL /\ Len(From(u, i)) = Len(u) + 1 - i
      /\ \A k \in 1..Len(u) + 1 - i : From(u, i)[k] = u[i + k - 1]
  BY <1>1, <1>3 DEF From, URL
<1> QED
  BY <1>4, <1>5

LEMMA Joins ==
  ASSUME NEW s \in URL, NEW t \in URL
  PROVE  /\ s \o t \in URL /\ Len(s \o t) = Len(s) + Len(t)
         /\ \A i \in 1..Len(s) : (s \o t)[i] = s[i]
         /\ \A i \in 1..Len(t) : (s \o t)[Len(s) + i] = t[i]
<1>1. /\ s \o t \in Seq(Token) /\ Len(s \o t) = Len(s) + Len(t)
      /\ \A i \in 1..Len(s) + Len(t) : (s \o t)[i] =
                     IF i <= Len(s) THEN s[i] ELSE t[i - Len(s)]
  BY ConcatProperties DEF URL
<1>2. Len(s) \in Nat /\ Len(t) \in Nat
  BY Lengths
<1> QED
  BY <1>1, <1>2 DEF URL

LEMMA Tokens ==
  /\ <<>> \in URL /\ Len(<<>>) = 0
  /\ \A a \in Token : <<a>> \in URL /\ Len(<<a>>) = 1 /\ <<a>>[1] = a
  /\ \A a, b \in Token : /\ <<a, b>> \in URL /\ Len(<<a, b>>) = 2
                          /\ <<a, b>>[1] = a /\ <<a, b>>[2] = b
<1>1. <<>> \in URL /\ Len(<<>>) = 0
  BY EmptySeq DEF URL
<1>2. ASSUME NEW a \in Token
      PROVE  <<a>> \in URL /\ Len(<<a>>) = 1 /\ <<a>>[1] = a
  BY DEF URL
<1>3. ASSUME NEW a \in Token, NEW b \in Token
      PROVE  /\ <<a, b>> \in URL /\ Len(<<a, b>>) = 2
             /\ <<a, b>>[1] = a /\ <<a, b>>[2] = b
  BY DEF URL
<1> QED
  BY <1>1, <1>2, <1>3

LEMMA Pairs ==
  ASSUME NEW a \in Token, NEW b \in Token
  PROVE  <<a>> \o <<b>> = <<a, b>>
<1> DEFINE s == <<a>>
           t == <<b>>
           d == <<a, b>>
           c == s \o t
<1>1. /\ s \in URL /\ Len(s) = 1 /\ s[1] = a /\ t \in URL /\ Len(t) = 1 /\ t[1] = b
      /\ d \in URL /\ Len(d) = 2 /\ d[1] = a /\ d[2] = b
  BY Tokens
<1> HIDE DEF s, t, d
<1>2. /\ c \in URL /\ Len(c) = Len(s) + Len(t)
      /\ \A i \in 1..Len(s) : c[i] = s[i]
      /\ \A i \in 1..Len(t) : c[Len(s) + i] = t[i]
  BY <1>1, Joins
<1> HIDE DEF c
<1>3. Len(c) = 2 /\ c[1] = a /\ c[2] = b
  BY <1>1, <1>2
<1>4. \A i \in 1..2 : c[i] = d[i]
  BY <1>1, <1>3
<1>5. c = d
  BY <1>1, <1>2, <1>3, <1>4, Same
<1> QED
  BY <1>5 DEF s, t, d, c

LEMMA Associates ==
  ASSUME NEW s \in URL, NEW t \in URL, NEW v \in URL
  PROVE  (s \o t) \o v = s \o (t \o v)
BY ConcatAssociative DEF URL

\* Associativity, kept folded so that it is used for these three alone.
Regroup(s, t, v) == (s \o t) \o v = s \o (t \o v)

LEMMA Regroups ==
  ASSUME NEW s \in URL, NEW t \in URL, NEW v \in URL
  PROVE  Regroup(s, t, v)
BY Associates DEF Regroup

LEMMA Empties ==
  ASSUME NEW s \in URL
  PROVE  s \o <<>> = s /\ <<>> \o s = s
BY ConcatEmptySeq DEF URL

\* A URL that was put together is cut where it was.
LEMMA CutsJoined ==
  ASSUME NEW s \in URL, NEW t \in URL
  PROVE  Before(s \o t, Len(s) + 1) = s /\ From(s \o t, Len(s) + 1) = t
<1> DEFINE u == s \o t
<1>1. /\ u \in URL /\ Len(u) = Len(s) + Len(t) /\ Len(s) \in Nat /\ Len(t) \in Nat
      /\ \A i \in 1..Len(s) : u[i] = s[i]
      /\ \A i \in 1..Len(t) : u[Len(s) + i] = t[i]
  BY Joins, Lengths
<1> HIDE DEF u
<1> DEFINE i == Len(s) + 1
<1>2. i \in 1..Len(u) + 1 /\ i - 1 = Len(s) /\ Len(u) + 1 - i = Len(t)
  BY <1>1
<1>3. \A k \in 1..Len(t) : i + k - 1 = Len(s) + k
  BY <1>1
<1> HIDE DEF i
<1>4. /\ Before(u, i) \in URL /\ Len(Before(u, i)) = i - 1
      /\ \A k \in 1..i - 1 : Before(u, i)[k] = u[k]
      /\ From(u, i) \in URL /\ Len(From(u, i)) = Len(u) + 1 - i
      /\ \A k \in 1..Len(u) + 1 - i : From(u, i)[k] = u[i + k - 1]
  BY <1>1, <1>2, Cuts
<1>5. Before(u, i) = s
  BY <1>1, <1>2, <1>4, Same
<1>6. From(u, i) = t
  <2>1. \A k \in 1..Len(t) : From(u, i)[k] = t[k]
    BY <1>1, <1>2, <1>3, <1>4
  <2> QED
    BY <1>2, <1>4, <2>1, Same
<1> QED
  BY <1>5, <1>6 DEF u, i

\* The pieces a URL is cut into make it up.
LEMMA JoinsCut ==
  ASSUME NEW u \in URL, NEW i \in 1..Len(u) + 1
  PROVE  Before(u, i) \o From(u, i) = u
<1> DEFINE s == Before(u, i)
           t == From(u, i)
<1>1. /\ s \in URL /\ Len(s) = i - 1 /\ Len(u) \in Nat
      /\ \A k \in 1..i - 1 : s[k] = u[k]
      /\ t \in URL /\ Len(t) = Len(u) + 1 - i
      /\ \A k \in 1..Len(u) + 1 - i : t[k] = u[i + k - 1]
  <2>1. Len(u) \in Nat
    BY Lengths
  <2> QED
    BY <2>1, Cuts
<1> HIDE DEF s, t
<1>2. /\ s \o t \in URL /\ Len(s \o t) = Len(u)
      /\ \A k \in 1..Len(s) : (s \o t)[k] = s[k]
      /\ \A k \in 1..Len(t) : (s \o t)[Len(s) + k] = t[k]
  <2>1. Len(s) + Len(t) = Len(u)
    BY <1>1
  <2> QED
    BY <1>1, <2>1, Joins
<1>3. ASSUME NEW k \in 1..Len(u)
      PROVE  (s \o t)[k] = u[k]
  <2>1. CASE k < i
    BY <1>1, <1>2, <2>1
  <2>2. CASE k >= i
    <3> DEFINE l == k - i + 1
    <3>1. l \in 1..Len(t) /\ l \in 1..Len(u) + 1 - i /\ Len(s) + l = k /\ i + l - 1 = k
      BY <1>1, <2>2
    <3> HIDE DEF l
    <3>2. t[l] = u[k]
      BY <1>1, <3>1
    <3>3. (s \o t)[Len(s) + l] = t[l]
      BY <1>2, <3>1
    <3> QED
      BY <3>1, <3>2, <3>3
  <2> QED
    BY <1>1, <2>1, <2>2
<1>4. s \o t = u
  BY <1>2, <1>3, Same
<1> QED
  BY <1>4 DEF s, t
-----------------------------------------------------------------------------
(* The part of a URL before the first x, and the rest *)

Lacks(u, x) == \A i \in 1..Len(u) : u[i] # x
Upto(u, x) == IF Index(u, x) = 0 THEN u ELSE Before(u, Index(u, x))
Onward(u, x) == IF Index(u, x) = 0 THEN <<>> ELSE From(u, Index(u, x))

\* The rest begins with x, if there is one.
Begins(u, x) == u = <<>> \/ u[1] = x

LEMMA IndexIs ==
  ASSUME NEW u \in URL, NEW x, NEW k \in 1..Len(u), u[k] = x, \A i \in 1..k - 1 : u[i] # x
  PROVE  Index(u, x) = k
<1> DEFINE n == Index(u, x)
<1>1. Len(u) \in Nat
  BY Lengths
<1>2. /\ n \in 0..Len(u) /\ n # 0 /\ u[n] = x
      /\ \A i \in 1..n - 1 : u[i] # x
  BY <1>1, IndexFinds
<1> HIDE DEF n
<1>3. n = k
  BY <1>1, <1>2
<1> QED
  BY <1>3 DEF n

LEMMA LastIndexIs ==
  ASSUME NEW u \in URL, NEW x, NEW k \in 1..Len(u), u[k] = x,
         \A i \in k + 1..Len(u) : u[i] # x
  PROVE  LastIndex(u, x) = k
<1> DEFINE n == LastIndex(u, x)
<1>1. Len(u) \in Nat
  BY Lengths
<1>2. /\ n \in 0..Len(u) /\ n # 0 /\ u[n] = x
      /\ \A i \in n + 1..Len(u) : u[i] # x
  BY <1>1, LastIndexFinds
<1> HIDE DEF n
<1>3. n = k
  BY <1>1, <1>2
<1> QED
  BY <1>3 DEF n

LEMMA Splits ==
  ASSUME NEW u \in URL, NEW x
  PROVE  /\ Upto(u, x) \in URL /\ Onward(u, x) \in URL
         /\ Upto(u, x) \o Onward(u, x) = u
         /\ Lacks(Upto(u, x), x) /\ Begins(Onward(u, x), x)
<1> DEFINE n == Index(u, x)
<1>1. /\ Len(u) \in Nat /\ n \in 0..Len(u)
      /\ n = 0 => \A i \in 1..Len(u) : u[i] # x
      /\ n # 0 => u[n] = x
      /\ \A i \in 1..n - 1 : u[i] # x
  BY Lengths, IndexFinds
<1> HIDE DEF n
<1>2. CASE n = 0
  <2>1. Upto(u, x) = u /\ Onward(u, x) = <<>>
    BY <1>2 DEF n, Upto, Onward
  <2> QED
    BY <1>1, <1>2, <2>1, Tokens, Empties DEF Lacks, Begins
<1>3. CASE n # 0
  <2>1. Upto(u, x) = Before(u, n) /\ Onward(u, x) = From(u, n)
    BY <1>3 DEF n, Upto, Onward
  <2>2. n \in 1..Len(u) + 1 /\ 1 \in 1..Len(u) + 1 - n /\ n + 1 - 1 = n
    BY <1>1, <1>3
  <2>3. /\ Before(u, n) \in URL /\ Len(Before(u, n)) = n - 1
        /\ \A k \in 1..n - 1 : Before(u, n)[k] = u[k]
        /\ From(u, n) \in URL
        /\ \A k \in 1..Len(u) + 1 - n : From(u, n)[k] = u[n + k - 1]
        /\ Before(u, n) \o From(u, n) = u
    BY <2>2, Cuts, JoinsCut
  <2>4. From(u, n)[1] = x
    BY <1>1, <1>3, <2>2, <2>3
  <2> QED
    BY <1>1, <2>1, <2>3, <2>4 DEF Lacks, Begins
<1> QED
  BY <1>2, <1>3

\* There is only one such way to split.
LEMMA SplitsAt ==
  ASSUME NEW s \in URL, NEW t \in URL, NEW x, Lacks(s, x), Begins(t, x)
  PROVE  Upto(s \o t, x) = s /\ Onward(s \o t, x) = t
<1> DEFINE u == s \o t
<1>1. /\ u \in URL /\ Len(u) = Len(s) + Len(t) /\ Len(s) \in Nat /\ Len(t) \in Nat
      /\ \A i \in 1..Len(s) : u[i] = s[i]
      /\ \A i \in 1..Len(t) : u[Len(s) + i] = t[i]
      /\ Before(u, Len(s) + 1) = s /\ From(u, Len(s) + 1) = t
  BY Joins, Lengths, CutsJoined
<1>2. CASE t = <<>>
  <2>1. u = s
    BY <1>2, Empties
  <2>2. Index(s, x) = 0
    BY IndexFinds DEF Lacks
  <2> QED
    BY <1>2, <2>1, <2>2 DEF Upto, Onward
<1> HIDE DEF u
<1>3. CASE t # <<>>
  <2>1. t[1] = x /\ 1 \in 1..Len(t)
    BY <1>1, <1>3, Lengths DEF Begins
  <2> DEFINE k == Len(s) + 1
  <2>2. k \in 1..Len(u) /\ u[k] = x
    BY <1>1, <2>1
  <2>3. \A i \in 1..k - 1 : u[i] # x
    BY <1>1 DEF Lacks
  <2>4. Index(u, x) = Len(s) + 1
    <3> HIDE DEF k
    <3>1. Index(u, x) = k
      BY <1>1, <2>2, <2>3, IndexIs
    <3> QED
      BY <3>1 DEF k
  <2>5. Index(u, x) # 0
    BY <1>1, <2>4
  <2>6. Upto(u, x) = s /\ Onward(u, x) = t
    BY <1>1, <2>4, <2>5 DEF Upto, Onward
  <2> QED
    BY <2>6 DEF u
<1> QED
  BY <1>2, <1>3
-----------------------------------------------------------------------------
(* url.Parse, by its parts *)

Parsed(ok, scheme, opaque, host, path, query) ==
  [ok |-> ok, scheme |-> scheme, opaque |-> opaque, host |-> host,
   path |-> path, query |-> query]

\* Body b begins with a scheme and separator x.
Scheme(b, x) == Len(b) > 1 /\ b[1] \in Names /\ b[2] = x

\* What Parse makes of scheme s, separator sep, the rest r of the body and query q.
Read(s, sep, r, q) ==
  IF sep = "://"
    THEN Parsed(ValidHost(Upto(r, "/")), <<s>>, <<>>, Upto(r, "/"), Onward(r, "/"), q)
  ELSE IF Index(r, "/") = 1 THEN Parsed(TRUE, <<s>>, <<>>, <<>>, r, q)
  ELSE Parsed(TRUE, <<s>>, r, <<>>, <<>>, q)

LEMMA ParseReads ==
  ASSUME NEW u \in URL
  PROVE  LET b == Upto(u, "?") IN
         /\ \A x \in {":", "://"} :
              Scheme(b, x) => Parse(u) = Read(b[1], x, From(b, 3), Onward(u, "?"))
         /\ ~Scheme(b, ":") /\ ~Scheme(b, "://") =>
              /\ Parse(u).scheme = <<>>
              /\ Parse(u).ok <=> Lacks(Upto(b, "/"), ":") /\ Lacks(Upto(b, "/"), "://")
         /\ Parse(u).query = Onward(u, "?")
<1> DEFINE b == Upto(u, "?")
           r == From(b, 3)
           q == Onward(u, "?")
           slash == Index(r, "/")
           segment == IF Index(b, "/") = 0 THEN b ELSE Before(b, Index(b, "/"))
           parts == [ok |-> TRUE, scheme |-> <<>>, opaque |-> <<>>, host |-> <<>>,
                     path |-> <<>>, query |-> q]
           h == IF slash = 0 THEN r ELSE Before(r, slash)
           p == IF slash = 0 THEN <<>> ELSE From(r, slash)
<1>1. Parse(u) =
        CASE Scheme(b, "://") ->
               [parts EXCEPT !.ok = ValidHost(h), !.scheme = <<b[1]>>, !.host = h, !.path = p]
          [] Scheme(b, ":") /\ slash = 1 -> [parts EXCEPT !.scheme = <<b[1]>>, !.path = r]
          [] Scheme(b, ":") /\ slash # 1 -> [parts EXCEPT !.scheme = <<b[1]>>, !.opaque = r]
          [] OTHER -> [parts EXCEPT !.ok = {":", "://"} \intersect ToSet(segment) = {},
                                    !.path = b]
  BY DEF Parse, Scheme, Upto, Onward
<1>2. h = Upto(r, "/") /\ p = Onward(r, "/") /\ segment = Upto(b, "/")
  BY DEF Upto, Onward
<1>3. ~(Scheme(b, "://") /\ Scheme(b, ":"))
  BY DEF Scheme
<1> HIDE DEF b, r, q, slash, segment, h, p
<1>4. ASSUME Scheme(b, "://")
      PROVE  Parse(u) = Read(b[1], "://", r, q)
  <2>1. Parse(u) = [parts EXCEPT !.ok = ValidHost(h), !.scheme = <<b[1]>>, !.host = h, !.path = p]
    BY <1>1, <1>3, <1>4
  <2> QED
    BY <1>2, <2>1 DEF Read, Parsed
<1>5. ASSUME Scheme(b, ":")
      PROVE  Parse(u) = Read(b[1], ":", r, q)
  <2>1. CASE slash = 1
    <3>1. Parse(u) = [parts EXCEPT !.scheme = <<b[1]>>, !.path = r]
      BY <1>1, <1>3, <1>5, <2>1
    <3> QED
      BY <2>1, <3>1 DEF Read, Parsed, slash
  <2>2. CASE slash # 1
    <3>1. Parse(u) = [parts EXCEPT !.scheme = <<b[1]>>, !.opaque = r]
      BY <1>1, <1>3, <1>5, <2>2
    <3> QED
      BY <2>2, <3>1 DEF Read, Parsed, slash
  <2> QED
    BY <2>1, <2>2
<1>6. ASSUME ~Scheme(b, ":"), ~Scheme(b, "://")
      PROVE  /\ Parse(u).scheme = <<>>
             /\ Parse(u).ok <=> Lacks(Upto(b, "/"), ":") /\ Lacks(Upto(b, "/"), "://")
  <2>1. Parse(u).scheme = <<>> /\ Parse(u).ok = ({":", "://"} \intersect ToSet(segment) = {})
    BY <1>1, <1>6
  <2>2. segment \in URL
    BY <1>2, Splits DEF b
  <2>3. {":", "://"} \intersect ToSet(segment) = {}
          <=> Lacks(segment, ":") /\ Lacks(segment, "://")
    <3>1. ToSet(segment) = {segment[i] : i \in 1..Len(segment)}
      BY <2>2, Lengths DEF ToSet
    <3> QED
      BY <3>1 DEF Lacks
  <2> QED
    BY <1>2, <2>1, <2>3
<1>7. Parse(u).query = q
  <2>1. CASE Scheme(b, "://")
    BY <1>4, <2>1 DEF Read, Parsed
  <2>2. CASE Scheme(b, ":")
    BY <1>5, <2>2 DEF Read, Parsed
  <2>3. CASE ~Scheme(b, ":") /\ ~Scheme(b, "://")
    BY <1>1, <2>3
  <2> QED
    BY <2>1, <2>2, <2>3
<1> QED
  BY <1>4, <1>5, <1>6, <1>7 DEF b, r, q

\* A URL with a scheme: s, the separator, the rest of the body and the query.
WithScheme(s, sep, r, q) == <<s, sep>> \o (r \o q)

\* The parts that make up a URL with a scheme.
SchemeParts(s, sep, r, q) ==
  /\ s \in Names /\ sep \in {":", "://"} /\ r \in URL /\ q \in URL
  /\ Lacks(r, "?") /\ Begins(q, "?")

LEMMA NamesAreTokens ==
  /\ Names \subseteq Token /\ {":", "://", "[", "]", "/", "?", "host"} \subseteq Token
  /\ Numbers \subseteq Token
  /\ Names \intersect {":", "://", "[", "]", "/", "?"} = {}
BY DEF Names, Numbers, Words, Token

LEMMA ParseWithScheme ==
  ASSUME NEW s, NEW sep, NEW r, NEW q, SchemeParts(s, sep, r, q)
  PROVE  /\ WithScheme(s, sep, r, q) \in URL
         /\ Parse(WithScheme(s, sep, r, q)) = Read(s, sep, r, q)
<1> DEFINE h == <<s, sep>>
           b == h \o r
           u == b \o q
<1>1. /\ s \in Token /\ sep \in Token /\ s \in Names /\ r \in URL /\ q \in URL
      /\ s # "?" /\ sep # "?" /\ sep \in {":", "://"} /\ Lacks(r, "?") /\ Begins(q, "?")
  BY NamesAreTokens DEF SchemeParts
<1>2. h \in URL /\ Len(h) = 2 /\ h[1] = s /\ h[2] = sep
  BY <1>1, Tokens
<1> HIDE DEF h
<1>3. /\ b \in URL /\ Len(b) = 2 + Len(r) /\ Len(r) \in Nat
      /\ \A i \in 1..2 : b[i] = h[i]
      /\ \A i \in 1..Len(r) : b[2 + i] = r[i]
      /\ From(b, 3) = r
  <2>1. /\ b \in URL /\ Len(b) = Len(h) + Len(r) /\ Len(r) \in Nat
        /\ \A i \in 1..Len(h) : b[i] = h[i]
        /\ \A i \in 1..Len(r) : b[Len(h) + i] = r[i]
        /\ From(b, Len(h) + 1) = r
    BY <1>1, <1>2, Joins, Lengths, CutsJoined
  <2> QED
    BY <1>2, <2>1
<1>4. WithScheme(s, sep, r, q) = u
  BY <1>1, <1>2, Associates DEF WithScheme, h
<1> HIDE DEF b
<1>5. Lacks(b, "?")
  <2> SUFFICES ASSUME NEW i \in 1..Len(b) PROVE b[i] # "?"
    BY DEF Lacks
  <2>1. CASE i \in 1..2
    BY <1>1, <1>2, <1>3, <2>1
  <2>2. CASE i \notin 1..2
    <3>1. i - 2 \in 1..Len(r) /\ 2 + (i - 2) = i
      BY <1>3, <2>2
    <3> QED
      BY <1>1, <1>3, <3>1 DEF Lacks
  <2> QED
    BY <2>1, <2>2
<1>6. Upto(u, "?") = b /\ Onward(u, "?") = q
  BY <1>1, <1>3, <1>5, SplitsAt
<1>7. u \in URL
  BY <1>1, <1>3, Joins
<1>8. Scheme(b, sep) /\ b[1] = s
  BY <1>1, <1>2, <1>3 DEF Scheme
<1> HIDE DEF u
<1>9. Parse(u) = Read(s, sep, r, q)
  BY <1>1, <1>3, <1>6, <1>7, <1>8, ParseReads
<1> QED
  BY <1>4, <1>7, <1>9

LEMMA SchemeForm ==
  ASSUME NEW u \in URL, Parse(u).scheme # <<>>
  PROVE  \E s, sep, r, q : SchemeParts(s, sep, r, q) /\ u = WithScheme(s, sep, r, q)
<1> DEFINE b == Upto(u, "?")
           q == Onward(u, "?")
<1>1. /\ b \in URL /\ q \in URL /\ b \o q = u /\ Lacks(b, "?") /\ Begins(q, "?")
      /\ Len(b) \in Nat
  BY Splits, Lengths
<1>2. PICK sep \in {":", "://"} : Scheme(b, sep)
  BY ParseReads
<1> HIDE DEF b, q
<1>3. Len(b) > 1 /\ b[1] \in Names /\ b[2] = sep
  BY <1>2 DEF Scheme
<1> DEFINE h == Before(b, 3)
           r == From(b, 3)
<1>4. /\ h \in URL /\ Len(h) = 2 /\ h[1] = b[1] /\ h[2] = b[2]
      /\ r \in URL /\ Len(r) = Len(b) - 2
      /\ \A k \in 1..Len(r) : r[k] = b[k + 2]
      /\ h \o r = b
  <2>1. 3 \in 1..Len(b) + 1
    BY <1>1, <1>3
  <2>2. /\ h \in URL /\ Len(h) = 3 - 1
        /\ \A k \in 1..3 - 1 : h[k] = b[k]
        /\ r \in URL /\ Len(r) = Len(b) + 1 - 3
        /\ \A k \in 1..Len(b) + 1 - 3 : r[k] = b[3 + k - 1]
        /\ h \o r = b
    BY <1>1, <2>1, Cuts, JoinsCut
  <2> HIDE DEF h, r
  <2>3. \A k \in 1..Len(r) : k \in 1..Len(b) + 1 - 3 /\ 3 + k - 1 = k + 2
    BY <1>1, <2>2
  <2>4. \A k \in 1..Len(r) : r[k] = b[k + 2]
    BY <2>2, <2>3
  <2> QED
    BY <1>1, <2>2, <2>4
<1> HIDE DEF h, r
<1>5. h = <<b[1], sep>>
  <2>1. b[1] \in Token /\ sep \in Token
    BY <1>2, <1>3, NamesAreTokens
  <2>2. /\ <<b[1], sep>> \in URL /\ Len(<<b[1], sep>>) = 2
        /\ <<b[1], sep>>[1] = b[1] /\ <<b[1], sep>>[2] = sep
    BY <2>1, Tokens
  <2> DEFINE g == <<b[1], sep>>
  <2> HIDE DEF g
  <2>3. g \in URL /\ Len(g) = 2 /\ g[1] = b[1] /\ g[2] = sep
    BY <2>2 DEF g
  <2>4. \A i \in 1..2 : h[i] = g[i]
    BY <1>3, <1>4, <2>3
  <2>5. h = g
    BY <1>4, <2>3, <2>4, Same
  <2> QED
    BY <2>5 DEF g
<1>6. Lacks(r, "?")
  <2>1. \A k \in 1..Len(r) : k + 2 \in 1..Len(b)
    BY <1>1, <1>4
  <2> QED
    BY <1>1, <1>4, <2>1 DEF Lacks
<1>7. u = WithScheme(b[1], sep, r, q)
  <2>1. (h \o r) \o q = h \o (r \o q)
    <3>1. h \in URL /\ r \in URL /\ q \in URL
      BY <1>1, <1>4
    <3> QED
      BY <3>1, Associates
  <2> QED
    BY <1>1, <1>4, <1>5, <2>1 DEF WithScheme
<1>8. SchemeParts(b[1], sep, r, q)
  BY <1>1, <1>2, <1>3, <1>4, <1>6 DEF SchemeParts
<1> QED
  BY <1>7, <1>8
-----------------------------------------------------------------------------
(* Reading what was written *)

LEMMA LacksParts ==
  ASSUME NEW s \in URL, NEW t \in URL, NEW x, Lacks(s \o t, x)
  PROVE  Lacks(s, x) /\ Lacks(t, x)
<1>1. /\ Len(s) \in Nat /\ Len(t) \in Nat /\ Len(s \o t) = Len(s) + Len(t)
      /\ \A i \in 1..Len(s) : (s \o t)[i] = s[i]
      /\ \A i \in 1..Len(t) : (s \o t)[Len(s) + i] = t[i]
  BY Joins, Lengths
<1>2. \A i \in 1..Len(s) : i \in 1..Len(s \o t)
  BY <1>1
<1>3. \A i \in 1..Len(t) : Len(s) + i \in 1..Len(s \o t)
  BY <1>1
<1>4. Lacks(s, x)
  BY <1>1, <1>2 DEF Lacks
<1>5. Lacks(t, x)
  BY <1>1, <1>3 DEF Lacks
<1> QED
  BY <1>4, <1>5

LEMMA Whole ==
  ASSUME NEW u \in URL, NEW x, Lacks(u, x)
  PROVE  Index(u, x) = 0 /\ Upto(u, x) = u /\ Onward(u, x) = <<>>
<1>1. Index(u, x) = 0
  BY IndexFinds DEF Lacks
<1> QED
  BY <1>1 DEF Upto, Onward

LEMMA NothingLacks ==
  ASSUME NEW x
  PROVE  Lacks(<<>>, x)
BY Tokens DEF Lacks

\* URL.String of a URL without a path.
LEMMA StringIs ==
  ASSUME NEW s \in Names, NEW o \in URL, NEW h \in URL, NEW q \in URL, NEW ok
  PROVE  /\ h # <<>> /\ o = <<>> =>
              String(Parsed(ok, <<s>>, o, h, <<>>, q)) = WithScheme(s, "://", h, q)
         /\ h = <<>> =>
              String(Parsed(ok, <<s>>, o, h, <<>>, q)) = WithScheme(s, ":", o, q)
<1> DEFINE p == Parsed(ok, <<s>>, o, h, <<>>, q)
<1>1. /\ p.scheme = <<s>> /\ p.opaque = o /\ p.host = h /\ p.path = <<>> /\ p.query = q
  BY DEF Parsed
<1>2. s \in Token /\ ":" \in Token /\ "://" \in Token /\ <<>> \in URL
  BY NamesAreTokens, Tokens
<1> HIDE DEF p
<1>3. ASSUME NEW x \in {":", "://"}
      PROVE  <<s>> \o <<x>> = <<s, x>> /\ <<s, x>> \in URL
  <2>1. x \in Token
    BY <1>2
  <2>2. <<s, x>> \in URL
    BY <1>2, <2>1, Tokens
  <2>3. <<s>> \o <<x>> = <<s, x>>
    BY <1>2, <2>1, Pairs
  <2> QED
    BY <2>2, <2>3
<1>4. CASE h # <<>> /\ o = <<>>
  <2> DEFINE t == <<s, "://">>
  <2>1. String(p) = ((((<<s>> \o <<"://">>) \o o) \o h) \o <<>>) \o q
    BY <1>1, <1>4 DEF String
  <2>2. <<s>> \o <<"://">> = t /\ t \in URL
    BY <1>3
  <2> HIDE DEF t
  <2>3. t \o o = t /\ t \o h \in URL
    BY <1>4, <2>2, Empties, Joins
  <2>4. (t \o h) \o <<>> = t \o h
    BY <2>3, Empties
  <2>5. String(p) = (t \o h) \o q
    BY <2>1, <2>2, <2>3, <2>4
  <2>6. String(p) = t \o (h \o q)
    BY <2>2, <2>5, Associates
  <2> QED
    BY <1>4, <2>6 DEF WithScheme, t, p
<1>5. CASE h = <<>>
  <2> DEFINE t == <<s, ":">>
  <2>1. String(p) = ((((<<s>> \o <<":">>) \o o) \o h) \o <<>>) \o q
    BY <1>1, <1>5 DEF String
  <2>2. <<s>> \o <<":">> = t /\ t \in URL
    BY <1>3
  <2> HIDE DEF t
  <2>3. t \o o \in URL
    BY <2>2, Joins
  <2>4. (t \o o) \o <<>> = t \o o
    BY <2>3, Empties
  <2>5. String(p) = (t \o o) \o q
    BY <1>5, <2>1, <2>2, <2>4
  <2>6. String(p) = t \o (o \o q)
    BY <2>2, <2>5, Associates
  <2> QED
    BY <1>5, <2>6 DEF WithScheme, t, p
<1> QED
  BY <1>4, <1>5 DEF p

LEMMA StrippedIs ==
  ASSUME NEW ok, NEW s, NEW o, NEW h, NEW p, NEW q
  PROVE  Stripped(Parsed(ok, s, o, h, p, q)) = Parsed(ok, s, o, h, <<>>, q)
BY DEF Stripped, Parsed

LEMMA EmptyHostIsValid == ValidHost(<<>>) = TRUE
<1>1. Index(<<>>, ":") = 0
  BY Tokens, NothingLacks, Whole
<1> QED
  BY <1>1 DEF ValidHost

\* A URL with its path stripped reads as it did, but for the path.
LEMMA Reparse ==
  ASSUME NEW u \in URL, Parse(u).ok, Parse(u).scheme # <<>>
  PROVE  /\ String(Stripped(Parse(u))) \in URL
         /\ Parse(String(Stripped(Parse(u)))) = Stripped(Parse(u))
<1>1. PICK s, sep, r, q : SchemeParts(s, sep, r, q) /\ u = WithScheme(s, sep, r, q)
  BY SchemeForm
<1>2. /\ s \in Names /\ sep \in {":", "://"} /\ r \in URL /\ q \in URL
      /\ Lacks(r, "?") /\ Begins(q, "?") /\ <<>> \in URL
  BY <1>1, Tokens DEF SchemeParts
<1>3. Parse(u) = Read(s, sep, r, q)
  BY <1>1, ParseWithScheme
<1>4. /\ WithScheme(s, ":", <<>>, q) \in URL
      /\ Parse(WithScheme(s, ":", <<>>, q)) = Parsed(TRUE, <<s>>, <<>>, <<>>, <<>>, q)
  <2>1. SchemeParts(s, ":", <<>>, q)
    BY <1>2, NothingLacks DEF SchemeParts
  <2>2. Index(<<>>, "/") = 0
    BY <1>2, NothingLacks, Whole
  <2>3. Read(s, ":", <<>>, q) = Parsed(TRUE, <<s>>, <<>>, <<>>, <<>>, q)
    BY <2>2 DEF Read
  <2> QED
    BY <2>1, <2>3, ParseWithScheme
<1>5. CASE sep = "://"
  <2> DEFINE h == Upto(r, "/")
             p == Onward(r, "/")
  <2>1. h \in URL /\ p \in URL /\ h \o p = r /\ Lacks(h, "/")
    BY <1>2, Splits
  <2>2. Parse(u) = Parsed(ValidHost(h), <<s>>, <<>>, h, p, q)
    BY <1>3, <1>5 DEF Read
  <2> HIDE DEF h, p
  <2>3. Stripped(Parse(u)) = Parsed(ValidHost(h), <<s>>, <<>>, h, <<>>, q)
    BY <2>2, StrippedIs
  <2>4. CASE h # <<>>
    <3>1. String(Stripped(Parse(u))) = WithScheme(s, "://", h, q)
      BY <1>2, <2>1, <2>3, <2>4, StringIs
    <3>2. Lacks(h, "?")
      BY <1>2, <2>1, LacksParts
    <3>3. SchemeParts(s, "://", h, q)
      BY <1>2, <2>1, <3>2 DEF SchemeParts
    <3>4. Upto(h, "/") = h /\ Onward(h, "/") = <<>>
      BY <2>1, Whole
    <3>5. Read(s, "://", h, q) = Parsed(ValidHost(h), <<s>>, <<>>, h, <<>>, q)
      BY <3>4 DEF Read
    <3> QED
      BY <2>3, <3>1, <3>3, <3>5, ParseWithScheme
  <2>5. CASE h = <<>>
    <3>1. String(Stripped(Parse(u))) = WithScheme(s, ":", <<>>, q)
      BY <1>2, <2>3, <2>5, StringIs
    <3>2. Stripped(Parse(u)) = Parsed(TRUE, <<s>>, <<>>, <<>>, <<>>, q)
      BY <2>3, <2>5, EmptyHostIsValid
    <3> QED
      BY <1>4, <3>1, <3>2
  <2> QED
    BY <2>4, <2>5
<1>6. CASE sep = ":" /\ Index(r, "/") = 1
  <2>1. Parse(u) = Parsed(TRUE, <<s>>, <<>>, <<>>, r, q)
    BY <1>3, <1>6 DEF Read
  <2>2. Stripped(Parse(u)) = Parsed(TRUE, <<s>>, <<>>, <<>>, <<>>, q)
    BY <2>1, StrippedIs
  <2>3. String(Stripped(Parse(u))) = WithScheme(s, ":", <<>>, q)
    <3> DEFINE ok == TRUE
    <3>1. Stripped(Parse(u)) = Parsed(ok, <<s>>, <<>>, <<>>, <<>>, q)
      BY <2>2
    <3> HIDE DEF ok
    <3> QED
      BY <1>2, <3>1, StringIs
  <2> QED
    BY <1>4, <2>2, <2>3
<1>7. CASE sep = ":" /\ Index(r, "/") # 1
  <2>1. Parse(u) = Parsed(TRUE, <<s>>, r, <<>>, <<>>, q)
    BY <1>3, <1>7 DEF Read
  <2>2. Stripped(Parse(u)) = Parsed(TRUE, <<s>>, r, <<>>, <<>>, q)
    BY <2>1, StrippedIs
  <2>3. String(Stripped(Parse(u))) = u
    <3> DEFINE ok == TRUE
    <3>1. Stripped(Parse(u)) = Parsed(ok, <<s>>, r, <<>>, <<>>, q)
      BY <2>2
    <3> HIDE DEF ok
    <3> QED
      BY <1>1, <1>2, <1>7, <3>1, StringIs
  <2> QED
    BY <2>1, <2>2, <2>3
<1> QED
  BY <1>2, <1>5, <1>6, <1>7
-----------------------------------------------------------------------------
(* NormalizeHTTPURL *)

LEMMA LacksJoined ==
  ASSUME NEW s \in URL, NEW t \in URL, NEW x, Lacks(s, x), Lacks(t, x)
  PROVE  Lacks(s \o t, x)
<1>1. /\ Len(s) \in Nat /\ Len(t) \in Nat /\ Len(s \o t) = Len(s) + Len(t)
      /\ \A i \in 1..Len(s) : (s \o t)[i] = s[i]
      /\ \A i \in 1..Len(t) : (s \o t)[Len(s) + i] = t[i]
  BY Joins, Lengths
<1> SUFFICES ASSUME NEW k \in 1..Len(s \o t)
             PROVE  (s \o t)[k] # x
  BY DEF Lacks
<1>2. CASE k <= Len(s)
  BY <1>1, <1>2 DEF Lacks
<1>3. CASE k > Len(s)
  <2>1. k - Len(s) \in 1..Len(t) /\ Len(s) + (k - Len(s)) = k
    BY <1>1, <1>3
  <2> QED
    BY <1>1, <2>1 DEF Lacks
<1> QED
  BY <1>1, <1>2, <1>3

\* What lacks x at the beginning of a URL belongs to the part before the first x.
LEMMA SplitsAfter ==
  ASSUME NEW s \in URL, NEW t \in URL, NEW x, Lacks(s, x)
  PROVE  Upto(s \o t, x) = s \o Upto(t, x) /\ Onward(s \o t, x) = Onward(t, x)
<1> DEFINE a == Upto(t, x)
           b == Onward(t, x)
<1>1. a \in URL /\ b \in URL /\ a \o b = t /\ Lacks(a, x) /\ Begins(b, x)
  BY Splits
<1> HIDE DEF a, b
<1>2. s \o t = (s \o a) \o b /\ s \o a \in URL /\ Lacks(s \o a, x)
  <2>1. (s \o a) \o b = s \o (a \o b)
    <3>1. Regroup(s, a, b)
      BY <1>1, Regroups
    <3> QED
      BY <3>1 DEF Regroup
  <2>2. s \o a \in URL /\ Lacks(s \o a, x)
    BY <1>1, Joins, LacksJoined
  <2> QED
    BY <1>1, <2>1, <2>2
<1> DEFINE c == s \o a
<1> HIDE DEF c
<1>3. Upto(c \o b, x) = c /\ Onward(c \o b, x) = b
  BY <1>1, <1>2, SplitsAt DEF c
<1> QED
  BY <1>2, <1>3 DEF a, b, c

LEMMA Slice ==
  ASSUME NEW u \in URL, NEW i \in 1..Len(u) + 1, NEW j \in i - 1..Len(u)
  PROVE  /\ SubSeq(u, i, j) \in URL /\ Len(SubSeq(u, i, j)) = j - i + 1
         /\ \A k \in 1..j - i + 1 : SubSeq(u, i, j)[k] = u[i + k - 1]
<1>1. Len(u) \in Nat /\ \A k \in 1..Len(u) : u[k] \in Token
  BY Lengths
<1>2. \A k \in i..j : u[k] \in Token
  BY <1>1
<1>3. /\ SubSeq(u, i, j) \in Seq(Token)
      /\ Len(SubSeq(u, i, j)) = IF i <= j THEN j - i + 1 ELSE 0
      /\ \A k \in 1..j - i + 1 : SubSeq(u, i, j)[k] = u[i + k - 1]
  BY <1>1, <1>2, SubSeqProperties
<1> QED
  BY <1>1, <1>3 DEF URL

\* What stands between p and x.
Between(p, h, x) ==
  /\ SubSeq(p \o (h \o x), Len(p) + 1, Len(p) + Len(h)) = h
  /\ SubSeq(p \o (h \o x), 1, Len(p)) = p
  /\ From(p \o (h \o x), Len(p) + Len(h) + 1) = x

LEMMA Middle ==
  ASSUME NEW p \in URL, NEW h \in URL, NEW x \in URL
  PROVE  Between(p, h, x)
<1> DEFINE y == h \o x
           u == p \o y
           i == Len(p) + 1
           j == Len(p) + Len(h)
<1>1. /\ y \in URL /\ Len(y) = Len(h) + Len(x)
      /\ \A k \in 1..Len(h) : y[k] = h[k]
      /\ Len(p) \in Nat /\ Len(h) \in Nat /\ Len(x) \in Nat
  BY Joins, Lengths
<1>2. (p \o h) \o x = u
  BY Associates
<1> HIDE DEF y
<1>3. /\ u \in URL /\ Len(u) = Len(p) + Len(y)
      /\ \A k \in 1..Len(y) : u[Len(p) + k] = y[k]
      /\ Before(u, Len(p) + 1) = p
  BY <1>1, Joins, CutsJoined
<1> HIDE DEF u
<1>4. i \in 1..Len(u) + 1 /\ j \in i - 1..Len(u) /\ j - i + 1 = Len(h)
  BY <1>1, <1>3
<1>5. \A k \in 1..Len(h) : i + k - 1 = Len(p) + k /\ k \in 1..Len(y)
  BY <1>1
<1> HIDE DEF i, j
<1>6. /\ SubSeq(u, i, j) \in URL /\ Len(SubSeq(u, i, j)) = j - i + 1
      /\ \A k \in 1..j - i + 1 : SubSeq(u, i, j)[k] = u[i + k - 1]
  BY <1>3, <1>4, Slice
<1>7. SubSeq(u, i, j) = h
  <2>1. \A k \in 1..Len(h) : SubSeq(u, i, j)[k] = h[k]
    BY <1>1, <1>3, <1>4, <1>5, <1>6
  <2> QED
    BY <1>4, <1>6, <2>1, Same
<1>8. SubSeq(u, 1, Len(p)) = p
  <2>1. Len(p) + 1 - 1 = Len(p)
    BY <1>1
  <2> QED
    BY <1>3, <2>1 DEF Before
<1>9. From(u, Len(p) + Len(h) + 1) = x
  <2> DEFINE g == p \o h
  <2>1. g \in URL /\ Len(g) = Len(p) + Len(h)
    BY Joins
  <2>2. g \o x = u
    BY <1>2
  <2> HIDE DEF g
  <2>3. From(g \o x, Len(g) + 1) = x
    BY <2>1, CutsJoined
  <2> QED
    BY <2>1, <2>2, <2>3
<1> QED
  BY <1>7, <1>8, <1>9 DEF Between, u, y, i, j

LEMMA LiteralTokens ==
  ASSUME NEW h \in URL, IsLiteral(h)
  PROVE  /\ \A i \in 1..Len(h) : h[i] = ":" \/ h[i] \in Groups
         /\ \E i \in 1..Len(h) : h[i] = ":"
<1> DEFINE colons == {i \in DOMAIN h : h[i] = ":"}
           ellipses == {i \in colons : i + 1 \in colons}
           groups == DOMAIN h \ colons
<1>1. Len(h) \in Nat /\ DOMAIN h = 1..Len(h)
  BY Lengths
<1>2. /\ \A i \in groups : h[i] \in Groups /\ i + 1 \notin groups
      /\ \/ ellipses = {} /\ Cardinality(groups) = 8
         \/ Cardinality(ellipses) = 1 /\ Cardinality(groups) < 8
  BY DEF IsLiteral
<1>3. \A i \in 1..Len(h) : h[i] = ":" \/ h[i] \in Groups
  BY <1>1, <1>2
<1>4. ASSUME colons = {}
      PROVE  FALSE
  <2>1. ellipses = {} /\ groups = 1..Len(h)
    BY <1>1, <1>4
  <2>2. Cardinality(ellipses) = 0
    BY <2>1, FS_EmptySet
  <2>3. Cardinality(1..Len(h)) = Len(h)
    <3>1. Cardinality(1..Len(h)) = IF 1 > Len(h) THEN 0 ELSE Len(h) - 1 + 1
      <4>1. 1 \in Int /\ Len(h) \in Int
        BY <1>1
      <4> QED
        BY <4>1, FS_Interval
    <3> QED
      BY <1>1, <3>1
  <2> HIDE DEF colons, ellipses, groups
  <2>4. Len(h) = 8
    BY <1>2, <2>1, <2>2, <2>3
  <2>5. 1 \in groups /\ 1 + 1 \in groups
    BY <2>1, <2>4
  <2> QED
    BY <1>2, <2>5
<1> QED
  BY <1>1, <1>3, <1>4

\* What NormalizeHTTPURL works with: all up to the first "://", the host, the port
\* and the path.
Pieces(u, p, h, n, t) ==
  /\ p \in URL /\ h \in URL /\ n \in URL /\ t \in URL
  /\ p # <<>> /\ p[Len(p)] = "://" /\ \A i \in 1..Len(p) - 1 : p[i] # "://"
  /\ u = p \o (h \o (<<":">> \o (n \o t)))
Joined(p, h, n, t) == p \o JoinHostPort(h, n) \o t
Bracketed(p, h, n, t) == p \o (<<"[">> \o (h \o (<<"]">> \o (<<":">> \o (n \o t)))))

LEMMA JoinsBrackets ==
  ASSUME NEW p \in URL, NEW h \in URL, NEW n \in URL, NEW t \in URL
  PROVE  Joined(p, h, n, t) = Bracketed(p, h, n, t)
<1> DEFINE a == <<"[">>
           b == <<"]">>
           c == <<":">>
           d == <<"]", ":">>
<1>1. /\ a \in URL /\ b \in URL /\ c \in URL /\ d \in URL
      /\ Len(b) = 1 /\ Len(c) = 1 /\ Len(d) = 2
      /\ b[1] = "]" /\ c[1] = ":" /\ d[1] = "]" /\ d[2] = ":"
  BY Tokens, NamesAreTokens
<1>2. Joined(p, h, n, t) = (p \o (((a \o h) \o d) \o n)) \o t
  BY DEF Joined, JoinHostPort
<1>3. Bracketed(p, h, n, t) = p \o (a \o (h \o (b \o (c \o (n \o t)))))
  BY DEF Bracketed
<1> HIDE DEF a, b, c, d
<1>4. d = b \o c
  BY Pairs, NamesAreTokens DEF b, c, d
<1> DEFINE g == n \o t
           f == c \o g
           ah == a \o h
           ahd == ah \o d
           x == ahd \o n
<1>5. g \in URL /\ f \in URL /\ ah \in URL /\ ahd \in URL /\ x \in URL
  <2>1. g \in URL /\ ah \in URL
    BY <1>1, Joins
  <2> HIDE DEF g, ah
  <2>2. f \in URL /\ ahd \in URL
    BY <1>1, <2>1, Joins
  <2> HIDE DEF ahd
  <2> QED
    BY <2>1, <2>2, Joins
<1> HIDE DEF g, f, ah, ahd, x
<1>6. b \o f \in URL
  BY <1>1, <1>5, Joins
<1> DEFINE e == b \o f
<1>7. e \in URL
  BY <1>6
<1> HIDE DEF e
<1>8. /\ Regroup(p, x, t) /\ Regroup(ahd, n, t) /\ Regroup(ah, d, g) /\ Regroup(b, c, g)
      /\ Regroup(a, h, e)
  BY <1>1, <1>5, <1>7, Regroups
<1>9. (p \o x) \o t = p \o (x \o t)
  BY <1>8 DEF Regroup
<1>10. x \o t = ahd \o g
  BY <1>8 DEF Regroup, x, g
<1>11. ahd \o g = ah \o (d \o g)
  BY <1>8 DEF Regroup, ahd
<1>12. d \o g = e
  BY <1>4, <1>8 DEF Regroup, e, f
<1>13. ah \o e = a \o (h \o e)
  BY <1>8 DEF Regroup, ah
<1>14. p \o (a \o (h \o e)) = Bracketed(p, h, n, t)
  BY <1>3 DEF e, f, g
<1>15. (p \o x) \o t = Joined(p, h, n, t)
  BY <1>2 DEF x, ahd, ah
<1> QED
  BY <1>9, <1>10, <1>11, <1>12, <1>13, <1>14, <1>15

LEMMA TakesOne ==
  ASSUME NEW u \in URL, NEW i \in 1..Len(u)
  PROVE  /\ From(u, i) = <<u[i]>> \o From(u, i + 1)
         /\ From(u, i + 1) \in URL
<1> DEFINE j == i + 1
           a == <<u[i]>>
           f == From(u, i)
           g == From(u, j)
<1>1. /\ Len(u) \in Nat /\ i \in 1..Len(u) + 1 /\ j \in 1..Len(u) + 1
      /\ u[i] \in Token
  BY Lengths
<1>2. a \in URL /\ Len(a) = 1 /\ a[1] = u[i]
  BY <1>1, Tokens
<1>3. \A k \in 1..Len(u) + 1 - i :
        k = 1 \/ (k - 1 \in 1..Len(u) + 1 - j /\ j + (k - 1) - 1 = i + k - 1)
  BY <1>1
<1>4. i + 1 - 1 = i /\ Len(u) + 1 - i = 1 + (Len(u) + 1 - j)
  BY <1>1
<1> HIDE DEF a, j
<1>5. /\ f \in URL /\ Len(f) = Len(u) + 1 - i
      /\ \A k \in 1..Len(u) + 1 - i : f[k] = u[i + k - 1]
  BY <1>1, Cuts
<1>6. /\ g \in URL /\ Len(g) = Len(u) + 1 - j
      /\ \A k \in 1..Len(u) + 1 - j : g[k] = u[j + k - 1]
  BY <1>1, Cuts
<1> HIDE DEF f, g
<1> DEFINE c == a \o g
<1>7. /\ c \in URL /\ Len(c) = Len(a) + Len(g)
      /\ \A k \in 1..Len(a) : c[k] = a[k]
      /\ \A k \in 1..Len(g) : c[Len(a) + k] = g[k]
  BY <1>2, <1>6, Joins
<1> HIDE DEF c
<1>8. Len(c) = Len(f)
  BY <1>1, <1>2, <1>4, <1>5, <1>6, <1>7
<1>9. ASSUME NEW k \in 1..Len(f)
      PROVE  f[k] = c[k]
  <2>1. f[k] = u[i + k - 1]
    BY <1>5
  <2>2. CASE k = 1
    BY <1>2, <1>4, <1>7, <2>1, <2>2
  <2>3. CASE k # 1
    <3>1. k - 1 \in 1..Len(g) /\ j + (k - 1) - 1 = i + k - 1
      BY <1>3, <1>5, <1>6, <2>3
    <3>2. g[k - 1] = u[i + k - 1]
      BY <1>6, <3>1
    <3>3. c[1 + (k - 1)] = g[k - 1]
      BY <1>2, <1>7, <3>1
    <3>4. 1 + (k - 1) = k
      OBVIOUS
    <3> QED
      BY <2>1, <3>2, <3>3, <3>4
  <2> QED
    BY <2>2, <2>3
<1>10. f = c
  BY <1>5, <1>7, <1>8, <1>9, Same
<1> QED
  BY <1>6, <1>10 DEF a, c, f, g, j

\* A URL that NormalizeHTTPURL changes is one that cannot be read, with an IPv6
\* address for a host, and gets brackets around that.
LEMMA NormalForm ==
  ASSUME NEW u \in URL, NormalizeHTTPURL(u) # u
  PROVE  /\ ~Parse(u).ok
         /\ \E p, h, n, t : /\ Pieces(u, p, h, n, t) /\ IsLiteral(h)
                            /\ NormalizeHTTPURL(u) = Bracketed(p, h, n, t)
<1> DEFINE sep == Index(u, "://")
           rest == From(u, sep + 1)
           hp == Upto(rest, "/")
           t == Onward(rest, "/")
           colon == LastIndex(hp, ":")
           h == Before(hp, colon)
           n == From(hp, colon + 1)
           p == Before(u, sep + 1)
<1>1. NormalizeHTTPURL(u) =
        IF \/ u = <<>> \/ Parse(u).ok \/ sep = 0
           \/ (hp # <<>> /\ hp[1] = "[")
           \/ colon = 0 \/ n = <<>> \/ ~HostNeedsBrackets(h)
          THEN u
          ELSE SubSeq(u, 1, sep) \o JoinHostPort(h, n) \o t
  BY DEF NormalizeHTTPURL, PortColon, Rewritten, Upto, Onward
<1>2. /\ Len(u) \in Nat /\ sep \in 0..Len(u)
      /\ sep # 0 => u[sep] = "://"
      /\ \A i \in 1..sep - 1 : u[i] # "://"
  BY IndexFinds, Lengths
<1> HIDE DEF sep, rest, hp, t, colon, h, n
<1>3. /\ ~Parse(u).ok /\ sep # 0 /\ colon # 0 /\ IsLiteral(h)
      /\ NormalizeHTTPURL(u) = SubSeq(u, 1, sep) \o JoinHostPort(h, n) \o t
  BY <1>1 DEF HostNeedsBrackets
<1>4. /\ p \in URL /\ Len(p) = sep /\ p = SubSeq(u, 1, sep)
      /\ \A k \in 1..sep : p[k] = u[k]
      /\ rest \in URL /\ p \o rest = u
  <2> DEFINE k == sep + 1
  <2>1. k \in 1..Len(u) + 1 /\ k - 1 = sep
    BY <1>2, <1>3
  <2> HIDE DEF k
  <2>2. /\ Before(u, k) \in URL /\ Len(Before(u, k)) = k - 1
        /\ \A i \in 1..k - 1 : Before(u, k)[i] = u[i]
        /\ From(u, k) \in URL /\ Before(u, k) \o From(u, k) = u
    BY <2>1, Cuts, JoinsCut
  <2>3. Before(u, k) = SubSeq(u, 1, sep)
    BY <2>1 DEF Before
  <2> QED
    BY <2>1, <2>2, <2>3 DEF k, rest
<1> HIDE DEF p
<1>5. p # <<>> /\ p[Len(p)] = "://" /\ \A i \in 1..Len(p) - 1 : p[i] # "://"
  <2>1. p # <<>>
    BY <1>3, <1>4, Lengths
  <2>2. p[sep] = "://" /\ \A i \in 1..sep - 1 : p[i] # "://"
    BY <1>2, <1>3, <1>4
  <2> QED
    BY <1>4, <2>1, <2>2
<1>6. hp \in URL /\ t \in URL /\ hp \o t = rest
  BY <1>4, Splits DEF hp, t
<1>7. colon \in 1..Len(hp) /\ hp[colon] = ":" /\ colon \in 1..Len(hp) + 1
  <2>1. colon \in 0..Len(hp) /\ hp[colon] = ":" /\ Len(hp) \in Nat
    BY <1>3, <1>6, LastIndexFinds, Lengths DEF colon
  <2> QED
    BY <1>3, <2>1
<1> DEFINE c == <<":">>
           f == From(hp, colon)
<1>8. /\ c \in URL /\ n \in URL /\ f = c \o n /\ h \in URL /\ f \in URL
      /\ h \o f = hp
  <2>1. c \in URL /\ c = <<hp[colon]>>
    BY <1>7, Tokens, NamesAreTokens
  <2>2. n \in URL /\ f = <<hp[colon]>> \o n
    BY <1>6, <1>7, TakesOne DEF n
  <2>3. h \in URL /\ f \in URL /\ h \o f = hp
    BY <1>6, <1>7, Cuts, JoinsCut DEF h
  <2> QED
    BY <2>1, <2>2, <2>3
<1> HIDE DEF c, f
<1>9. Regroup(h, f, t) /\ Regroup(c, n, t)
  BY <1>6, <1>8, Regroups
<1>10. u = p \o (h \o (c \o (n \o t)))
  <2>1. rest = h \o (f \o t)
    BY <1>6, <1>8, <1>9 DEF Regroup
  <2>2. f \o t = c \o (n \o t)
    BY <1>8, <1>9 DEF Regroup
  <2> QED
    BY <1>4, <2>1, <2>2
<1>11. Pieces(u, p, h, n, t)
  BY <1>4, <1>5, <1>6, <1>8, <1>10 DEF Pieces, c
<1>12. NormalizeHTTPURL(u) = Bracketed(p, h, n, t)
  <2>1. Joined(p, h, n, t) = Bracketed(p, h, n, t)
    <3>1. p \in URL /\ h \in URL /\ n \in URL /\ t \in URL
      BY <1>4, <1>6, <1>8
    <3> QED
      BY <3>1, JoinsBrackets
  <2>2. p = SubSeq(u, 1, sep)
    BY <1>4
  <2> QED
    BY <1>3, <2>1, <2>2 DEF Joined
<1> QED
  BY <1>3, <1>11, <1>12

LEMMA NormalizeKeepsURLs ==
  ASSUME NEW u \in URL
  PROVE  NormalizeHTTPURL(u) \in URL
<1>1. CASE NormalizeHTTPURL(u) = u
  BY <1>1
<1>2. CASE NormalizeHTTPURL(u) # u
  <2>1. PICK p, h, n, t : /\ Pieces(u, p, h, n, t)
                          /\ NormalizeHTTPURL(u) = Bracketed(p, h, n, t)
    BY <1>2, NormalForm
  <2>2. p \in URL /\ h \in URL /\ n \in URL /\ t \in URL
    BY <2>1 DEF Pieces
  <2> DEFINE a == <<"[">>
             b == <<"]">>
             c == <<":">>
             v == n \o t
             w == c \o v
             x == b \o w
             y == h \o x
             z == a \o y
  <2>3. a \in URL /\ b \in URL /\ c \in URL
    BY Tokens, NamesAreTokens
  <2> HIDE DEF a, b, c
  <2>4. v \in URL
    BY <2>2, Joins
  <2> HIDE DEF v
  <2>5. w \in URL
    BY <2>3, <2>4, Joins
  <2> HIDE DEF w
  <2>6. x \in URL
    BY <2>3, <2>5, Joins
  <2> HIDE DEF x
  <2>7. y \in URL
    BY <2>2, <2>6, Joins
  <2> HIDE DEF y
  <2>8. z \in URL
    BY <2>3, <2>7, Joins
  <2> HIDE DEF z
  <2>9. p \o z \in URL
    BY <2>2, <2>8, Joins
  <2>10. p \o z = Bracketed(p, h, n, t)
    BY DEF Bracketed, a, b, c, v, w, x, y, z
  <2> QED
    BY <2>1, <2>9, <2>10
<1> QED
  BY <1>1, <1>2

\* After "://" and a bracket nothing is changed.
LEMMA BracketsStay ==
  ASSUME NEW p \in URL, NEW y \in URL,
         p # <<>>, p[Len(p)] = "://", \A i \in 1..Len(p) - 1 : p[i] # "://"
  PROVE  NormalizeHTTPURL(p \o (<<"[">> \o y)) = p \o (<<"[">> \o y)
<1> DEFINE a == <<"[">>
           z == a \o y
           v == p \o z
           k == Len(p)
<1>1. a \in URL /\ Len(a) = 1 /\ a[1] = "["
  BY Tokens, NamesAreTokens
<1> HIDE DEF a
<1>2. /\ z \in URL /\ Len(z) = Len(a) + Len(y) /\ Len(y) \in Nat
      /\ \A i \in 1..Len(a) : z[i] = a[i]
  BY <1>1, Joins, Lengths
<1>3. 1 \in 1..Len(z) /\ z[1] = "["
  BY <1>1, <1>2
<1> HIDE DEF z
<1>4. /\ v \in URL /\ Len(v) = Len(p) + Len(z) /\ Len(z) \in Nat
      /\ \A i \in 1..Len(p) : v[i] = p[i]
      /\ From(v, Len(p) + 1) = z
  BY <1>2, Joins, CutsJoined, Lengths
<1> HIDE DEF v
<1>5. k \in Nat /\ k # 0
  BY Lengths
<1> HIDE DEF k
<1>6. k \in 1..Len(v) /\ v[k] = "://" /\ \A i \in 1..k - 1 : v[i] # "://"
  <2>1. k \in 1..Len(p) /\ k \in 1..Len(v) /\ \A i \in 1..k - 1 : i \in 1..Len(p)
    BY <1>4, <1>5 DEF k
  <2>2. p[k] = "://" /\ \A i \in 1..k - 1 : p[i] # "://"
    BY DEF k
  <2> QED
    BY <1>4, <2>1, <2>2
<1>7. Index(v, "://") = k
  BY <1>4, <1>6, IndexIs
<1>8. From(v, Index(v, "://") + 1) = z
  BY <1>4, <1>7 DEF k
<1> DEFINE hp == Upto(z, "/")
<1>9. hp # <<>> /\ hp[1] = "["
  <2> DEFINE s == Index(z, "/")
  <2>1. s \in 0..Len(z) /\ (s # 0 => z[s] = "/")
    BY <1>2, IndexFinds
  <2> HIDE DEF s
  <2>2. s # 1
    BY <1>3, <2>1
  <2>3. CASE s = 0
    <3>1. hp = z
      BY <2>3 DEF s, Upto
    <3>2. z # <<>>
      <4>1. Len(z) # 0
        BY <1>3, <1>4
      <4> QED
        BY <4>1, Tokens
    <3> QED
      BY <1>3, <3>1, <3>2
  <2>4. CASE s # 0
    <3>1. hp = Before(z, s)
      BY <2>4 DEF s, Upto
    <3>2. s \in 1..Len(z) + 1 /\ 1 \in 1..s - 1
      BY <1>4, <2>1, <2>2, <2>4
    <3> HIDE DEF hp
    <3>3. hp \in URL /\ Len(hp) = s - 1 /\ \A i \in 1..s - 1 : hp[i] = z[i]
      <4>1. z \in URL
        BY <1>2
      <4>2. /\ Before(z, s) \in URL /\ Len(Before(z, s)) = s - 1
            /\ \A i \in 1..s - 1 : Before(z, s)[i] = z[i]
        BY <3>2, <4>1, Cuts
      <4> QED
        BY <3>1, <4>2
    <3>4. hp[1] = "[" /\ Len(hp) # 0
      BY <1>3, <3>2, <3>3
    <3> QED
      BY <3>3, <3>4, Tokens
  <2> QED
    BY <2>3, <2>4
<1>10. NormalizeHTTPURL(v) = v
  BY <1>8, <1>9 DEF NormalizeHTTPURL, Upto
<1> QED
  BY <1>10 DEF v, z, a

LEMMA NormalizesOnce ==
  ASSUME NEW u \in URL
  PROVE  NormalizeHTTPURL(NormalizeHTTPURL(u)) = NormalizeHTTPURL(u)
<1>1. CASE NormalizeHTTPURL(u) = u
  BY <1>1
<1>2. CASE NormalizeHTTPURL(u) # u
  <2>1. PICK p, h, n, t : /\ Pieces(u, p, h, n, t)
                          /\ NormalizeHTTPURL(u) = Bracketed(p, h, n, t)
    BY <1>2, NormalForm
  <2>2. p \in URL /\ h \in URL /\ n \in URL /\ t \in URL
    BY <2>1 DEF Pieces
  <2>3. p # <<>> /\ p[Len(p)] = "://" /\ \A i \in 1..Len(p) - 1 : p[i] # "://"
    BY <2>1 DEF Pieces
  <2> DEFINE b == <<"]">>
             c == <<":">>
             v == n \o t
             w == c \o v
             x == b \o w
             y == h \o x
  <2>4. b \in URL /\ c \in URL
    BY Tokens, NamesAreTokens
  <2> HIDE DEF b, c
  <2>5. v \in URL
    BY <2>2, Joins
  <2> HIDE DEF v
  <2>6. w \in URL
    BY <2>4, <2>5, Joins
  <2> HIDE DEF w
  <2>7. x \in URL
    BY <2>4, <2>6, Joins
  <2> HIDE DEF x
  <2>8. y \in URL
    BY <2>2, <2>7, Joins
  <2> HIDE DEF y
  <2>9. NormalizeHTTPURL(p \o (<<"[">> \o y)) = p \o (<<"[">> \o y)
    BY <2>2, <2>3, <2>8, BracketsStay
  <2>10. p \o (<<"[">> \o y) = Bracketed(p, h, n, t)
    BY DEF Bracketed, b, c, v, w, x, y
  <2> QED
    BY <2>1, <2>9, <2>10
<1> QED
  BY <1>1, <1>2

LEMMA ReadableStays ==
  ASSUME NEW u, Parse(u).ok
  PROVE  NormalizeHTTPURL(u) = u
BY DEF NormalizeHTTPURL

\* What IgnitionEndpointURLForACI makes of a URL that can be read once normalized.
LEMMA StrippedReads ==
  ASSUME NEW u \in URL, Parse(NormalizeHTTPURL(u)).ok,
         Parse(NormalizeHTTPURL(u)).scheme # <<>>
  PROVE  /\ IgnitionEndpointURLForACI(u) \in URL
         /\ IgnitionEndpointURLForACI(u) = String(Stripped(Parse(NormalizeHTTPURL(u))))
         /\ Parse(IgnitionEndpointURLForACI(u)) = Stripped(Parse(NormalizeHTTPURL(u)))
<1> DEFINE v == NormalizeHTTPURL(u)
<1>1. v \in URL
  BY NormalizeKeepsURLs
<1>2. IgnitionEndpointURLForACI(u) = String(Stripped(Parse(v)))
  BY DEF IgnitionEndpointURLForACI
<1>3. Parse(v).ok /\ Parse(v).scheme # <<>>
  OBVIOUS
<1> HIDE DEF v
<1>4. String(Stripped(Parse(v))) \in URL /\ Parse(String(Stripped(Parse(v)))) = Stripped(Parse(v))
  BY <1>1, <1>3, Reparse
<1> QED
  BY <1>2, <1>4 DEF v

LEMMA StrippedKeeps ==
  ASSUME NEW u \in URL, Parse(u).scheme # <<>>
  PROVE  LET p == Parse(u)
             s == Stripped(p)
         IN /\ s.ok = p.ok /\ s.scheme = p.scheme /\ s.opaque = p.opaque
            /\ s.host = p.host /\ s.query = p.query /\ Stripped(s) = s
<1>1. PICK s, sep, r, q : SchemeParts(s, sep, r, q) /\ u = WithScheme(s, sep, r, q)
  BY SchemeForm
<1>2. Parse(u) = Read(s, sep, r, q)
  BY <1>1, ParseWithScheme
<1>3. \E ok, o, h, t : Parse(u) = Parsed(ok, <<s>>, o, h, t, q)
  <2> DEFINE yes == TRUE
  <2>1. \/ Read(s, sep, r, q) =
              Parsed(ValidHost(Upto(r, "/")), <<s>>, <<>>, Upto(r, "/"), Onward(r, "/"), q)
        \/ Read(s, sep, r, q) = Parsed(yes, <<s>>, <<>>, <<>>, r, q)
        \/ Read(s, sep, r, q) = Parsed(yes, <<s>>, r, <<>>, <<>>, q)
    BY DEF Read
  <2> HIDE DEF yes
  <2> QED
    BY <1>2, <2>1
<1>4. PICK ok, o, h, t : Parse(u) = Parsed(ok, <<s>>, o, h, t, q)
  BY <1>3
<1>5. Stripped(Parse(u)) = Parsed(ok, <<s>>, o, h, <<>>, q)
  BY <1>4, StrippedIs
<1>6. Stripped(Stripped(Parse(u))) = Stripped(Parse(u))
  BY <1>5, StrippedIs
<1> QED
  BY <1>4, <1>5, <1>6 DEF Parsed

LEMMA ReadableKept ==
  ASSUME NEW u \in URL, Parse(u).ok
  PROVE  LET after == Parse(IgnitionEndpointURLForACI(u))
             before == Parse(u)
         IN /\ after.ok /\ after.scheme = before.scheme /\ after.opaque = before.opaque
            /\ after.host = before.host /\ after.query = before.query
<1>1. NormalizeHTTPURL(u) = u
  BY ReadableStays
<1>2. CASE Parse(u).scheme = <<>>
  <2>1. IgnitionEndpointURLForACI(u) = u
    BY <1>1, <1>2 DEF IgnitionEndpointURLForACI
  <2> QED
    BY <2>1
<1>3. CASE Parse(u).scheme # <<>>
  <2>1. Parse(IgnitionEndpointURLForACI(u)) = Stripped(Parse(u))
    BY <1>1, <1>3, StrippedReads
  <2> QED
    BY <1>3, <2>1, StrippedKeeps
<1> QED
  BY <1>2, <1>3

LEMMA PreparedOnce ==
  ASSUME NEW u \in URL
  PROVE  IgnitionEndpointURLForACI(IgnitionEndpointURLForACI(u)) = IgnitionEndpointURLForACI(u)
<1> DEFINE v == NormalizeHTTPURL(u)
           w == IgnitionEndpointURLForACI(u)
<1>1. v \in URL /\ NormalizeHTTPURL(v) = v
  BY NormalizeKeepsURLs, NormalizesOnce
<1>2. CASE ~Parse(v).ok \/ Parse(v).scheme = <<>>
  <2>1. w = v
    BY <1>2 DEF IgnitionEndpointURLForACI
  <2> HIDE DEF v
  <2>2. IgnitionEndpointURLForACI(v) = v
    BY <1>1, <1>2 DEF IgnitionEndpointURLForACI
  <2> QED
    BY <2>1, <2>2
<1>3. CASE Parse(v).ok /\ Parse(v).scheme # <<>>
  <2>1. w = String(Stripped(Parse(v))) /\ Parse(w) = Stripped(Parse(v))
    BY <1>3, StrippedReads
  <2> HIDE DEF v, w
  <2>2. /\ Stripped(Parse(v)).ok = Parse(v).ok /\ Stripped(Parse(v)).scheme = Parse(v).scheme
        /\ Stripped(Stripped(Parse(v))) = Stripped(Parse(v))
    BY <1>1, <1>3, StrippedKeeps
  <2>3. Parse(w).ok /\ Parse(w).scheme # <<>> /\ Stripped(Parse(w)) = Stripped(Parse(v))
    BY <1>3, <2>1, <2>2
  <2>4. NormalizeHTTPURL(w) = w
    BY <2>3, ReadableStays
  <2>5. IgnitionEndpointURLForACI(w) = String(Stripped(Parse(w)))
    BY <2>3, <2>4 DEF IgnitionEndpointURLForACI
  <2>6. IgnitionEndpointURLForACI(w) = w
    BY <2>1, <2>3, <2>5
  <2> QED
    BY <2>6 DEF w
<1> QED
  BY <1>2, <1>3
-----------------------------------------------------------------------------
(* An IPv6 address and a port without brackets *)

\* The last x of a URL, and what is before and after it.
LEMMA LastAt ==
  ASSUME NEW s \in URL, NEW t \in URL, NEW x \in Token, Lacks(t, x)
  PROVE  LET u == s \o (<<x>> \o t) IN
         /\ u \in URL /\ Len(s) + 1 \in 1..Len(u) /\ Len(s) \in Nat
         /\ LastIndex(u, x) = Len(s) + 1
         /\ Before(u, Len(s) + 1) = s /\ From(u, Len(s) + 2) = t
<1> DEFINE a == <<x>>
           y == a \o t
           u == s \o y
           k == Len(s) + 1
<1>1. a \in URL /\ Len(a) = 1 /\ a[1] = x
  BY Tokens
<1> HIDE DEF a
<1>2. /\ y \in URL /\ Len(y) = Len(a) + Len(t) /\ Len(t) \in Nat
      /\ \A i \in 1..Len(a) : y[i] = a[i]
      /\ \A i \in 1..Len(t) : y[Len(a) + i] = t[i]
  BY <1>1, Joins, Lengths
<1>3. Len(y) = 1 + Len(t) /\ y[1] = x /\ \A i \in 1..Len(t) : y[1 + i] # x
  BY <1>1, <1>2 DEF Lacks
<1>4. (s \o a) \o t = u /\ s \o a \in URL /\ Len(s \o a) = Len(s) + 1
  <2>1. Regroup(s, a, t)
    BY <1>1, Regroups
  <2>2. s \o a \in URL /\ Len(s \o a) = Len(s) + Len(a)
    BY <1>1, Joins
  <2> QED
    BY <1>1, <2>1, <2>2 DEF Regroup
<1> HIDE DEF y
<1>5. /\ u \in URL /\ Len(u) = Len(s) + Len(y) /\ Len(s) \in Nat
      /\ \A i \in 1..Len(y) : u[Len(s) + i] = y[i]
      /\ Before(u, Len(s) + 1) = s
  BY <1>2, Joins, Lengths, CutsJoined
<1> HIDE DEF u
<1>6. k \in 1..Len(u) /\ u[k] = x
  BY <1>2, <1>3, <1>5
<1>7. ASSUME NEW i \in k + 1..Len(u)
      PROVE  u[i] # x
  <2> DEFINE j == i - Len(s) - 1
  <2>1. j \in 1..Len(t) /\ 1 + j \in 1..Len(y) /\ Len(s) + (1 + j) = i
    BY <1>2, <1>3, <1>5
  <2> HIDE DEF j
  <2>2. u[Len(s) + (1 + j)] = y[1 + j] /\ y[1 + j] # x
    BY <1>3, <1>5, <2>1
  <2> QED
    BY <2>1, <2>2
<1>8. LastIndex(u, x) = Len(s) + 1
  <2> HIDE DEF k
  <2>1. LastIndex(u, x) = k
    BY <1>5, <1>6, <1>7, LastIndexIs
  <2> QED
    BY <2>1 DEF k
<1>9. From(u, Len(s) + 2) = t
  <2> DEFINE g == s \o a
  <2>1. g \in URL /\ Len(g) = Len(s) + 1 /\ g \o t = u
    BY <1>4
  <2> HIDE DEF g
  <2>2. From(g \o t, Len(g) + 1) = t
    BY <2>1, CutsJoined
  <2>3. Len(g) + 1 = Len(s) + 2
    BY <1>5, <2>1
  <2> QED
    BY <2>1, <2>2, <2>3
<1> QED
  BY <1>5, <1>6, <1>8, <1>9 DEF u, y, a, k

\* Host h of a URL, and a path or a query after it.
LEMMA HostIsRead ==
  ASSUME NEW s \in Names, NEW h \in URL, Lacks(h, "/"), Lacks(h, "?"),
         NEW t \in URL, t = <<>> \/ t[1] \in {"/", "?"}
  PROVE  /\ <<s, "://">> \o (h \o t) \in URL
         /\ Parse(<<s, "://">> \o (h \o t)) =
              Parsed(ValidHost(h), <<s>>, <<>>, h, Upto(t, "?"), Onward(t, "?"))
<1> DEFINE b == Upto(t, "?")
           q == Onward(t, "?")
           r == h \o b
<1>1. b \in URL /\ q \in URL /\ b \o q = t /\ Lacks(b, "?") /\ Begins(q, "?")
  BY Splits
<1> HIDE DEF b, q
<1>2. Begins(b, "/")
  <2>1. CASE b = <<>>
    BY <2>1 DEF Begins
  <2>2. CASE b # <<>>
    <3>1. 1 \in 1..Len(b) /\ Len(b) \in Nat /\ Len(q) \in Nat
      BY <1>1, <2>2, Lengths
    <3>2. Len(t) = Len(b) + Len(q) /\ t[1] = b[1]
      BY <1>1, <3>1, Joins
    <3>3. t # <<>> /\ b[1] # "?"
      <4>1. Len(t) # 0
        BY <3>1, <3>2
      <4> QED
        BY <1>1, <3>1, <4>1, Tokens DEF Lacks
    <3> QED
      BY <3>2, <3>3 DEF Begins
  <2> QED
    BY <2>1, <2>2
<1>3. r \in URL /\ Lacks(r, "?")
  BY <1>1, Joins, LacksJoined
<1>4. Upto(r, "/") = h /\ Onward(r, "/") = b
  BY <1>1, <1>2, SplitsAt
<1>5. r \o q = h \o t
  <2>1. Regroup(h, b, q)
    BY <1>1, Regroups
  <2> QED
    BY <1>1, <2>1 DEF Regroup
<1> HIDE DEF r
<1>6. SchemeParts(s, "://", r, q)
  BY <1>1, <1>3 DEF SchemeParts
<1>7. WithScheme(s, "://", r, q) \in URL /\ Parse(WithScheme(s, "://", r, q)) = Read(s, "://", r, q)
  BY <1>6, ParseWithScheme
<1>8. Read(s, "://", r, q) = Parsed(ValidHost(h), <<s>>, <<>>, h, b, q)
  BY <1>4 DEF Read
<1>9. WithScheme(s, "://", r, q) = <<s, "://">> \o (h \o t)
  BY <1>5 DEF WithScheme
<1> QED
  BY <1>7, <1>8, <1>9 DEF b, q

Separators == {"/", "?", "[", "]", "://"}

LEMMA LiteralLacks ==
  ASSUME NEW a \in URL, IsLiteral(a), NEW x \in Separators
  PROVE  Lacks(a, x)
<1>1. \A i \in 1..Len(a) : a[i] = ":" \/ a[i] \in Groups
  BY LiteralTokens
<1>2. x # ":" /\ x \notin Groups
  BY DEF Separators, Groups
<1> QED
  BY <1>1, <1>2 DEF Lacks

LEMMA PortLacks ==
  ASSUME NEW n \in Numbers, NEW x \in Separators
  PROVE  Lacks(<<":", n>>, x) /\ Lacks(<<n>>, x) /\ Lacks(<<n>>, ":")
<1>1. n \in Token /\ ":" \in Token /\ n # x /\ ":" # x /\ n # ":"
  BY NamesAreTokens DEF Numbers, Separators
<1>2. /\ Len(<<":", n>>) = 2 /\ <<":", n>>[1] = ":" /\ <<":", n>>[2] = n
      /\ Len(<<n>>) = 1 /\ <<n>>[1] = n
  BY <1>1, Tokens
<1>3. Lacks(<<":", n>>, x)
  BY <1>1, <1>2 DEF Lacks
<1>4. Lacks(<<n>>, x) /\ Lacks(<<n>>, ":")
  BY <1>1, <1>2 DEF Lacks
<1> QED
  BY <1>3, <1>4

LEMMA BareHostIsInvalid ==
  ASSUME NEW a \in URL, IsLiteral(a), NEW n \in Numbers
  PROVE  /\ ~ValidHost(a \o <<":", n>>) /\ a \o <<":", n>> \in URL
         /\ Lacks(a \o <<":", n>>, "/") /\ Lacks(a \o <<":", n>>, "?")
<1> DEFINE z == <<":", n>>
           h == a \o z
<1>1. z \in URL /\ Len(z) = 2
  BY Tokens, NamesAreTokens
<1>2. Lacks(z, "/") /\ Lacks(z, "?") /\ Lacks(a, "/") /\ Lacks(a, "?") /\ Lacks(a, "[")
  BY LiteralLacks, PortLacks DEF Separators
<1> HIDE DEF z
<1>3. /\ h \in URL /\ Len(h) = Len(a) + Len(z) /\ Len(a) \in Nat
      /\ \A i \in 1..Len(a) : h[i] = a[i]
  BY <1>1, Joins, Lengths
<1>4. Lacks(h, "/") /\ Lacks(h, "?")
  BY <1>1, <1>2, LacksJoined
<1> HIDE DEF h
<1>5. PICK i \in 1..Len(a) : a[i] = ":"
  BY LiteralTokens
<1>6. h # <<>> => h[1] # "["
  <2>1. 1 \in 1..Len(a)
    BY <1>3, <1>5
  <2> QED
    BY <1>2, <1>3, <2>1 DEF Lacks
<1> DEFINE colon == Index(h, ":")
<1>7. colon \in 1..i
  <2>1. /\ colon \in 0..Len(h) /\ (colon = 0 => \A k \in 1..Len(h) : h[k] # ":")
        /\ \A k \in 1..colon - 1 : h[k] # ":"
    BY <1>3, IndexFinds
  <2>2. i \in 1..Len(h) /\ h[i] = ":" /\ Len(h) \in Nat
    BY <1>1, <1>3, <1>5
  <2> HIDE DEF colon
  <2> QED
    BY <2>1, <2>2
<1> HIDE DEF colon
<1> DEFINE f == From(h, colon)
<1>8. Len(f) > 2
  <2>1. colon \in 1..Len(h) + 1
    BY <1>1, <1>3, <1>7
  <2>2. Len(f) = Len(h) + 1 - colon
    BY <1>3, <2>1, Cuts
  <2> HIDE DEF f
  <2> QED
    BY <1>1, <1>3, <1>7, <2>2
<1>9. ~ValidOptionalPort(f)
  <2> HIDE DEF f
  <2>1. Len(<<>>) = 0 /\ Len(<<":">>) = 1 /\ \A k \in Numbers : Len(<<":", k>>) = 2
    BY Tokens, NamesAreTokens
  <2> QED
    BY <1>8, <2>1 DEF ValidOptionalPort
<1>10. ~ValidHost(h)
  <2>1. colon # 0
    BY <1>7
  <2> QED
    BY <1>6, <1>9, <2>1 DEF ValidHost, colon
<1> QED
  BY <1>3, <1>4, <1>10 DEF h, z

\* Address a in brackets, and port n.
InBrackets(a, n) == <<"[">> \o (a \o (<<"]">> \o <<":", n>>))

LEMMA BracketsAreValid ==
  ASSUME NEW a \in URL, IsLiteral(a), NEW n \in Numbers
  PROVE  /\ InBrackets(a, n) \in URL /\ ValidHost(InBrackets(a, n))
         /\ Lacks(InBrackets(a, n), "/") /\ Lacks(InBrackets(a, n), "?")
<1> DEFINE o == <<"[">>
           c == <<"]">>
           z == <<":", n>>
           y == c \o z
           x == a \o y
           h == o \o x
           s == o \o a
<1>1. /\ o \in URL /\ Len(o) = 1 /\ o[1] = "[" /\ c \in URL /\ Len(c) = 1 /\ c[1] = "]"
      /\ z \in URL /\ "]" \in Token
  BY Tokens, NamesAreTokens
<1>2. /\ Lacks(z, "/") /\ Lacks(z, "?") /\ Lacks(z, "]")
      /\ Lacks(a, "/") /\ Lacks(a, "?")
  BY LiteralLacks, PortLacks DEF Separators
<1>3. Lacks(o, "/") /\ Lacks(o, "?") /\ Lacks(c, "/") /\ Lacks(c, "?")
  <2> HIDE DEF o, c
  <2> QED
    BY <1>1 DEF Lacks
<1> HIDE DEF o, z
<1>4. y \in URL /\ Lacks(y, "/") /\ Lacks(y, "?")
  <2> HIDE DEF c
  <2> QED
    BY <1>1, <1>2, <1>3, Joins, LacksJoined
<1>5. s \in URL /\ Len(s) = 1 + Len(a)
  <2>1. o \in URL
    BY <1>1
  <2>2. s \in URL /\ Len(s) = Len(o) + Len(a)
    BY <2>1, Joins
  <2> HIDE DEF s
  <2> QED
    BY <1>1, <2>2
<1>6. s \o y = h
  <2> HIDE DEF y
  <2>1. Regroup(o, a, y)
    BY <1>1, <1>4, Regroups
  <2> QED
    BY <2>1 DEF Regroup
<1> HIDE DEF s
<1>7. /\ LastIndex(h, "]") = Len(s) + 1 /\ From(h, Len(s) + 2) = z
  <2> HIDE DEF h
  <2>1. s \o (<<"]">> \o z) = h
    BY <1>6
  <2>2. /\ LastIndex(s \o (<<"]">> \o z), "]") = Len(s) + 1
        /\ From(s \o (<<"]">> \o z), Len(s) + 2) = z
    BY <1>1, <1>2, <1>5, LastAt
  <2> QED
    BY <2>1, <2>2
<1> HIDE DEF y, c
<1>8. x \in URL /\ Lacks(x, "/") /\ Lacks(x, "?")
  BY <1>2, <1>4, Joins, LacksJoined
<1>9. SubSeq(h, Len(o) + 1, Len(o) + Len(a)) = a
  <2>1. Between(o, a, y)
    BY <1>1, <1>4, Middle
  <2> QED
    BY <2>1 DEF Between
<1> HIDE DEF x
<1>10. /\ h \in URL /\ Lacks(h, "/") /\ Lacks(h, "?") /\ Len(h) = Len(o) + Len(x)
       /\ \A i \in 1..Len(o) : h[i] = o[i]
  BY <1>1, <1>3, <1>8, Joins, LacksJoined
<1> HIDE DEF h
<1>11. h # <<>> /\ h[1] = "["
  <2>1. Len(h) # 0
    BY <1>1, <1>8, <1>10, Lengths
  <2> QED
    BY <1>1, <1>10, <2>1, Tokens
<1> DEFINE close == LastIndex(h, "]")
<1>12. /\ Len(a) \in Nat /\ close = Len(a) + 2 /\ close - 1 = Len(o) + Len(a)
       /\ close + 1 = Len(s) + 2 /\ 2 = Len(o) + 1 /\ close > 0
  <2>1. Len(a) \in Nat
    BY Lengths
  <2> QED
    BY <1>1, <1>5, <1>7, <2>1
<1> HIDE DEF close
<1>13. IsLiteral(SubSeq(h, 2, close - 1)) /\ From(h, close + 1) = z
  BY <1>7, <1>9, <1>12
<1>14. ValidOptionalPort(z)
  BY DEF ValidOptionalPort, z
<1>15. ValidHost(h)
  BY <1>11, <1>12, <1>13, <1>14 DEF ValidHost, close
<1> QED
  BY <1>10, <1>15 DEF InBrackets, h, x, y, o, c, z

\* An address and a port without brackets get them.
LEMMA LiteralNormalizes ==
  ASSUME NEW s \in Names, NEW a \in URL, IsLiteral(a), NEW n \in Numbers,
         NEW t \in URL, t = <<>> \/ t[1] \in {"/", "?"}, Lacks(Upto(t, "/"), ":")
  PROVE  NormalizeHTTPURL(<<s, "://">> \o ((a \o <<":", n>>) \o t))
           = <<s, "://">> \o (InBrackets(a, n) \o t)
<1> DEFINE p == <<s, "://">>
           z == <<":", n>>
           c == <<":">>
           e == <<n>>
           o == <<"[">>
           f == <<"]">>
           az == a \o z
           m == Upto(t, "/")
           w == Onward(t, "/")
           port == e \o m
           hp == az \o m
           rest == az \o t
           u == p \o rest
<1>1. /\ p \in URL /\ Len(p) = 2 /\ p[1] = s /\ p[2] = "://" /\ s # "://"
      /\ z \in URL /\ c \in URL /\ e \in URL /\ Len(e) = 1 /\ o \in URL /\ f \in URL
      /\ z = c \o e /\ ":" \in Token
  <2>1. s \in Token /\ "://" \in Token /\ n \in Token /\ ":" \in Token /\ s # "://"
    BY NamesAreTokens
  <2> QED
    BY <2>1, Tokens, NamesAreTokens, Pairs
<1>2. m \in URL /\ w \in URL /\ m \o w = t /\ Lacks(m, ":")
  BY Splits
<1>3. Lacks(e, ":")
  BY PortLacks DEF Separators
<1>4. /\ ~ValidHost(az) /\ az \in URL /\ Lacks(az, "/") /\ Lacks(az, "?")
  BY BareHostIsInvalid
<1>5. ~Parse(u).ok /\ u \in URL
  <2>1. u \in URL /\ Parse(u) = Parsed(ValidHost(az), <<s>>, <<>>, az, Upto(t, "?"), Onward(t, "?"))
    BY <1>4, HostIsRead
  <2> HIDE DEF u, az
  <2> QED
    BY <1>4, <2>1 DEF Parsed
<1>6. Upto(rest, "/") = hp /\ Onward(rest, "/") = w
  BY <1>4, SplitsAfter
<1> HIDE DEF p, z, c, e, o, f, m, w
<1>7. port \in URL /\ Len(port) = Len(e) + Len(m) /\ Lacks(port, ":") /\ Len(m) \in Nat
  <2>1. e \in URL /\ m \in URL /\ Lacks(m, ":")
    BY <1>1, <1>2
  <2>2. port \in URL /\ Len(port) = Len(e) + Len(m) /\ Len(m) \in Nat
    BY <2>1, Joins, Lengths
  <2>3. Lacks(port, ":")
    BY <1>3, <2>1, LacksJoined
  <2> QED
    BY <2>2, <2>3
<1>8. hp = a \o (c \o port)
  <2>1. Regroup(a, z, m) /\ Regroup(c, e, m)
    BY <1>1, <1>2, Regroups
  <2> QED
    BY <1>1, <2>1 DEF Regroup
<1> HIDE DEF port
<1>9. port # <<>>
  <2>1. Len(port) # 0
    BY <1>1, <1>7
  <2> QED
    BY <2>1, Tokens
<1> HIDE DEF hp
<1>10. /\ LastIndex(hp, ":") = Len(a) + 1
       /\ Before(hp, Len(a) + 1) = a /\ From(hp, Len(a) + 2) = port
       /\ hp \in URL
  <2>1. /\ a \o (<<":">> \o port) \in URL
        /\ LastIndex(a \o (<<":">> \o port), ":") = Len(a) + 1
        /\ Before(a \o (<<":">> \o port), Len(a) + 1) = a
        /\ From(a \o (<<":">> \o port), Len(a) + 2) = port
    BY <1>1, <1>7, LastAt
  <2> QED
    BY <1>8, <2>1 DEF c
<1>11. PICK k \in 1..Len(a) : a[k] = ":"
  BY LiteralTokens
<1>12. 1 \in 1..Len(a) /\ Len(a) \in Nat
  <2>1. Len(a) \in Nat
    BY Lengths
  <2> QED
    BY <1>11, <2>1
<1>13. HostNeedsBrackets(a)
  <2>1. k \in DOMAIN a
    BY <1>11, Lengths
  <2> QED
    BY <1>11, <2>1 DEF HostNeedsBrackets, ToSet
<1>14. hp[1] # "["
  <2> DEFINE y == c \o port
  <2>1. y \in URL
    BY <1>1, <1>7, Joins
  <2>2. hp = a \o y
    BY <1>8
  <2> HIDE DEF y
  <2>3. hp[1] = a[1]
    BY <1>12, <2>1, <2>2, Joins
  <2>4. Lacks(a, "[")
    BY LiteralLacks DEF Separators
  <2> QED
    BY <1>12, <2>3, <2>4 DEF Lacks
<1>15. rest \in URL
  BY <1>4, Joins
<1> HIDE DEF az, rest
<1>16. Index(u, "://") = 2 /\ SubSeq(u, 1, 2) = p /\ From(u, 3) = rest /\ u # <<>>
  <2>1. /\ Len(u) = Len(p) + Len(rest) /\ Len(rest) \in Nat
        /\ \A i \in 1..Len(p) : u[i] = p[i]
        /\ Before(u, Len(p) + 1) = p /\ From(u, Len(p) + 1) = rest
    <3>1. p \in URL
      BY <1>1
    <3> QED
      BY <1>15, <3>1, Joins, Lengths, CutsJoined
  <2> HIDE DEF u
  <2>2. 2 \in 1..Len(u) /\ u[2] = "://" /\ \A i \in 1..2 - 1 : u[i] # "://"
    BY <1>1, <2>1
  <2>3. Index(u, "://") = 2
    BY <1>5, <2>2, IndexIs
  <2>4. Before(u, 3) = p /\ From(u, 3) = rest /\ 3 - 1 = 2
    BY <1>1, <2>1
  <2>5. u # <<>>
    BY <2>2, Tokens
  <2> QED
    BY <2>3, <2>4, <2>5 DEF Before
<1> HIDE DEF u
<1>17. NormalizeHTTPURL(u) = p \o JoinHostPort(a, port) \o w
  <2>1. From(u, Index(u, "://") + 1) = rest
    BY <1>16
  <2>2. From(hp, PortColon(hp) + 1) = port /\ Before(hp, PortColon(hp)) = a /\ PortColon(hp) # 0
    <3>1. Len(a) + 1 + 1 = Len(a) + 2 /\ Len(a) + 1 # 0
      BY <1>12
    <3> QED
      BY <1>10, <3>1 DEF PortColon
  <2>3. /\ hp = IF Index(rest, "/") = 0 THEN rest ELSE Before(rest, Index(rest, "/"))
        /\ w = IF Index(rest, "/") = 0 THEN <<>> ELSE From(rest, Index(rest, "/"))
    BY <1>6 DEF Upto, Onward
  <2>4. Index(u, "://") # 0 /\ SubSeq(u, 1, Index(u, "://")) = p
    BY <1>16
  <2> QED
    BY <1>5, <1>9, <1>13, <1>14, <1>16, <2>1, <2>2, <2>3, <2>4
       DEF NormalizeHTTPURL, Rewritten
<1>18. Joined(p, a, port, w) = Bracketed(p, a, port, w)
  <2>1. p \in URL /\ port \in URL /\ w \in URL
    BY <1>1, <1>2, <1>7
  <2> QED
    BY <2>1, JoinsBrackets
<1>19. Bracketed(p, a, port, w) = p \o (InBrackets(a, n) \o t)
  <2> DEFINE y == f \o z
             x == a \o y
             et == e \o t
             zt == z \o t
             yt == y \o t
  <2>1. y \in URL
    BY <1>1, Joins
  <2> HIDE DEF y
  <2>2. x \in URL
    BY <2>1, Joins
  <2> HIDE DEF x
  <2>3. Regroup(e, m, w) /\ Regroup(c, e, t) /\ Regroup(f, z, t)
    BY <1>1, <1>2, Regroups
  <2>4. Regroup(a, y, t) /\ Regroup(o, x, t)
    BY <1>1, <2>1, <2>2, Regroups
  <2>5. port \o w = et
    BY <1>2, <2>3 DEF Regroup, port
  <2>6. c \o et = zt
    BY <1>1, <2>3 DEF Regroup
  <2>7. f \o zt = yt
    BY <2>3 DEF Regroup, y
  <2> HIDE DEF et, zt, yt
  <2>8. a \o yt = x \o t
    BY <2>4 DEF Regroup, x, yt
  <2>9. o \o (x \o t) = (o \o x) \o t
    BY <2>4 DEF Regroup
  <2>10. Bracketed(p, a, port, w) = p \o (o \o (a \o (f \o (c \o (port \o w)))))
    BY DEF Bracketed, o, f, c
  <2>11. o \o x = InBrackets(a, n)
    BY DEF InBrackets, o, x, y, f, z
  <2> QED
    BY <2>5, <2>6, <2>7, <2>8, <2>9, <2>10, <2>11
<1>20. NormalizeHTTPURL(u) = p \o (InBrackets(a, n) \o t)
  BY <1>17, <1>18, <1>19 DEF Joined
<1> QED
  BY <1>20 DEF u, p, rest, az, z

LEMMA LiteralKept ==
  ASSUME NEW s \in Names, NEW a \in URL, IsLiteral(a), NEW n \in Numbers,
         NEW t \in URL, t = <<>> \/ t[1] \in {"/", "?"}, Lacks(Upto(t, "/"), ":")
  PROVE  LET u == <<s, "://">> \o ((a \o <<":", n>>) \o t)
             after == Parse(IgnitionEndpointURLForACI(u))
         IN /\ after.ok /\ after.scheme = <<s>> /\ after.host = InBrackets(a, n)
            /\ after.query = Onward(t, "?")
<1> DEFINE u == <<s, "://">> \o ((a \o <<":", n>>) \o t)
           g == InBrackets(a, n)
           v == NormalizeHTTPURL(u)
           b == Upto(t, "?")
           q == Onward(t, "?")
<1>1. v = <<s, "://">> \o (g \o t)
  BY LiteralNormalizes
<1>2. g \in URL /\ ValidHost(g) /\ Lacks(g, "/") /\ Lacks(g, "?")
  BY BracketsAreValid
<1> HIDE DEF g, v, b, q
<1>3. u \in URL
  <2> DEFINE h == a \o <<":", n>>
  <2>1. h \in URL /\ Lacks(h, "/") /\ Lacks(h, "?")
    BY BareHostIsInvalid
  <2> HIDE DEF h
  <2>2. <<s, "://">> \o (h \o t) \in URL
    BY <2>1, HostIsRead
  <2> QED
    BY <2>2 DEF h
<1> HIDE DEF u
<1>4. Parse(v) = Parsed(ValidHost(g), <<s>>, <<>>, g, b, q)
  <2>1. Parse(<<s, "://">> \o (g \o t)) = Parsed(ValidHost(g), <<s>>, <<>>, g, b, q)
    BY <1>2, HostIsRead DEF b, q
  <2> QED
    BY <1>1, <2>1
<1>5. Parse(v).ok /\ Parse(v).scheme = <<s>>
  BY <1>2, <1>4 DEF Parsed
<1>6. Parse(v).scheme # <<>>
  BY <1>5
<1>7. Parse(IgnitionEndpointURLForACI(u)) = Stripped(Parse(v))
  BY <1>3, <1>5, <1>6, StrippedReads DEF v
<1>8. Stripped(Parse(v)) = Parsed(ValidHost(g), <<s>>, <<>>, g, <<>>, q)
  BY <1>4, StrippedIs
<1>9. Parse(IgnitionEndpointURLForACI(u)) = Parsed(ValidHost(g), <<s>>, <<>>, g, <<>>, q)
  BY <1>7, <1>8
<1> DEFINE after == Parse(IgnitionEndpointURLForACI(u))
<1> HIDE DEF after
<1>10. after = Parsed(ValidHost(g), <<s>>, <<>>, g, <<>>, q)
  BY <1>9 DEF after
<1>11. after.ok /\ after.scheme = <<s>> /\ after.host = g /\ after.query = q
  BY <1>2, <1>10 DEF Parsed
<1> QED
  BY <1>11 DEF after, g, q, u

\* The query of tail t is that of a host with t.
LEMMA QueryOfTail ==
  ASSUME NEW t \in URL
  PROVE  Parse(<<"host">> \o t).query = Onward(t, "?")
<1> DEFINE h == <<"host">>
<1>1. h \in URL /\ Len(h) = 1 /\ h[1] = "host"
  BY Tokens, NamesAreTokens
<1> HIDE DEF h
<1>2. Lacks(h, "?")
  BY <1>1 DEF Lacks
<1>3. h \o t \in URL /\ Onward(h \o t, "?") = Onward(t, "?")
  BY <1>1, <1>2, Joins, SplitsAfter
<1>4. Parse(h \o t).query = Onward(h \o t, "?")
  BY <1>3, ParseReads
<1> QED
  BY <1>3, <1>4 DEF h

\* The parts of an endpoint in which a colon begins the port.
LEMMA EndpointForm ==
  ASSUME NEW u \in URL, NEW i \in 1..Len(u), i > 3, i < Len(u)
  PROVE  /\ SubSeq(u, 3, i - 1) \in URL /\ From(u, i + 2) \in URL
         /\ u = <<u[1], u[2]>> \o ((SubSeq(u, 3, i - 1) \o <<u[i], u[i + 1]>>) \o From(u, i + 2))
<1> DEFINE j == i + 1
           a == SubSeq(u, 3, i - 1)
           t == From(u, j + 1)
           p == <<u[1], u[2]>>
           z == <<u[i], u[j]>>
           c == <<u[i]>>
           e == <<u[j]>>
           b == Before(u, i)
<1>1. /\ Len(u) \in Nat /\ j \in 1..Len(u) /\ i \in 1..Len(u) + 1 /\ j + 1 = i + 2
      /\ 3 \in 1..Len(u) + 1 /\ i - 1 \in 3 - 1..Len(u)
  BY Lengths
<1>2. u[1] \in Token /\ u[2] \in Token /\ u[i] \in Token /\ u[j] \in Token
  BY <1>1, Lengths
<1>3. /\ p \in URL /\ Len(p) = 2 /\ p[1] = u[1] /\ p[2] = u[2] /\ c \in URL /\ e \in URL
      /\ z \in URL /\ z = c \o e
  BY <1>2, Tokens, Pairs
<1> HIDE DEF p, z, c, e, j
<1>4. From(u, i) = c \o From(u, j)
  BY TakesOne DEF c, j
<1>5. From(u, j) = e \o t /\ t \in URL
  BY <1>1, TakesOne DEF e
<1>6. /\ b \in URL /\ Len(b) = i - 1 /\ \A k \in 1..i - 1 : b[k] = u[k]
      /\ b \o From(u, i) = u
  BY <1>1, Cuts, JoinsCut
<1>7. /\ a \in URL /\ Len(a) = i - 1 - 3 + 1
      /\ \A k \in 1..i - 1 - 3 + 1 : a[k] = u[3 + k - 1]
  <2> DEFINE l == i - 1
  <2>1. l \in 3 - 1..Len(u)
    BY <1>1
  <2> HIDE DEF l
  <2>2. /\ SubSeq(u, 3, l) \in URL /\ Len(SubSeq(u, 3, l)) = l - 3 + 1
        /\ \A k \in 1..l - 3 + 1 : SubSeq(u, 3, l)[k] = u[3 + k - 1]
    BY <1>1, <2>1, Slice
  <2> QED
    BY <2>2 DEF l
<1> HIDE DEF a, t, b
<1>8. b = p \o a
  <2>1. /\ p \o a \in URL /\ Len(p \o a) = Len(p) + Len(a)
        /\ \A k \in 1..Len(p) : (p \o a)[k] = p[k]
        /\ \A k \in 1..Len(a) : (p \o a)[Len(p) + k] = a[k]
    BY <1>3, <1>7, Joins
  <2> DEFINE x == p \o a
  <2> HIDE DEF x
  <2>2. /\ x \in URL /\ Len(x) = i - 1 /\ x[1] = u[1] /\ x[2] = u[2]
        /\ \A k \in 1..i - 3 : x[2 + k] = a[k]
    BY <1>1, <1>3, <1>7, <2>1 DEF x
  <2>3. ASSUME NEW k \in 1..i - 1
        PROVE  b[k] = x[k]
    <3>1. CASE k \in 1..2
      BY <1>6, <2>2, <3>1
    <3>2. CASE k \notin 1..2
      <4>1. k - 2 \in 1..i - 3 /\ 2 + (k - 2) = k /\ 3 + (k - 2) - 1 = k /\ i - 1 - 3 + 1 = i - 3
        BY <3>2
      <4>2. x[2 + (k - 2)] = a[k - 2] /\ a[k - 2] = u[3 + (k - 2) - 1]
        BY <1>7, <2>2, <4>1
      <4> QED
        BY <1>6, <4>1, <4>2
    <3> QED
      BY <3>1, <3>2
  <2>4. b = x
    BY <1>6, <2>2, <2>3, Same
  <2> QED
    BY <2>4 DEF x
<1> DEFINE y == e \o t
           cy == c \o y
<1>9. y \in URL
  BY <1>3, <1>5, Joins
<1>10. From(u, i) = cy
  BY <1>4, <1>5
<1> HIDE DEF y
<1>11. cy \in URL
  BY <1>3, <1>9, Joins
<1> HIDE DEF cy
<1>12. Regroup(p, a, cy) /\ Regroup(c, e, t) /\ Regroup(a, z, t)
  BY <1>3, <1>5, <1>7, <1>11, Regroups
<1>13. u = p \o (a \o cy)
  BY <1>6, <1>8, <1>10, <1>12 DEF Regroup
<1>14. cy = z \o t
  BY <1>3, <1>12 DEF Regroup, cy, y
<1>15. (a \o z) \o t = a \o cy
  BY <1>12, <1>14 DEF Regroup
<1>16. u = p \o ((a \o z) \o t)
  BY <1>13, <1>15
<1>17. t = From(u, i + 2)
  BY <1>1 DEF t
<1> QED
  BY <1>5, <1>7, <1>16, <1>17 DEF a, p, z, j

LEMMA BracketsAsWritten ==
  ASSUME NEW a \in URL, NEW n \in Numbers
  PROVE  <<"[">> \o a \o <<"]", ":", n>> = InBrackets(a, n)
<1> DEFINE o == <<"[">>
           c == <<"]">>
           z == <<":", n>>
           y == c \o z
           d == <<"]", ":", n>>
<1>1. "]" \in Token /\ ":" \in Token /\ n \in Token /\ "[" \in Token
  BY NamesAreTokens
<1>2. /\ o \in URL /\ c \in URL /\ Len(c) = 1 /\ c[1] = "]"
      /\ z \in URL /\ Len(z) = 2 /\ z[1] = ":" /\ z[2] = n
  BY <1>1, Tokens
<1>3. d \in URL /\ Len(d) = 3 /\ d[1] = "]" /\ d[2] = ":" /\ d[3] = n
  BY <1>1 DEF URL
<1> HIDE DEF o, c, z, d
<1>4. /\ y \in URL /\ Len(y) = Len(c) + Len(z)
      /\ \A i \in 1..Len(c) : y[i] = c[i]
      /\ \A i \in 1..Len(z) : y[Len(c) + i] = z[i]
  BY <1>2, Joins
<1> HIDE DEF y
<1>5. Len(y) = 3 /\ y[1] = "]" /\ y[2] = ":" /\ y[3] = n
  BY <1>2, <1>4
<1>6. d = y
  <2>1. \A i \in 1..3 : d[i] = y[i]
    BY <1>3, <1>5
  <2> QED
    BY <1>3, <1>4, <1>5, <2>1, Same
<1>7. Regroup(o, a, y)
  BY <1>2, <1>4, Regroups
<1>8. (o \o a) \o d = o \o (a \o y)
  BY <1>6, <1>7 DEF Regroup
<1> QED
  BY <1>8 DEF InBrackets, o, c, z, y, d

\* No colon of tail t without a slash before it: none before the path.
LEMMA TailLacksColon ==
  ASSUME NEW t \in URL,
         \A k \in DOMAIN t : t[k] = ":" => \E l \in 1..k - 1 : t[l] = "/"
  PROVE  Lacks(Upto(t, "/"), ":")
<1> DEFINE m == Upto(t, "/")
           w == Onward(t, "/")
<1>1. m \in URL /\ w \in URL /\ m \o w = t /\ Lacks(m, "/")
  BY Splits
<1> HIDE DEF m, w
<1>2. /\ Len(t) = Len(m) + Len(w) /\ Len(m) \in Nat /\ Len(w) \in Nat
      /\ \A k \in 1..Len(m) : t[k] = m[k]
      /\ DOMAIN t = 1..Len(t)
  <2>1. /\ Len(m \o w) = Len(m) + Len(w)
        /\ \A k \in 1..Len(m) : (m \o w)[k] = m[k]
    BY <1>1, Joins
  <2>2. Len(m) \in Nat /\ Len(w) \in Nat /\ DOMAIN t = 1..Len(t)
    BY <1>1, Lengths
  <2> QED
    BY <1>1, <2>1, <2>2
<1>3. ASSUME NEW k \in 1..Len(m), m[k] = ":"
      PROVE  FALSE
  <2>1. k \in DOMAIN t /\ t[k] = ":" /\ \A l \in 1..k - 1 : l \in 1..Len(m)
    BY <1>2, <1>3
  <2>2. PICK l \in 1..k - 1 : t[l] = "/"
    BY <2>1
  <2>3. l \in 1..Len(m) /\ m[l] = "/"
    BY <1>2, <2>1, <2>2
  <2> QED
    BY <1>1, <2>3 DEF Lacks
<1> QED
  BY <1>3 DEF Lacks, m

-----------------------------------------------------------------------------
(* URLs that cannot be read, and can be with brackets *)

LEMMA SplitsBefore ==
  ASSUME NEW s \in URL, NEW t \in URL, NEW x, ~Lacks(s, x)
  PROVE  Upto(s \o t, x) = Upto(s, x)
<1> DEFINE a == Upto(s, x)
           b == Onward(s, x)
           c == b \o t
<1>1. a \in URL /\ b \in URL /\ a \o b = s /\ Lacks(a, x) /\ Begins(b, x)
  BY Splits
<1> HIDE DEF a, b
<1>2. b # <<>>
  BY <1>1, Empties
<1>3. /\ c \in URL /\ Len(c) = Len(b) + Len(t) /\ \A i \in 1..Len(b) : c[i] = b[i]
      /\ Len(b) \in Nat /\ Len(t) \in Nat /\ Len(b) # 0
  BY <1>1, <1>2, Joins, Lengths
<1>4. s \o t = a \o c
  <2>1. Regroup(a, b, t)
    BY <1>1, Regroups
  <2> QED
    BY <1>1, <2>1 DEF Regroup
<1> HIDE DEF c
<1>5. Begins(c, x)
  BY <1>1, <1>2, <1>3 DEF Begins
<1>6. Upto(a \o c, x) = a
  BY <1>1, <1>3, <1>5, SplitsAt
<1> QED
  BY <1>4, <1>6 DEF a

\* Whether a URL can be read does not depend on its query.
LEMMA BodyDecides ==
  ASSUME NEW u \in URL, NEW v \in URL, Upto(u, "?") = Upto(v, "?")
  PROVE  Parse(u).ok <=> Parse(v).ok
<1> DEFINE b == Upto(u, "?")
           q == Onward(u, "?")
           w == Onward(v, "?")
           r == From(b, 3)
<1>1. ASSUME NEW x \in {":", "://"}, Scheme(b, x)
      PROVE  Parse(u) = Read(b[1], x, r, q) /\ Parse(v) = Read(b[1], x, r, w)
  BY <1>1, ParseReads
<1>2. ASSUME ~Scheme(b, ":"), ~Scheme(b, "://")
      PROVE  Parse(u).ok <=> Parse(v).ok
  BY <1>2, ParseReads
<1> HIDE DEF b, q, w, r
<1>3. CASE Scheme(b, "://")
  <2>1. /\ Parse(u) = Read(b[1], "://", r, q) /\ Parse(v) = Read(b[1], "://", r, w)
    BY <1>1, <1>3
  <2>2. Parse(u).ok = ValidHost(Upto(r, "/")) /\ Parse(v).ok = ValidHost(Upto(r, "/"))
    BY <2>1 DEF Read, Parsed
  <2> QED
    BY <2>2
<1>4. CASE Scheme(b, ":")
  <2>1. /\ Parse(u) = Read(b[1], ":", r, q) /\ Parse(v) = Read(b[1], ":", r, w)
    BY <1>1, <1>4
  <2>2. Parse(u).ok = TRUE /\ Parse(v).ok = TRUE
    BY <2>1 DEF Read, Parsed
  <2> QED
    BY <2>2
<1> QED
  BY <1>2, <1>3, <1>4

\* If what follows the first "://" decides whether a URL can be read, then only a
\* scheme comes before it.
LEMMA SchemeBefore ==
  ASSUME NEW p \in URL, NEW x \in URL, NEW y \in URL,
         p # <<>>, p[Len(p)] = "://", \A i \in 1..Len(p) - 1 : p[i] # "://",
         ~Parse(p \o x).ok, Parse(p \o y).ok
  PROVE  p[1] \in Names /\ p = <<p[1], "://">>
<1> DEFINE u == p \o x
           v == p \o y
<1>1. u \in URL /\ v \in URL /\ Len(p) \in Nat /\ Len(p) # 0
  BY Joins, Lengths
<1>2. ~Parse(u).ok /\ Parse(v).ok
  OBVIOUS
<1>3. Lacks(p, "?")
  <2>1. ASSUME ~Lacks(p, "?")
        PROVE  Upto(u, "?") = Upto(v, "?")
    BY <2>1, SplitsBefore
  <2> HIDE DEF u, v
  <2> QED
    BY <1>1, <1>2, <2>1, BodyDecides
<1> DEFINE a == Upto(x, "?")
           c == Upto(y, "?")
           b == p \o a
           d == p \o c
<1>4. a \in URL /\ c \in URL /\ Upto(u, "?") = b /\ Upto(v, "?") = d
  BY <1>3, Splits, SplitsAfter
<1> HIDE DEF u, v, a, c
<1>5. /\ b \in URL /\ Len(b) = Len(p) + Len(a) /\ Len(a) \in Nat
      /\ \A i \in 1..Len(p) : b[i] = p[i]
  BY <1>4, Joins, Lengths
<1>6. /\ d \in URL /\ Len(d) = Len(p) + Len(c) /\ Len(c) \in Nat
      /\ \A i \in 1..Len(p) : d[i] = p[i]
  BY <1>4, Joins, Lengths
<1> DEFINE g == Upto(b, "/")
           k == Upto(d, "/")
<1>7. /\ ~Lacks(p, "/") => g = k
      /\ Lacks(p, "/") => k = p \o Upto(c, "/")
  BY <1>4, SplitsBefore, SplitsAfter
<1> HIDE DEF b, d, g, k
<1>8. ~Scheme(b, ":")
  <2>1. ASSUME Scheme(b, ":")
        PROVE  Parse(u) = Read(b[1], ":", From(b, 3), Onward(u, "?"))
    BY <1>1, <1>4, <2>1, ParseReads
  <2>2. ASSUME Scheme(b, ":")
        PROVE  Parse(u).ok = TRUE
    BY <2>1, <2>2 DEF Read, Parsed
  <2> QED
    BY <1>2, <2>2
<1>9. CASE Len(p) > 1 /\ p[1] \in Names /\ p[2] = "://"
  <2>1. Len(p) = 2
    <3> DEFINE l == Len(p)
    <3>1. l \in Nat /\ l > 1 /\ 2 \notin 1..l - 1
      BY <1>1, <1>9
    <3> HIDE DEF l
    <3>2. l = 2
      BY <3>1
    <3> QED
      BY <3>2 DEF l
  <2>2. p[1] \in Token /\ "://" \in Token
    BY <1>9, NamesAreTokens
  <2> DEFINE e == <<p[1], "://">>
  <2>3. e \in URL /\ Len(e) = 2 /\ e[1] = p[1] /\ e[2] = "://"
    BY <2>2, Tokens
  <2> HIDE DEF e
  <2>4. \A i \in 1..2 : p[i] = e[i]
    BY <1>9, <2>3
  <2>5. p = e
    BY <2>1, <2>3, <2>4, Same
  <2> QED
    BY <1>9, <2>5 DEF e
<1>10. CASE ~(Len(p) > 1 /\ p[1] \in Names /\ p[2] = "://")
  <2>1. /\ ~Scheme(b, "://") /\ ~Scheme(d, "://") /\ (Scheme(d, ":") => Scheme(b, ":"))
    <3>1. CASE Len(p) > 1
      <4>1. b[1] = p[1] /\ b[2] = p[2] /\ d[1] = p[1] /\ d[2] = p[2] /\ Len(b) > 1
        BY <1>1, <1>5, <1>6, <3>1
      <4> QED
        BY <1>10, <3>1, <4>1 DEF Scheme
    <3>2. CASE ~(Len(p) > 1)
      <4>1. Len(p) = 1
        <5> DEFINE l == Len(p)
        <5>1. l \in Nat /\ l # 0 /\ ~(l > 1)
          BY <1>1, <3>2
        <5> HIDE DEF l
        <5>2. l = 1
          BY <5>1
        <5> QED
          BY <5>2 DEF l
      <4>2. b[1] = "://" /\ d[1] = "://"
        BY <1>5, <1>6, <4>1
      <4> QED
        BY <4>2, NamesAreTokens DEF Scheme
    <3> QED
      BY <3>1, <3>2
  <2>2. /\ ~(Lacks(g, ":") /\ Lacks(g, "://"))
        /\ Lacks(k, ":") /\ Lacks(k, "://")
    BY <1>1, <1>2, <1>4, <1>8, <2>1, ParseReads DEF g, k
  <2>3. Lacks(p, "/")
    BY <1>7, <2>2
  <2> DEFINE j == Upto(c, "/")
  <2>4. j \in URL /\ Lacks(p \o j, "://")
    BY <1>4, <1>7, <2>2, <2>3, Splits
  <2> HIDE DEF j
  <2>5. Lacks(p, "://")
    BY <2>4, LacksParts
  <2> QED
    BY <1>1, <2>5 DEF Lacks
<1> QED
  BY <1>9, <1>10

\* A URL whose host begins with h: the rest of the host is that of t.
LEMMA HostContinues ==
  ASSUME NEW s \in Names, NEW h \in URL, Lacks(h, "/"), Lacks(h, "?"), NEW t \in URL
  PROVE  LET z == Upto(Upto(t, "?"), "/") IN
         /\ z \in URL
         /\ Parse(<<s, "://">> \o (h \o t)).ok <=> ValidHost(h \o z)
         /\ Parse(<<s, "://">> \o (h \o t)).scheme = <<s>>
         /\ Parse(<<s, "://">> \o (h \o t)).host = h \o z
         /\ Parse(<<s, "://">> \o (h \o t)).query = Onward(t, "?")
<1> DEFINE b == Upto(t, "?")
           q == Onward(t, "?")
           r == h \o b
<1>1. b \in URL /\ q \in URL /\ b \o q = t /\ Lacks(b, "?") /\ Begins(q, "?")
  BY Splits
<1> HIDE DEF b, q
<1>2. r \in URL /\ Lacks(r, "?") /\ Upto(b, "/") \in URL
  BY <1>1, Joins, LacksJoined, Splits
<1>3. Upto(r, "/") = h \o Upto(b, "/")
  BY <1>1, SplitsAfter
<1>4. r \o q = h \o t
  <2>1. Regroup(h, b, q)
    BY <1>1, Regroups
  <2> QED
    BY <1>1, <2>1 DEF Regroup
<1> HIDE DEF r
<1>5. SchemeParts(s, "://", r, q)
  BY <1>1, <1>2 DEF SchemeParts
<1>6. Parse(WithScheme(s, "://", r, q)) = Read(s, "://", r, q)
  BY <1>5, ParseWithScheme
<1> DEFINE v == WithScheme(s, "://", r, q)
<1>7. v = <<s, "://">> \o (h \o t)
  BY <1>4 DEF WithScheme
<1> HIDE DEF v
<1>8. /\ Parse(v).ok = ValidHost(Upto(r, "/")) /\ Parse(v).scheme = <<s>>
      /\ Parse(v).host = Upto(r, "/") /\ Parse(v).query = q
  BY <1>6 DEF Read, Parsed, v
<1> QED
  BY <1>2, <1>3, <1>7, <1>8 DEF b, q

\* What may follow an address in brackets may follow a name.
LEMMA PortFollowsName ==
  ASSUME NEW a \in URL, IsLiteral(a), NEW z \in URL, z # <<>>, z[1] = ":",
         ValidHost(((<<"[">> \o a) \o <<"]">>) \o z)
  PROVE  ValidHost(<<"host">> \o z)
<1> DEFINE o == <<"[">>
           c == <<"]">>
           s == o \o a
           e == s \o c
           h == e \o z
           close == LastIndex(h, "]")
<1>1. /\ o \in URL /\ Len(o) = 1 /\ o[1] = "[" /\ c \in URL /\ Len(c) = 1 /\ c[1] = "]"
      /\ Len(a) \in Nat
  BY Tokens, NamesAreTokens, Lengths
<1>2. ValidHost(h)
  OBVIOUS
<1> HIDE DEF o, c
<1>3. s \in URL /\ Len(s) = 1 + Len(a) /\ s[1] = "["
  <2>1. /\ s \in URL /\ Len(s) = Len(o) + Len(a)
        /\ \A i \in 1..Len(o) : s[i] = o[i]
    BY <1>1, Joins
  <2> QED
    BY <1>1, <2>1
<1> HIDE DEF s
<1>4. e \in URL /\ Len(e) = 2 + Len(a) /\ e[1] = "[" /\ e[2 + Len(a)] = "]"
  <2>1. /\ e \in URL /\ Len(e) = Len(s) + Len(c)
        /\ \A i \in 1..Len(s) : e[i] = s[i]
        /\ \A i \in 1..Len(c) : e[Len(s) + i] = c[i]
    BY <1>1, <1>3, Joins
  <2>2. e[Len(s) + 1] = "]" /\ Len(s) + 1 = 2 + Len(a)
    BY <1>1, <1>3, <2>1
  <2> QED
    BY <1>1, <1>3, <2>1, <2>2
<1> HIDE DEF e
<1>5. /\ h \in URL /\ Len(h) = 2 + Len(a) + Len(z) /\ Len(z) \in Nat
      /\ h[1] = "[" /\ h[2 + Len(a)] = "]" /\ From(h, 2 + Len(a) + 1) = z
  <2>1. /\ h \in URL /\ Len(h) = Len(e) + Len(z) /\ Len(z) \in Nat
        /\ \A i \in 1..Len(e) : h[i] = e[i]
        /\ From(h, Len(e) + 1) = z
    BY <1>4, Joins, CutsJoined, Lengths
  <2> QED
    BY <1>1, <1>4, <2>1
<1> HIDE DEF h
<1>6. close \in 0..Len(h) /\ \A i \in close + 1..Len(h) : h[i] # "]"
  BY <1>5, LastIndexFinds
<1>7. IsLiteral(SubSeq(h, 2, close - 1)) /\ ValidOptionalPort(From(h, close + 1))
  <2>1. h # <<>>
    BY <1>1, <1>5, Tokens
  <2> QED
    BY <1>2, <1>5, <2>1 DEF ValidHost
<1> HIDE DEF close
<1>8. close = 2 + Len(a)
  <2>1. close >= 2 + Len(a)
    BY <1>1, <1>5, <1>6
  <2>2. ASSUME close > 2 + Len(a)
        PROVE  FALSE
    <3> DEFINE l == close - 1
               g == SubSeq(h, 2, l)
               j == 1 + Len(a)
    <3>1. 2 \in 1..Len(h) + 1 /\ l \in 2 - 1..Len(h) /\ j \in 1..l - 2 + 1 /\ 2 + j - 1 = 2 + Len(a)
      BY <1>1, <1>5, <1>6, <2>2
    <3> HIDE DEF l, j
    <3>2. /\ g \in URL /\ Len(g) = l - 2 + 1
          /\ \A i \in 1..l - 2 + 1 : g[i] = h[2 + i - 1]
      BY <1>5, <3>1, Slice
    <3>3. g[j] = "]" /\ j \in 1..Len(g)
      BY <1>5, <3>1, <3>2
    <3>4. IsLiteral(g)
      BY <1>7 DEF l
    <3> HIDE DEF g
    <3>5. Lacks(g, "]")
      BY <3>2, <3>4, LiteralLacks DEF Separators
    <3> QED
      BY <3>3, <3>5 DEF Lacks
  <2> QED
    BY <1>1, <1>6, <2>1, <2>2
<1>9. ValidOptionalPort(z)
  BY <1>5, <1>7, <1>8
<1> DEFINE m == <<"host">>
           w == m \o z
<1>10. m \in URL /\ Len(m) = 1 /\ m[1] = "host"
  BY Tokens, NamesAreTokens
<1> HIDE DEF m
<1>11. /\ w \in URL /\ Len(w) = 1 + Len(z) /\ w[1] = "host" /\ w[2] = ":" /\ From(w, 2) = z
       /\ Len(z) # 0
  <2>1. /\ w \in URL /\ Len(w) = Len(m) + Len(z) /\ Len(z) # 0
        /\ \A i \in 1..Len(m) : w[i] = m[i]
        /\ \A i \in 1..Len(z) : w[Len(m) + i] = z[i]
        /\ From(w, Len(m) + 1) = z
    BY <1>10, Joins, CutsJoined, Lengths
  <2>2. w[1 + 1] = z[1]
    BY <1>5, <1>10, <2>1
  <2> QED
    BY <1>10, <2>1, <2>2
<1> HIDE DEF w
<1>12. Index(w, ":") = 2
  <2>1. 2 \in 1..Len(w) /\ \A i \in 1..2 - 1 : w[i] # ":"
    BY <1>5, <1>11
  <2> QED
    BY <1>11, <2>1, IndexIs
<1>13. ValidHost(w)
  BY <1>9, <1>11, <1>12 DEF ValidHost
<1> QED
  BY <1>13 DEF w, m

LEMMA TailOfName ==
  ASSUME NEW z \in URL
  PROVE  Tail(<<"host">> \o z) = z
<1> DEFINE m == <<"host">>
           w == m \o z
<1>1. m \in URL /\ Len(m) = 1 /\ m[1] = "host"
  BY Tokens, NamesAreTokens
<1> HIDE DEF m
<1>2. w \in URL /\ From(w, 2) = z /\ Len(w) # 0
  <2>1. w \in URL /\ Len(w) = Len(m) + Len(z) /\ From(w, Len(m) + 1) = z /\ Len(z) \in Nat
    BY <1>1, Joins, CutsJoined, Lengths
  <2> QED
    BY <1>1, <2>1
<1> HIDE DEF w
<1>3. Tail(w) = SubSeq(w, 2, Len(w))
  BY <1>2, TailIsSubSeq, Tokens DEF URL
<1> QED
  BY <1>2, <1>3 DEF w, m, From

LEMMA NameInPlace ==
  ASSUME NEW s \in Names, NEW t \in URL
  PROVE  <<s, "://", "host">> \o t = <<s, "://">> \o (<<"host">> \o t)
<1> DEFINE p == <<s, "://">>
           m == <<"host">>
           d == <<s, "://", "host">>
           c == p \o m
<1>1. s \in Token /\ "://" \in Token /\ "host" \in Token
  BY NamesAreTokens
<1>2. /\ p \in URL /\ Len(p) = 2 /\ p[1] = s /\ p[2] = "://"
      /\ m \in URL /\ Len(m) = 1 /\ m[1] = "host"
  BY <1>1, Tokens
<1>3. d \in URL /\ Len(d) = 3 /\ d[1] = s /\ d[2] = "://" /\ d[3] = "host"
  BY <1>1 DEF URL
<1> HIDE DEF p, m, d
<1>4. /\ c \in URL /\ Len(c) = Len(p) + Len(m)
      /\ \A i \in 1..Len(p) : c[i] = p[i]
      /\ \A i \in 1..Len(m) : c[Len(p) + i] = m[i]
  BY <1>2, Joins
<1> HIDE DEF c
<1>5. c[1] = s /\ c[2] = "://" /\ c[3] = "host" /\ Len(c) = 3
  BY <1>2, <1>4
<1>6. d = c
  <2>1. \A i \in 1..3 : d[i] = c[i]
    BY <1>3, <1>5
  <2> QED
    BY <1>3, <1>4, <1>5, <2>1, Same
<1>7. Regroup(p, m, t)
  BY <1>2, Regroups
<1> QED
  BY <1>6, <1>7 DEF Regroup, p, m, d, c

\* The parts of a URL that brackets make readable.
LEMMA MadeReadable ==
  ASSUME NEW u \in URL, ~Parse(u).ok, Parse(NormalizeHTTPURL(u)).ok
  PROVE  \E s \in Names, a, t \in URL :
           /\ IsLiteral(a) /\ t # <<>> /\ t[1] = ":"
           /\ u = <<s, "://">> \o (a \o t)
           /\ NormalizeHTTPURL(u) = <<s, "://">> \o (((<<"[">> \o a) \o <<"]">>) \o t)
<1>1. PICK p, h, n, k : /\ Pieces(u, p, h, n, k) /\ IsLiteral(h)
                        /\ NormalizeHTTPURL(u) = Bracketed(p, h, n, k)
  BY NormalForm
<1> DEFINE o == <<"[">>
           c == <<"]">>
           f == <<":">>
           nk == n \o k
           t == f \o nk
           ct == c \o t
           hct == h \o ct
           x == h \o t
           y == o \o hct
           oh == o \o h
           b == oh \o c
<1>2. /\ p \in URL /\ h \in URL /\ n \in URL /\ k \in URL
      /\ p # <<>> /\ p[Len(p)] = "://" /\ \A i \in 1..Len(p) - 1 : p[i] # "://"
  BY <1>1 DEF Pieces
<1>3. u = p \o x /\ NormalizeHTTPURL(u) = p \o y
  BY <1>1 DEF Pieces, Bracketed
<1>4. /\ o \in URL /\ c \in URL /\ f \in URL /\ Len(f) = 1 /\ f[1] = ":"
  BY Tokens, NamesAreTokens
<1> HIDE DEF o, c, f
<1>5. nk \in URL
  BY <1>2, Joins
<1> HIDE DEF nk, ct, hct, x, y, oh, b
<1>6. t \in URL /\ t # <<>> /\ t[1] = ":"
  <2>1. /\ t \in URL /\ Len(t) = Len(f) + Len(nk) /\ Len(nk) \in Nat
        /\ \A i \in 1..Len(f) : t[i] = f[i]
    <3>1. f \in URL /\ nk \in URL
      BY <1>4, <1>5
    <3> QED
      BY <3>1, Joins, Lengths
  <2>2. Len(t) # 0
    BY <1>4, <2>1
  <2> QED
    BY <1>4, <2>1, <2>2, Tokens
<1> HIDE DEF t
<1>7. ct \in URL /\ x \in URL /\ oh \in URL
  BY <1>2, <1>4, <1>6, Joins DEF ct, x, oh
<1>8. hct \in URL
  BY <1>2, <1>7, Joins DEF hct
<1>9. y \in URL
  BY <1>4, <1>8, Joins DEF y
<1>10. y = b \o t
  <2>1. Regroup(o, h, ct) /\ Regroup(oh, c, t)
    BY <1>2, <1>4, <1>6, <1>7, Regroups
  <2>2. y = oh \o ct
    BY <2>1 DEF Regroup, hct, oh, y
  <2> QED
    BY <2>1, <2>2 DEF Regroup, ct, b
<1>11. p[1] \in Names /\ p = <<p[1], "://">>
  BY <1>2, <1>3, <1>7, <1>9, SchemeBefore
<1> DEFINE s == p[1]
<1>12. s \in Names /\ u = <<s, "://">> \o (h \o t)
  BY <1>3, <1>11 DEF x
<1>13. NormalizeHTTPURL(u) = <<s, "://">> \o (b \o t)
  BY <1>3, <1>10, <1>11
<1> HIDE DEF s
<1> QED
  BY <1>1, <1>2, <1>6, <1>12, <1>13 DEF b, oh, o, c

LEMMA ReadAsNamed ==
  ASSUME NEW u \in URL, ~Parse(u).ok, Parse(IgnitionEndpointURLForACI(u)).ok
  PROVE  \E i \in DOMAIN u :
           LET address == SubSeq(u, 3, i - 1)
               named == Parse(<<u[1], "://", "host">> \o From(u, i))
               after == Parse(IgnitionEndpointURLForACI(u))
           IN /\ u[2] = "://" /\ IsLiteral(address) /\ u[i] = ":" /\ named.ok
              /\ after.scheme = named.scheme
              /\ after.host = <<"[">> \o address \o <<"]">> \o Tail(named.host)
              /\ after.query = named.query
<1> DEFINE v == NormalizeHTTPURL(u)
           after == Parse(IgnitionEndpointURLForACI(u))
<1>1. v \in URL /\ Parse(v).ok
  BY NormalizeKeepsURLs DEF IgnitionEndpointURLForACI
<1>2. PICK s \in Names, a \in URL, t \in URL :
        /\ IsLiteral(a) /\ t # <<>> /\ t[1] = ":"
        /\ u = <<s, "://">> \o (a \o t)
        /\ v = <<s, "://">> \o (((<<"[">> \o a) \o <<"]">>) \o t)
  BY <1>1, MadeReadable
<1> DEFINE p == <<s, "://">>
           o == <<"[">>
           c == <<"]">>
           b == (o \o a) \o c
           m == <<"host">>
           x == a \o t
           z == Upto(Upto(t, "?"), "/")
           i == Len(p) + Len(a) + 1
<1>3. /\ p \in URL /\ Len(p) = 2 /\ p[1] = s /\ p[2] = "://"
      /\ o \in URL /\ Len(o) = 1 /\ o[1] = "[" /\ c \in URL /\ Len(c) = 1 /\ c[1] = "]"
      /\ m \in URL /\ Len(m) = 1 /\ m[1] = "host"
  BY Tokens, NamesAreTokens
<1> HIDE DEF v, after
<1>4. /\ Lacks(o, "/") /\ Lacks(o, "?") /\ Lacks(c, "/") /\ Lacks(c, "?")
      /\ Lacks(m, "/") /\ Lacks(m, "?") /\ Lacks(a, "/") /\ Lacks(a, "?")
  <2>1. Lacks(a, "/") /\ Lacks(a, "?")
    BY <1>2, LiteralLacks DEF Separators
  <2> HIDE DEF o, c, m
  <2> QED
    BY <1>3, <2>1 DEF Lacks
<1>5. b \in URL /\ Lacks(b, "/") /\ Lacks(b, "?")
  <2> DEFINE e == o \o a
  <2> HIDE DEF o, c
  <2>1. e \in URL /\ Lacks(e, "/") /\ Lacks(e, "?")
    BY <1>3, <1>4, Joins, LacksJoined
  <2> HIDE DEF e
  <2>2. e \o c \in URL /\ Lacks(e \o c, "/") /\ Lacks(e \o c, "?")
    BY <1>3, <1>4, <2>1, Joins, LacksJoined
  <2> QED
    BY <2>2 DEF e
<1>6. z \in URL /\ z # <<>> /\ z[1] = ":"
  <2> DEFINE w == Upto(t, "?")
             q == Onward(t, "?")
             k == Onward(w, "/")
  <2>1. w \in URL /\ q \in URL /\ w \o q = t /\ Begins(q, "?")
    BY Splits
  <2> HIDE DEF w, q
  <2>2. z \in URL /\ k \in URL /\ z \o k = w /\ Begins(k, "/")
    BY <2>1, Splits DEF w
  <2> HIDE DEF z, k
  <2>3. w # <<>>
    <3>1. w = <<>> => t = q
      BY <2>1, Empties
    <3> QED
      BY <1>2, <2>1, <3>1 DEF Begins
  <2>4. w[1] = ":"
    <3>1. /\ \A j \in 1..Len(w) : (w \o q)[j] = w[j]
          /\ Len(w) \in Nat /\ Len(w) # 0
      BY <2>1, <2>3, Joins, Lengths
    <3>2. (w \o q)[1] = ":"
      BY <1>2, <2>1
    <3>3. (w \o q)[1] = w[1]
      BY <3>1
    <3> QED
      BY <3>2, <3>3
  <2>5. z # <<>>
    <3>1. z = <<>> => w = k
      BY <2>2, Empties
    <3> QED
      BY <2>2, <2>3, <2>4, <3>1 DEF Begins
  <2>6. z[1] = w[1]
    <3>1. /\ \A j \in 1..Len(z) : (z \o k)[j] = z[j]
          /\ Len(z) \in Nat /\ Len(z) # 0
      BY <2>2, <2>5, Joins, Lengths
    <3> QED
      BY <2>2, <3>1
  <2> QED
    BY <2>2, <2>4, <2>5, <2>6
<1>7. /\ Parse(v).ok <=> ValidHost(b \o z)
      /\ Parse(v).scheme = <<s>> /\ Parse(v).host = b \o z /\ Parse(v).query = Onward(t, "?")
  <2>1. v = <<s, "://">> \o (b \o t)
    BY <1>2
  <2> HIDE DEF b
  <2> QED
    BY <1>5, <2>1, HostContinues
<1> DEFINE named == Parse(<<s, "://", "host">> \o t)
<1>8. /\ named.ok <=> ValidHost(m \o z)
      /\ named.scheme = <<s>> /\ named.host = m \o z /\ named.query = Onward(t, "?")
  <2>1. <<s, "://", "host">> \o t = <<s, "://">> \o (m \o t)
    BY NameInPlace
  <2>2. m \in URL /\ Lacks(m, "/") /\ Lacks(m, "?")
    BY <1>3, <1>4
  <2> HIDE DEF m, named
  <2>3. named = Parse(<<s, "://">> \o (m \o t))
    BY <2>1 DEF named
  <2> QED
    BY <2>2, <2>3, HostContinues
<1>9. named.ok
  <2>1. ValidHost(b \o z)
    BY <1>1, <1>7
  <2> HIDE DEF z
  <2>2. ValidHost(m \o z)
    BY <1>2, <1>6, <2>1, PortFollowsName
  <2> HIDE DEF named
  <2> QED
    BY <1>8, <2>2
<1>10. Tail(named.host) = z
  <2> HIDE DEF z
  <2>1. Tail(m \o z) = z
    BY <1>6, TailOfName
  <2> QED
    BY <1>8, <2>1
<1> HIDE DEF named, z
<1>11. after.scheme = <<s>> /\ after.host = b \o z /\ after.query = Onward(t, "?")
  <2>1. Parse(v).ok /\ Parse(v).scheme # <<>>
    <3>1. Len(<<s>>) = 1 /\ Len(<<>>) = 0
      BY Tokens, NamesAreTokens
    <3> QED
      BY <1>1, <1>7, <3>1
  <2>2. after = Stripped(Parse(v))
    BY <2>1, StrippedReads DEF v, after
  <2> HIDE DEF b
  <2> QED
    BY <1>1, <1>7, <2>1, <2>2, StrippedKeeps
<1>12. SubSeq(u, 3, i - 1) = a /\ From(u, i) = t /\ u[1] = s /\ u[2] = "://"
       /\ i \in DOMAIN u /\ u[i] = ":"
  <2> HIDE DEF p
  <2>1. Between(p, a, t) /\ u = p \o (a \o t)
    BY <1>2, <1>3, Middle DEF p
  <2>2. SubSeq(u, Len(p) + 1, Len(p) + Len(a)) = a /\ From(u, Len(p) + Len(a) + 1) = t
    BY <2>1 DEF Between
  <2>3. /\ x \in URL /\ Len(x) = Len(a) + Len(t) /\ Len(a) \in Nat /\ Len(t) \in Nat
        /\ \A j \in 1..Len(t) : x[Len(a) + j] = t[j]
        /\ Len(t) # 0
    BY <1>2, Joins, Lengths
  <2>4. u = p \o x
    BY <2>1
  <2> HIDE DEF x
  <2>5. /\ Len(u) = Len(p) + Len(x) /\ DOMAIN u = 1..Len(u)
        /\ \A j \in 1..Len(p) : u[j] = p[j]
        /\ \A j \in 1..Len(x) : u[Len(p) + j] = x[j]
    <3>1. p \in URL /\ x \in URL
      BY <1>3, <2>3
    <3>2. /\ Len(p \o x) = Len(p) + Len(x)
          /\ \A j \in 1..Len(p) : (p \o x)[j] = p[j]
          /\ \A j \in 1..Len(x) : (p \o x)[Len(p) + j] = x[j]
      BY <3>1, Joins
    <3>3. DOMAIN u = 1..Len(u)
      BY Lengths
    <3> QED
      BY <2>4, <3>2, <3>3
  <2>6. x[Len(a) + 1] = ":" /\ Len(a) + 1 \in 1..Len(x)
    BY <1>2, <2>3
  <2>7. u[Len(p) + (Len(a) + 1)] = ":"
    BY <2>5, <2>6
  <2>8. Len(p) + (Len(a) + 1) = i /\ i - 1 = Len(p) + Len(a) /\ Len(p) + 1 = 3 /\ i \in 1..Len(u)
    BY <1>3, <2>3, <2>5
  <2>9. u[1] = s /\ u[2] = "://"
    BY <1>3, <2>5
  <2> HIDE DEF i
  <2>10. SubSeq(u, 3, i - 1) = a
    BY <2>2, <2>8
  <2>11. From(u, i) = t
    BY <2>2 DEF i
  <2> QED
    BY <2>5, <2>7, <2>8, <2>9, <2>10, <2>11
<1> HIDE DEF i
<1>13. /\ u[2] = "://" /\ IsLiteral(SubSeq(u, 3, i - 1)) /\ u[i] = ":"
       /\ Parse(<<u[1], "://", "host">> \o From(u, i)) = named
  BY <1>2, <1>12 DEF named
<1>14. after.host = <<"[">> \o SubSeq(u, 3, i - 1) \o <<"]">> \o Tail(named.host)
  BY <1>10, <1>11, <1>12
<1> HIDE DEF b, m
<1>15. after.scheme = named.scheme /\ after.query = named.query
  BY <1>8, <1>11
<1> QED
  BY <1>9, <1>12, <1>13, <1>14, <1>15 DEF after

-----------------------------------------------------------------------------
(* The theorems *)

\* Where the rewriting stands.
Progress ==
  /\ raw \in URL
  /\ pc \in {"given", "normalized", "stored"}
  /\ pc = "given" => url = raw
  /\ pc = "normalized" => url = NormalizeHTTPURL(raw)
  /\ pc = "stored" => url = IgnitionEndpointURLForACI(raw)

LEMMA EndpointsAreURLs ==
  HostPorts \subseteq URL /\ Tails \subseteq URL
<1> DEFINE T == {"14", "31187", "fd2e", "host", ":", "[", "]", "1.2.3.4", "://", "https",
                 "/", "?", "ignition", "config", "query"}
<1>1. T \subseteq Token
  BY DEF Token, Words, Numbers, Groups, Names
<1>2. Tails \subseteq URL
  <2>1. Tails \subseteq Seq(T)
    BY DEF Tails
  <2> QED
    BY <1>1, <2>1 DEF URL
<1>3. Ports \subseteq URL
  <2>1. Ports \subseteq Seq(T)
    BY DEF Ports
  <2> QED
    BY <1>1, <2>1 DEF URL
<1>4. \A n : ColonForms(n) \subseteq URL
  <2> SUFFICES ASSUME NEW n, NEW s \in ColonForms(n) PROVE s \in URL
    OBVIOUS
  <2>1. s \in SeqOf(Words \union {":"}, n)
    BY DEF ColonForms
  <2>2. PICK m \in 0..n : s \in [1..m -> Words \union {":"}]
    BY <2>1 DEF SeqOf
  <2>3. Words \union {":"} \subseteq Token
    BY DEF Token
  <2>4. m \in Nat /\ s \in [1..m -> Token]
    BY <2>2, <2>3
  <2> QED
    BY <2>4 DEF URL
<1>5. \A k \in 7..9 : FullLength(k) \in URL
  <2> SUFFICES ASSUME NEW k \in 7..9 PROVE FullLength(k) \in URL
    OBVIOUS
  <2>1. 2 * k - 1 \in Nat /\ "14" \in Token /\ ":" \in Token
    BY <1>1
  <2>2. FullLength(k) \in [1..2 * k - 1 -> Token]
    BY <2>1 DEF FullLength
  <2> QED
    BY <2>1, <2>2 DEF URL
<1>6. <<"[">> \in URL /\ <<"]">> \in URL /\ <<"1.2.3.4">> \in URL
  BY <1>1, Tokens
<1>7. ASSUME NEW x \in HostPorts
      PROVE  x \in URL
  <2> DEFINE A == ColonForms(MaxColonForm)
             B == {FullLength(k) \o p : k \in 7..9, p \in Ports}
             C == {<<"[">> \o h \o <<"]">> \o p : h \in ColonForms(MaxBracketed), p \in Ports}
             D == {<<"1.2.3.4">> \o p : p \in Ports}
  <2>1. CASE x \in A
    BY <1>4, <2>1
  <2>2. CASE x \in B
    <3>1. PICK k \in 7..9, p \in Ports : x = FullLength(k) \o p
      BY <2>2, SMTT(60)
    <3> DEFINE f == FullLength(k)
    <3>2. f \in URL /\ p \in URL /\ x = f \o p
      BY <1>3, <1>5, <3>1
    <3> HIDE DEF f
    <3> QED
      BY <3>2, Joins
  <2>3. CASE x \in C
    <3>1. PICK h \in ColonForms(MaxBracketed), p \in Ports : x = <<"[">> \o h \o <<"]">> \o p
      BY <2>3
    <3> DEFINE o == <<"[">>
               c == <<"]">>
               y == o \o h
               z == y \o c
    <3>2. h \in URL /\ p \in URL /\ o \in URL /\ c \in URL
      BY <1>3, <1>4, <1>6
    <3>3. x = z \o p
      BY <3>1
    <3> HIDE DEF o, c
    <3>4. y \in URL
      BY <3>2, Joins
    <3> HIDE DEF y
    <3>5. z \in URL
      BY <3>2, <3>4, Joins
    <3> HIDE DEF z
    <3> QED
      BY <3>2, <3>3, <3>5, Joins
  <2>4. CASE x \in D
    <3> DEFINE a == <<"1.2.3.4">>
    <3>1. PICK p \in Ports : x = a \o p
      BY <2>4
    <3>2. a \in URL
      BY <1>6
    <3> HIDE DEF a
    <3> QED
      BY <1>3, <3>1, <3>2, Joins
  <2>5. HostPorts = A \union B \union C \union D
    BY DEF HostPorts
  <2> HIDE DEF A, B, C, D
  <2> QED
    BY <2>1, <2>2, <2>3, <2>4, <2>5
<1> QED
  BY <1>2, <1>7

LEMMA InitProgress == Init => Progress
<1> SUFFICES ASSUME Init PROVE Progress
  OBVIOUS
<1>1. PICK s \in {<<>>, <<"://">>, <<"https", "://">>}, h \in HostPorts, t \in Tails :
        raw = s \o h \o t
  BY DEF Init
<1>2. s \in URL /\ h \in URL /\ t \in URL
  <2>1. "https" \in Token /\ "://" \in Token
    BY NamesAreTokens DEF Names
  <2>2. s \in URL
    BY <2>1, Tokens
  <2> QED
    BY <2>2, EndpointsAreURLs
<1> DEFINE x == s \o h
<1>3. x \in URL
  BY <1>2, Joins
<1> HIDE DEF x
<1>4. raw \in URL
  <2>1. raw = x \o t
    BY <1>1 DEF x
  <2> QED
    BY <1>2, <1>3, <2>1, Joins
<1> QED
  BY <1>4 DEF Init, Progress

LEMMA NextProgress == Progress /\ [Next]_vars => Progress'
<1> SUFFICES ASSUME Progress, [Next]_vars PROVE Progress'
  OBVIOUS
<1>1. CASE Normalize
  BY <1>1 DEF Normalize, Progress
<1>2. CASE Store
  BY <1>2 DEF Store, Progress
<1>3. CASE UNCHANGED vars
  BY <1>3 DEF vars, Progress
<1> QED
  BY <1>1, <1>2, <1>3 DEF Next

LEMMA AlwaysProgress == Spec => []Progress
BY InitProgress, NextProgress, PTL DEF Spec

\* ignition_endpoint.go: whatever the bounds, an IPv6 address and a port without
\* brackets are read out of the URL in the AgentClusterInstall as they were written,
\* with the query.  The last colon before the first slash is the one that begins the
\* port, since an address has no slash and a port no colon, and the URL with
\* brackets is one url.Parse takes apart at the same places.
THEOREM LiteralsAreKept == Spec => []LiteralEndpointKept
<1>1. Progress => LiteralEndpointKept
  <2>1. SUFFICES ASSUME Progress, pc = "stored",
                      NEW i \in DOMAIN raw, NEW n \in Numbers,
                      i > 3, i < Len(raw), raw[1] \in Names, raw[2] = "://",
                      IsLiteral(SubSeq(raw, 3, i - 1)), raw[i] = ":", raw[i + 1] = n,
                      From(raw, i + 2) = <<>> \/ From(raw, i + 2)[1] \in {"/", "?"},
                      \A k \in DOMAIN From(raw, i + 2) :
                        From(raw, i + 2)[k] = ":"
                          => \E l \in 1..k - 1 : From(raw, i + 2)[l] = "/"
               PROVE  /\ Parse(url).ok
                      /\ Parse(url).scheme = <<raw[1]>>
                      /\ Parse(url).host =
                           <<"[">> \o SubSeq(raw, 3, i - 1) \o <<"]", ":", n>>
                      /\ Parse(url).query = Parse(<<"host">> \o From(raw, i + 2)).query
    BY DEF LiteralEndpointKept
  <2> DEFINE s == raw[1]
             a == SubSeq(raw, 3, i - 1)
             t == From(raw, i + 2)
  <2>2. raw \in URL /\ url = IgnitionEndpointURLForACI(raw) /\ i \in 1..Len(raw)
    BY <2>1, Lengths DEF Progress
  <2>3. a \in URL /\ t \in URL /\ raw = <<s, "://">> \o ((a \o <<":", n>>) \o t)
    BY <2>1, <2>2, EndpointForm
  <2>4. /\ s \in Names /\ IsLiteral(a) /\ (t = <<>> \/ t[1] \in {"/", "?"})
        /\ \A k \in DOMAIN t : t[k] = ":" => \E l \in 1..k - 1 : t[l] = "/"
    BY <2>1
  <2> HIDE DEF s, a, t
  <2>5. Lacks(Upto(t, "/"), ":")
    BY <2>3, <2>4, TailLacksColon
  <2>6. LET after == Parse(IgnitionEndpointURLForACI(raw)) IN
        /\ after.ok /\ after.scheme = <<s>> /\ after.host = InBrackets(a, n)
        /\ after.query = Onward(t, "?")
    <3>1. a \in URL /\ t \in URL
      BY <2>3
    <3>2. LET u == <<s, "://">> \o ((a \o <<":", n>>) \o t)
              after == Parse(IgnitionEndpointURLForACI(u))
          IN /\ after.ok /\ after.scheme = <<s>> /\ after.host = InBrackets(a, n)
             /\ after.query = Onward(t, "?")
      BY <2>4, <2>5, <3>1, LiteralKept
    <3> QED
      BY <2>3, <3>2
  <2>7. <<"[">> \o a \o <<"]", ":", n>> = InBrackets(a, n)
    BY <2>3, BracketsAsWritten
  <2>8. Parse(<<"host">> \o t).query = Onward(t, "?")
    BY <2>3, QueryOfTail
  <2> QED
    BY <2>2, <2>6, <2>7, <2>8 DEF s, a, t
<1> QED
  BY <1>1, AlwaysProgress, PTL

\* ignition_endpoint.go: whatever the bounds, a URL that can be read is not
\* rewritten but for its path, and URL.String writes what url.Parse reads back.
THEOREM ReadablesAreKept == Spec => []ReadableEndpointKept
<1>1. Progress => ReadableEndpointKept
  <2> SUFFICES ASSUME raw \in URL, url = IgnitionEndpointURLForACI(raw), Parse(raw).ok
               PROVE  /\ Parse(url).ok
                      /\ Parse(url).scheme = Parse(raw).scheme
                      /\ Parse(url).opaque = Parse(raw).opaque
                      /\ Parse(url).host = Parse(raw).host
                      /\ Parse(url).query = Parse(raw).query
    BY DEF Progress, ReadableEndpointKept
  <2> QED
    BY ReadableKept
<1> QED
  BY <1>1, AlwaysProgress, PTL

\* ignition_endpoint.go: whatever the bounds, a URL that cannot be read and can be
\* afterwards is a scheme, an IPv6 address and a colon, and what follows; and it
\* reads as it does with a name in place of the address.  Were there anything but a
\* scheme before the first "://", what normalizeHTTPURL changes behind it would not
\* make the URL readable; and what net/url takes for a port behind a bracket it
\* takes for one behind a name.
THEOREM OnlyLiteralsRead == Spec => []OnlyLiteralsBecomeReadable
<1>1. Progress => OnlyLiteralsBecomeReadable
  <2> SUFFICES ASSUME raw \in URL, url = IgnitionEndpointURLForACI(raw),
                      ~Parse(raw).ok, Parse(url).ok
               PROVE  \E i \in DOMAIN raw :
                        LET address == SubSeq(raw, 3, i - 1)
                            named == Parse(<<raw[1], "://", "host">> \o From(raw, i))
                        IN /\ raw[2] = "://" /\ IsLiteral(address) /\ raw[i] = ":" /\ named.ok
                           /\ Parse(url).scheme = named.scheme
                           /\ Parse(url).host = <<"[">> \o address \o <<"]">> \o Tail(named.host)
                           /\ Parse(url).query = named.query
    BY DEF Progress, OnlyLiteralsBecomeReadable
  <2> QED
    BY ReadAsNamed
<1> QED
  BY <1>1, AlwaysProgress, PTL

\* ignition_endpoint.go: whatever the bounds, preparing a URL a second time changes
\* nothing: a bracket after "://" stops normalizeHTTPURL, and a URL without a path
\* is written as it was read.
THEOREM StoredIsFinal == Spec => []StoredForGood
<1>1. Progress => StoredForGood
  BY PreparedOnce DEF Progress, StoredForGood
<1> QED
  BY <1>1, AlwaysProgress, PTL

=============================================================================
