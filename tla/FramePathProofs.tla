-------------------------- MODULE FramePathProofs --------------------------
(***************************************************************************)
(* Proofs about FramePath: a frame is given up exactly when it does not    *)
(* fit, a printed frame is read back as it was measured, and a cut one is  *)
(* refused, for all sizes of buffers and paddings and all numbers.         *)
(***************************************************************************)
EXTENDS FramePath, FiniteSetTheorems, SequenceTheorems, NaturalsInduction, WellFoundedInduction, TLAPS

(***************************************************************************)
(* The text.                                                               *)
(***************************************************************************)
Tags == {"riot", "contiki-ng", "x"}
Strings == KnownKeys \cup {"os", "pad"} \cup Tags \cup Roles \cup {"DETACHED"}
Token == {Punct(c) : c \in {"brace", "endbrace", "bracket", "endbracket", "comma", "colon"}} \cup {Str(s) : s \in Strings}
         \cup {Num(n) : n \in Int \cup KnownKeys \cup (ArrayKeys \X {1, 2, 3})}

(* A member begins where a string is followed by a colon; its value has    *)
(* one token, or the seven of an array; the next member is behind a comma. *)
Mem(s) == {m \in 1..(Len(s) - 1) : s[m].t = "str" /\ s[m + 1].t = "colon"}
Width(key) == IF key \in ArrayKeys THEN 7 ELSE 1
After(s, m) == m + 2 + Width(s[m].v)
ValueAt(s, m) == [i \in 1..Width(s[m].v) |-> s[m + 1 + i]]

RoleText(f) == IF f.role = "" THEN "DETACHED" ELSE f.role
Number(f, key) == IF key = "ts" THEN f.ts ELSE IF key = "t_active_ms" THEN f.active ELSE key
Array(key) == <<Punct("bracket"), Num(<<key, 1>>), Punct("comma"), Num(<<key, 2>>),
                Punct("comma"), Num(<<key, 3>>), Punct("endbracket")>>

(* What an encoder writes under a key.                                     *)
Written(f, key, w) ==
    /\ key \in KnownKeys \cup {"os", "pad"}
    /\ key \in ArrayKeys => w = Array(key)
    /\ key \in NumberKeys => w = <<Num(Number(f, key))>>
    /\ key = "src" => w = <<Str("src")>>
    /\ key = "role" => w = <<Str(RoleText(f))>>
    /\ key \in {"os", "pad"} => \E tag \in Tags : w = <<Str(tag)>>

(* A token of the value under a key: no colon and no brace, and no other key. *)
ValueToken(key, x) ==
    /\ x.t # "colon" /\ x.t # "endbrace"
    /\ \A k \in KnownKeys : x = Str(k) => k = key

(* A brace and members, each with the value the encoder writes.            *)
MemberIn(f, s, m) ==
    /\ Written(f, s[m].v, ValueAt(s, m))
    /\ After(s, m) <= Len(s) + 1
    /\ After(s, m) <= Len(s) => s[After(s, m)].t = "comma" /\ After(s, m) + 1 \in Mem(s)
Body(f, s) ==
    /\ s \in Seq(Token)
    /\ s # <<>> /\ s[1].t = "brace" /\ 2 \in Mem(s)
    /\ \A m \in Mem(s) : MemberIn(f, s, m)
    /\ \A i \in 1..Len(s) : s[i].t # "endbrace"
Fields(s) == {s[m].v : m \in Mem(s)} \cap KnownKeys

(* Text that may follow such a body, and adds the fields it names.         *)
Continues(f, s) ==
    /\ s \in Seq(Token)
    /\ \A b : Body(f, b) => Body(f, b \o s) /\ Fields(b \o s) = Fields(b) \cup KeysOf(s)

(* A piece of text after the first, and the pieces an encoder appends.     *)
Part(f) == {q \in [least : Nat, most : Nat, tokens : Seq(Token)] : Continues(f, q.tokens)}
Opening(f, q) ==
    /\ q \in [least : Nat, most : Nat, tokens : Seq(Token)]
    /\ Body(f, q.tokens) /\ Fields(q.tokens) = KeysOf(q.tokens)
InPieces(f, s) ==
    /\ s \in Seq([least : Nat, most : Nat, tokens : Seq(Token)]) /\ Len(s) >= 1
    /\ Opening(f, s[1])
    /\ \A i \in 2..Len(s) : s[i] \in Part(f)

(* The frame of a build.                                                   *)
IsFrame(f) ==
    /\ f.node \in {"zephyr", "riot", "contiki"}
    /\ f.buf \in Nat /\ f.pad \in Nat /\ f.extra \in Nat
    /\ f.node = "zephyr" => f.buf >= 2
    /\ f.role \in Roles
    /\ f.node # "zephyr" => f.role = "SED"
    /\ f.ts \in Int /\ f.active \in Int

-----------------------------------------------------------------------------
(* The keys are strings, and the roles and tags are none of them.          *)
LEMMA KeyFacts ==
    /\ \A k \in KnownKeys \cup {"os", "pad"} :
          \/ k \in ArrayKeys /\ k \notin NumberKeys /\ k \notin {"src", "role", "os", "pad"}
          \/ k \in NumberKeys /\ k \notin ArrayKeys /\ k \notin {"src", "role", "os", "pad"}
          \/ k \in {"src", "role", "os", "pad"} /\ k \notin ArrayKeys /\ k \notin NumberKeys
    /\ \A tag \in Tags : tag \notin KnownKeys
    /\ \A f : f.role \in Roles => RoleText(f) \notin KnownKeys /\ RoleText(f) \in Strings
  BY DEF KnownKeys, NumberKeys, StringKeys, ArrayKeys, LongKeys, Tags, RoleText, Roles, Strings

(* A sequence of one element, and one of seven.                            *)
LEMMA OneElement ==
    ASSUME NEW S, NEW a \in S
    PROVE  <<a>> \in Seq(S) /\ Len(<<a>>) = 1 /\ <<a>>[1] = a
  OBVIOUS

LEMMA ThreeElements ==
    ASSUME NEW S, NEW a \in S, NEW b \in S, NEW c \in S, NEW w, w = <<a, b, c>>
    PROVE  w \in Seq(S) /\ Len(w) = 3 /\ w[1] = a /\ w[2] = b /\ w[3] = c
  OBVIOUS

LEMMA SevenElements ==
    ASSUME NEW S, NEW a \in S, NEW b \in S, NEW c \in S, NEW d \in S, NEW e \in S,
           NEW g \in S, NEW h \in S, NEW w, w = <<a, b, c, d, e, g, h>>
    PROVE  w \in Seq(S) /\ Len(w) = 7 /\ \A i \in 1..7 : w[i] \in {a, b, c, d, e, g, h}
  OBVIOUS

(* The value under a key is one token, or seven: none of them a colon or a *)
(* closing brace, and the only string in it is no key but "src".           *)
LEMMA WrittenFacts ==
    ASSUME NEW f, IsFrame(f), NEW key, NEW w, Written(f, key, w)
    PROVE  /\ key \in Strings
           /\ w \in Seq(Token) /\ Len(w) = Width(key)
           /\ \A i \in 1..Width(key) : ValueToken(key, w[i])
<1>1. CASE key \in ArrayKeys
  <2>1. w = Array(key) /\ key \in Strings /\ Width(key) = 7
    BY <1>1 DEF Written, Width, Strings, KnownKeys
  <2>2. /\ Punct("bracket") \in Token /\ Punct("comma") \in Token /\ Punct("endbracket") \in Token
        /\ Num(<<key, 1>>) \in Token /\ Num(<<key, 2>>) \in Token /\ Num(<<key, 3>>) \in Token
    BY <1>1 DEF Token
  <2>3. /\ w \in Seq(Token) /\ Len(w) = 7
        /\ \A i \in 1..7 : w[i] \in {Punct("bracket"), Num(<<key, 1>>), Punct("comma"), Num(<<key, 2>>),
                                     Punct("comma"), Num(<<key, 3>>), Punct("endbracket")}
    <3>1. w = <<Punct("bracket"), Num(<<key, 1>>), Punct("comma"), Num(<<key, 2>>),
                Punct("comma"), Num(<<key, 3>>), Punct("endbracket")>>
      BY <2>1 DEF Array
    <3> HIDE DEF Array
    <3>2. w \in Seq(Token)
      <4> DEFINE x == Num(<<key, 1>>)  y == Num(<<key, 2>>)  z == Num(<<key, 3>>)
      <4>1. x \in Token /\ y \in Token /\ z \in Token
        BY <2>2
      <4>2. w = <<Punct("bracket"), x, Punct("comma"), y, Punct("comma"), z, Punct("endbracket")>>
        BY <3>1
      <4> HIDE DEF x, y, z
      <4> QED
        BY <2>2, <4>1, <4>2, SevenElements
    <3>3. Len(w) = 7
      BY <3>1
    <3>4. \A i \in 1..7 : i = 1 \/ i = 2 \/ i = 3 \/ i = 4 \/ i = 5 \/ i = 6 \/ i = 7
      OBVIOUS
    <3>5. /\ w[1] = Punct("bracket") /\ w[2] = Num(<<key, 1>>) /\ w[3] = Punct("comma")
          /\ w[4] = Num(<<key, 2>>) /\ w[5] = Punct("comma") /\ w[6] = Num(<<key, 3>>)
          /\ w[7] = Punct("endbracket")
      BY <3>1
    <3> QED
      BY <3>2, <3>3, <3>4, <3>5
  <2>4. \A i \in 1..7 : w[i].t \in {"bracket", "endbracket", "comma", "num"}
    <3>1. \A c, n : Punct(c).t = c /\ Num(n).t = "num"
      BY DEF Punct, Num
    <3> QED
      BY <2>3, <3>1
  <2>5. \A k : Str(k).t = "str"
    BY DEF Str
  <2> QED
    BY <2>1, <2>3, <2>4, <2>5 DEF ValueToken
<1>2. CASE key \in NumberKeys
  <2>1. w = <<Num(Number(f, key))>> /\ key \in Strings /\ Width(key) = 1
    BY <1>2, KeyFacts DEF Written, Width, Strings, KnownKeys
  <2>2. Num(Number(f, key)) \in Token
    BY <1>2, <2>1 DEF Number, Token, IsFrame, KnownKeys
  <2>3. w \in Seq(Token) /\ Len(w) = 1 /\ w[1] = Num(Number(f, key))
    BY <2>1, <2>2, OneElement
  <2>4. \A n, k : Num(n).t = "num" /\ Str(k).t = "str"
    BY DEF Num, Str
  <2>5. \A i \in 1..Len(w) : w[i] = Num(Number(f, key))
    BY <2>3
  <2> QED
    BY <2>1, <2>3, <2>4, <2>5 DEF ValueToken
<1>3. CASE key \in {"src", "role", "os", "pad"}
  <2>1. PICK x : w = <<Str(x)>> /\ x \in Strings /\ (x \in KnownKeys => x = key)
    BY <1>3, KeyFacts DEF Written, Strings, IsFrame
  <2>2. Width(key) = 1 /\ key \in Strings
    BY <1>3, KeyFacts DEF Width, Strings, KnownKeys, StringKeys, ArrayKeys
  <2>3. Str(x) \in Token /\ Str(x).t = "str" /\ \A k : Str(x) = Str(k) => x = k
    BY <2>1 DEF Token, Str
  <2>4. w \in Seq(Token) /\ Len(w) = 1 /\ w[1] = Str(x)
    BY <2>1, <2>3, OneElement
  <2>5. \A i \in 1..Len(w) : w[i] = Str(x)
    BY <2>4
  <2> QED
    BY <2>1, <2>2, <2>3, <2>4, <2>5 DEF ValueToken
<1> QED
  BY <1>1, <1>2, <1>3, KeyFacts DEF Written

(* A member of the text begins with a comma, its key and a colon.          *)
LEMMA MemberShape ==
    ASSUME NEW f, IsFrame(f), NEW key, NEW w, Written(f, key, w),
           NEW s, s = Member(key, w)
    PROVE  /\ s \in Seq(Token) /\ Len(s) = 3 + Width(key)
           /\ s[1] = Punct("comma") /\ s[2] = Str(key) /\ s[3] = Punct("colon")
           /\ \A i \in 1..Width(key) : s[3 + i] = w[i]
<1>0. /\ key \in Strings
      /\ w \in Seq(Token) /\ Len(w) = Width(key)
  BY WrittenFacts, Zenon
<1>1. Punct("comma") \in Token /\ Str(key) \in Token /\ Punct("colon") \in Token
  BY <1>0 DEF Token
<1>2. PICK lead : lead = <<Punct("comma"), Str(key), Punct("colon")>>
  OBVIOUS
<1>3. /\ lead \in Seq(Token) /\ Len(lead) = 3
      /\ lead[1] = Punct("comma") /\ lead[2] = Str(key) /\ lead[3] = Punct("colon")
  BY <1>1, <1>2, ThreeElements
<1>4. s = lead \o w
  BY <1>2 DEF Member
<1>5. Width(key) \in Nat
  BY DEF Width
<1>6. /\ s \in Seq(Token) /\ Len(s) = 3 + Width(key)
      /\ \A i \in 1..(3 + Width(key)) : s[i] = IF i <= 3 THEN lead[i] ELSE w[i - 3]
  <2>1. /\ lead \o w \in Seq(Token) /\ Len(lead \o w) = Len(lead) + Len(w)
        /\ \A i \in 1..(Len(lead) + Len(w)) :
              (lead \o w)[i] = IF i <= Len(lead) THEN lead[i] ELSE w[i - Len(lead)]
    BY <1>0, <1>3, ConcatProperties
  <2> QED
    BY <1>0, <1>3, <1>4, <2>1
<1>7. s[1] = Punct("comma") /\ s[2] = Str(key) /\ s[3] = Punct("colon")
  BY <1>3, <1>5, <1>6
<1>8. \A i \in 1..Width(key) : s[3 + i] = w[i]
  BY <1>5, <1>6
<1> QED
  BY <1>6, <1>7, <1>8

LEMMA MemberKeys ==
    ASSUME NEW f, IsFrame(f), NEW key, NEW w, Written(f, key, w)
    PROVE  KeysOf(Member(key, w)) = {key} \cap KnownKeys
<1>1. PICK s : s = Member(key, w)
  OBVIOUS
<1>2. /\ Len(s) = 3 + Width(key)
      /\ s[1] = Punct("comma") /\ s[2] = Str(key) /\ s[3] = Punct("colon")
      /\ \A i \in 1..Width(key) : s[3 + i] = w[i]
  BY <1>1, MemberShape
<1>3. \A i \in 1..Width(key) : ValueToken(key, w[i])
  BY WrittenFacts, Zenon
<1>4. Width(key) \in Nat
  BY DEF Width
<1>5. \A k : Punct("comma") # Str(k) /\ Punct("colon") # Str(k) /\ (Str(key) = Str(k) => k = key)
  BY DEF Punct, Str
<1>6. ASSUME NEW k \in KnownKeys, NEW i \in 1..Len(s), s[i] = Str(k) PROVE k = key
  <2>1. CASE i \in {1, 2, 3}
    BY <2>1, <1>2, <1>5, <1>6
  <2>2. CASE i > 3
    <3>1. i - 3 \in 1..Width(key) /\ s[3 + (i - 3)] = s[i]
      BY <2>2, <1>2, <1>4, <1>6
    <3>2. w[i - 3] = Str(k) /\ ValueToken(key, w[i - 3])
      BY <3>1, <1>2, <1>3, <1>6
    <3> QED
      BY <3>2 DEF ValueToken
  <2> QED
    BY <2>1, <2>2, <1>2, <1>4
<1>7. 2 \in 1..Len(s)
  BY <1>2, <1>4
<1> QED
  BY <1>1, <1>2, <1>6, <1>7 DEF KeysOf

(* A text that is appended keeps what was there.                           *)
LEMMA Appended ==
    ASSUME NEW S, NEW a \in Seq(S), NEW b \in Seq(S), NEW u, u = a \o b
    PROVE  /\ u \in Seq(S) /\ Len(u) = Len(a) + Len(b)
           /\ \A i \in 1..Len(a) : u[i] = a[i]
           /\ \A i \in 1..Len(b) : u[Len(a) + i] = b[i]
  OBVIOUS

(* A body keeps being one when a member follows it.                        *)
LEMMA MemberContinues ==
    ASSUME NEW f, IsFrame(f), NEW key, NEW w, Written(f, key, w)
    PROVE  Continues(f, Member(key, w))
<1>1. PICK s : s = Member(key, w)
  OBVIOUS
<1>2. /\ s \in Seq(Token) /\ Len(s) = 3 + Width(key)
      /\ s[1] = Punct("comma") /\ s[2] = Str(key) /\ s[3] = Punct("colon")
      /\ \A i \in 1..Width(key) : s[3 + i] = w[i]
  BY <1>1, MemberShape
<1>3. /\ w \in Seq(Token) /\ Len(w) = Width(key)
      /\ \A i \in 1..Width(key) : ValueToken(key, w[i])
  BY WrittenFacts, Zenon
<1>4. Width(key) \in Nat /\ Width(key) >= 1
  BY DEF Width
<1>5. ASSUME NEW b, Body(f, b), NEW u, u = b \o s
      PROVE  Body(f, u) /\ Fields(u) = Fields(b) \cup KeysOf(s)
  <2> DEFINE n == Len(b)
  <2>1. b \in Seq(Token) /\ n \in Nat /\ n >= 1
    BY <1>5 DEF Body
  <2>2. /\ u \in Seq(Token) /\ Len(u) = n + 3 + Width(key)
        /\ \A i \in 1..n : u[i] = b[i]
        /\ \A i \in 1..Len(s) : u[n + i] = s[i]
    <3>0. b \in Seq(Token) /\ s \in Seq(Token)
      BY <1>2, <2>1
    <3>1. Len(u) = n + Len(s)
      BY <3>0, <1>5
    <3> QED
      BY <1>2, <1>4, <1>5, <2>1, <3>1, Appended
  <2>3. /\ u[n + 1].t = "comma" /\ u[n + 2].t = "str" /\ u[n + 2].v = key
        /\ u[n + 3].t = "colon"
    BY <1>2, <1>4, <2>2 DEF Punct, Str
  <2>4. \A i \in 1..Width(key) : u[n + 3 + i] = w[i]
    <3>1. ASSUME NEW i \in 1..Width(key) PROVE u[n + 3 + i] = w[i]
      <4>1. 3 + i \in 1..Len(s) /\ n + (3 + i) = n + 3 + i
        BY <1>2, <1>4, <2>1
      <4> QED
        BY <4>1, <1>2, <2>2
    <3> QED
      BY <3>1
  <2>5. Mem(u) = Mem(b) \cup {n + 2}
    <3>1. ASSUME NEW m \in Mem(b) PROVE m \in Mem(u)
      <4>1. m \in 1..n /\ m + 1 \in 1..n /\ m \in 1..(n + 2 + Width(key))
        BY <2>1, <1>4 DEF Mem
      <4>2. u[m] = b[m] /\ u[m + 1] = b[m + 1]
        BY <4>1, <2>2
      <4> QED
        BY <4>1, <4>2, <2>1, <2>2, <1>4 DEF Mem
    <3>2. n + 2 \in Mem(u)
      BY <2>1, <2>2, <2>3, <1>4 DEF Mem
    <3>3. ASSUME NEW m \in Mem(u) PROVE m \in Mem(b) \cup {n + 2}
      <4>1. m \in 1..(n + 2 + Width(key)) /\ u[m].t = "str" /\ u[m + 1].t = "colon"
        BY <2>1, <2>2, <1>4 DEF Mem
      <4>2. CASE m < n
        BY <4>1, <4>2, <2>1, <2>2 DEF Mem
      <4>3. CASE m = n \/ m = n + 1
        BY <4>1, <4>3, <2>1, <2>3
      <4>4. CASE m > n + 2
        <5>1. m - n - 2 \in 1..Width(key) /\ n + 3 + (m - n - 2) = m + 1
          BY <4>1, <4>4, <2>1, <1>4
        <5> QED
          BY <4>1, <5>1, <2>4, <1>3 DEF ValueToken
      <4> QED
        BY <4>1, <4>2, <4>3, <4>4, <2>1, <1>4
    <3> QED
      BY <3>1, <3>2, <3>3
  <2>6. ASSUME NEW m \in Mem(b) PROVE MemberIn(f, u, m)
    <3>1. MemberIn(f, b, m) /\ m \in 1..(n - 1) /\ Width(b[m].v) \in Nat
      BY <1>5 DEF Body, Mem, Width
    <3>2. u[m] = b[m] /\ After(u, m) = After(b, m) /\ After(b, m) <= n + 1
      BY <2>1, <2>2, <3>1 DEF MemberIn, After
    <3>3. ValueAt(u, m) = ValueAt(b, m)
      <4>1. ASSUME NEW i \in 1..Width(b[m].v) PROVE u[m + 1 + i] = b[m + 1 + i]
        BY SMTT(30), <2>1, <2>2, <3>1, <3>2 DEF After
      <4> QED
        BY <3>2, <4>1 DEF ValueAt
    <3>4. After(b, m) \in Nat /\ After(b, m) >= 1
      BY <3>1 DEF After
    <3>5. CASE After(b, m) <= n
      BY <3>1, <3>2, <3>3, <3>4, <3>5, <2>1, <2>2, <2>5, <1>4 DEF MemberIn
    <3>6. CASE After(b, m) = n + 1
      BY <3>1, <3>2, <3>3, <3>6, <2>1, <2>2, <2>3, <2>5, <1>4 DEF MemberIn
    <3> QED
      BY <3>2, <3>4, <3>5, <3>6, <2>1
  <2>7. MemberIn(f, u, n + 2)
    <3>1. ValueAt(u, n + 2) = [i \in 1..Width(key) |-> w[i]]
      <4>1. \A i \in 1..Width(key) : u[n + 2 + 1 + i] = w[i]
        BY <2>1, <2>4
      <4> QED
        BY <4>1, <2>3 DEF ValueAt
    <3>2. w = [i \in 1..Width(key) |-> w[i]]
      BY <1>3
    <3>3. After(u, n + 2) = Len(u) + 1
      BY <2>1, <2>2, <2>3, <1>4 DEF After
    <3>4. Len(u) \in Nat
      BY <2>2
    <3>5. Written(f, u[n + 2].v, ValueAt(u, n + 2))
      BY <3>1, <3>2, <2>3
    <3> QED
      BY <3>3, <3>4, <3>5 DEF MemberIn
  <2>8. \A i \in 1..Len(u) : u[i].t # "endbrace"
    <3>1. ASSUME NEW i \in 1..Len(u), i > n + 3 PROVE u[i].t # "endbrace"
      <4>1. i - n - 3 \in 1..Width(key) /\ n + 3 + (i - n - 3) = i
        BY <3>1, <2>1, <2>2, <1>4
      <4> QED
        BY <4>1, <2>4, <1>3 DEF ValueToken
    <3>2. \A i \in 1..n : u[i].t # "endbrace"
      BY <2>2, <1>5 DEF Body
    <3>3. \A i \in 1..Len(u) : i \in 1..n \/ i = n + 1 \/ i = n + 2 \/ i = n + 3 \/ i > n + 3
      BY <2>1, <2>2
    <3> QED
      BY <3>1, <3>2, <3>3, <2>3
  <2>9. Body(f, u)
    <3>1. u # <<>> /\ u[1].t = "brace" /\ 2 \in Mem(u)
      BY <1>5, <2>1, <2>2, <2>5, <1>4 DEF Body
    <3> QED
      BY <3>1, <2>2, <2>5, <2>6, <2>7, <2>8 DEF Body
  <2>10. Fields(u) = Fields(b) \cup ({key} \cap KnownKeys)
    <3>1. \A m \in Mem(b) : u[m] = b[m]
      BY <2>1, <2>2 DEF Mem
    <3> QED
      BY <3>1, <2>3, <2>5 DEF Fields
  <2> QED
    BY <2>9, <2>10, <1>1, MemberKeys
<1> QED
  BY <1>1, <1>2, <1>5 DEF Continues

(* What two texts name, they name together.                                *)
LEMMA KeysOfBoth ==
    ASSUME NEW a \in Seq(Token), NEW b \in Seq(Token)
    PROVE  KeysOf(a \o b) = KeysOf(a) \cup KeysOf(b)
<1>1. PICK u : u = a \o b
  OBVIOUS
<1>2. /\ Len(u) = Len(a) + Len(b)
      /\ \A i \in 1..Len(a) : u[i] = a[i]
      /\ \A i \in 1..Len(b) : u[Len(a) + i] = b[i]
  BY <1>1, Appended
<1>3. Len(a) \in Nat /\ Len(b) \in Nat
  OBVIOUS
<1>4. ASSUME NEW k, NEW i \in 1..Len(u), u[i] = Str(k)
      PROVE  \/ \E j \in 1..Len(a) : a[j] = Str(k)
             \/ \E j \in 1..Len(b) : b[j] = Str(k)
  <2>1. CASE i <= Len(a)
    BY <2>1, <1>2, <1>3, <1>4
  <2>2. CASE i > Len(a)
    <3>1. i - Len(a) \in 1..Len(b) /\ Len(a) + (i - Len(a)) = i
      BY <2>2, <1>2, <1>3
    <3> QED
      BY <3>1, <1>2, <1>4
  <2> QED
    BY <2>1, <2>2, <1>2, <1>3
<1>5. ASSUME NEW k, NEW j \in 1..Len(a), a[j] = Str(k)
      PROVE  \E i \in 1..Len(u) : u[i] = Str(k)
  <2>1. j \in 1..Len(u) /\ u[j] = a[j]
    BY <1>2, <1>3
  <2> QED
    BY <2>1, <1>5
<1>6. ASSUME NEW k, NEW j \in 1..Len(b), b[j] = Str(k)
      PROVE  \E i \in 1..Len(u) : u[i] = Str(k)
  <2>1. Len(a) + j \in 1..Len(u) /\ u[Len(a) + j] = b[j]
    BY <1>2, <1>3
  <2> QED
    BY <2>1, <1>6
<1> QED
  BY <1>1, <1>4, <1>5, <1>6 DEF KeysOf

(* Two texts that may follow a body may follow it together.                *)
LEMMA BothContinue ==
    ASSUME NEW f, NEW s, Continues(f, s), NEW r, Continues(f, r)
    PROVE  Continues(f, s \o r)
<1>1. s \in Seq(Token) /\ r \in Seq(Token) /\ s \o r \in Seq(Token)
  BY DEF Continues
<1>2. KeysOf(s \o r) = KeysOf(s) \cup KeysOf(r)
  BY <1>1, KeysOfBoth
<1>3. ASSUME NEW b, Body(f, b)
      PROVE  /\ Body(f, b \o (s \o r))
             /\ Fields(b \o (s \o r)) = Fields(b) \cup KeysOf(s \o r)
  <2>1. Body(f, b \o s) /\ Fields(b \o s) = Fields(b) \cup KeysOf(s)
    BY <1>3 DEF Continues
  <2>2. Body(f, (b \o s) \o r) /\ Fields((b \o s) \o r) = Fields(b \o s) \cup KeysOf(r)
    BY <2>1 DEF Continues
  <2>3. (b \o s) \o r = b \o (s \o r)
    BY SMTT(30), <1>1, <1>3, ConcatAssociative DEF Body
  <2> QED
    BY <2>1, <2>2, <2>3, <1>2, Zenon
<1> QED
  BY <1>1, <1>3 DEF Continues

(* The text of every frame begins with its time stamp.                     *)
LEMMA Beginning ==
    ASSUME NEW f, IsFrame(f), NEW s,
           s = <<Punct("brace"), Str("ts"), Punct("colon"), Num(f.ts)>>
    PROVE  Body(f, s) /\ Fields(s) = KeysOf(s)
<1>1. /\ Punct("brace") \in Token /\ Str("ts") \in Token /\ Punct("colon") \in Token
      /\ Num(f.ts) \in Token
  BY DEF Token, Strings, KnownKeys, NumberKeys, LongKeys, IsFrame
<1>2. /\ s \in Seq(Token) /\ Len(s) = 4
      /\ s[1] = Punct("brace") /\ s[2] = Str("ts") /\ s[3] = Punct("colon")
      /\ s[4] = Num(f.ts)
  <2>1. s \in Seq(Token)
    <3> DEFINE x == Num(f.ts)
    <3>1. x \in Token /\ s = <<Punct("brace"), Str("ts"), Punct("colon"), x>>
      BY <1>1
    <3> HIDE DEF x
    <3> QED
      BY <3>1, <1>1
  <2> QED
    BY <2>1
<1>3. /\ s[1].t = "brace" /\ s[2].t = "str" /\ s[2].v = "ts" /\ s[3].t = "colon"
      /\ s[4].t = "num"
  BY <1>2 DEF Punct, Str, Num
<1>4. Mem(s) = {2}
  BY <1>2, <1>3 DEF Mem
<1>5. Width("ts") = 1 /\ "ts" \in KnownKeys /\ "ts" \in NumberKeys
      /\ "ts" \notin ArrayKeys /\ "ts" \notin {"src", "role", "os", "pad"}
  BY DEF Width, ArrayKeys, KnownKeys, NumberKeys, LongKeys
<1>6. MemberIn(f, s, 2)
  <2>1. ValueAt(s, 2) = <<Num(Number(f, "ts"))>>
    <3>1. ValueAt(s, 2) = [i \in 1..1 |-> s[3 + i]]
      BY <1>3, <1>5 DEF ValueAt
    <3>2. Number(f, "ts") = f.ts
      BY DEF Number
    <3> QED
      BY <3>1, <3>2, <1>2
  <2>2. Written(f, "ts", ValueAt(s, 2))
    BY <2>1, <1>5 DEF Written
  <2>3. After(s, 2) = 5
    BY <1>3, <1>5 DEF After
  <2> QED
    BY <2>2, <2>3, <1>2, <1>3 DEF MemberIn
<1>7. Body(f, s)
  BY <1>2, <1>3, <1>4, <1>6 DEF Body
<1>8. Fields(s) = {"ts"}
  BY <1>3, <1>4, <1>5 DEF Fields
<1>9. KeysOf(s) = {"ts"}
  <2>1. \A k : s[1] # Str(k) /\ s[3] # Str(k) /\ s[4] # Str(k) /\ (s[2] = Str(k) <=> k = "ts")
    BY <1>2 DEF Punct, Str, Num
  <2>2. \A i \in 1..Len(s) : i = 1 \/ i = 2 \/ i = 3 \/ i = 4
    BY <1>2
  <2>3. 2 \in 1..Len(s)
    BY <1>2
  <2> QED
    BY <2>1, <2>2, <2>3, <1>5 DEF KeysOf
<1> QED
  BY <1>7, <1>8, <1>9

(* The text keeps naming the fields it holds.                              *)
LEMMA BodyGrows ==
    ASSUME NEW f, NEW a, Body(f, a), Fields(a) = KeysOf(a), NEW s, Continues(f, s)
    PROVE  Body(f, a \o s) /\ Fields(a \o s) = KeysOf(a \o s)
<1>1. a \in Seq(Token) /\ s \in Seq(Token)
  BY DEF Body, Continues
<1>2. KeysOf(a \o s) = KeysOf(a) \cup KeysOf(s)
  BY <1>1, KeysOfBoth
<1> QED
  BY <1>2 DEF Continues

(* The members the encoders write.                                         *)
LEMMA MembersContinue ==
    ASSUME NEW f, IsFrame(f)
    PROVE  /\ Continues(f, Member("src", <<Str("src")>>))
           /\ Continues(f, Member("role", <<Str(RoleText(f))>>))
           /\ \A k \in NumberKeys \ LongKeys : Continues(f, Reading(k))
           /\ \A k \in ArrayKeys : Continues(f, Axes(k))
           /\ Continues(f, ActiveTime(f))
           /\ \A tag \in Tags : \A k \in {"os", "pad"} : Continues(f, Member(k, <<Str(tag)>>))
<1> USE DEF KnownKeys, NumberKeys, StringKeys, ArrayKeys, LongKeys
<1>1. Continues(f, Member("src", <<Str("src")>>))
  <2>1. Written(f, "src", <<Str("src")>>)
    BY DEF Written
  <2> QED
    BY <2>1, MemberContinues
<1>2. Continues(f, Member("role", <<Str(RoleText(f))>>))
  <2>1. Written(f, "role", <<Str(RoleText(f))>>)
    BY DEF Written
  <2> QED
    BY <2>1, MemberContinues
<1>3. ASSUME NEW k \in NumberKeys \ LongKeys PROVE Continues(f, Reading(k))
  <2>1. Written(f, k, <<Num(k)>>)
    BY DEF Written, Number
  <2>2. Reading(k) = Member(k, <<Num(k)>>)
    BY DEF Reading
  <2> QED
    BY <2>1, <2>2, MemberContinues
<1>4. ASSUME NEW k \in ArrayKeys PROVE Continues(f, Axes(k))
  <2>1. Written(f, k, Array(k))
    BY DEF Written
  <2>2. Axes(k) = Member(k, Array(k))
    BY DEF Axes, Array
  <2> QED
    BY <2>1, <2>2, MemberContinues
<1>5. Continues(f, ActiveTime(f))
  <2>1. Written(f, "t_active_ms", <<Num(f.active)>>)
    BY DEF Written, Number
  <2>2. ActiveTime(f) = Member("t_active_ms", <<Num(f.active)>>)
    BY DEF ActiveTime
  <2> QED
    BY <2>1, <2>2, MemberContinues
<1>6. ASSUME NEW tag \in Tags, NEW k \in {"os", "pad"}
      PROVE  Continues(f, Member(k, <<Str(tag)>>))
  <2>1. Written(f, k, <<Str(tag)>>)
    BY DEF Written
  <2> QED
    BY <2>1, MemberContinues
<1> QED
  BY <1>1, <1>2, <1>3, <1>4, <1>5, <1>6

(* The first piece of every encoder.                                       *)
LEMMA StartOpens ==
    ASSUME NEW f, IsFrame(f), NEW least \in Nat, NEW most \in Nat,
           NEW s, s = Start(f, RoleText(f), least, most)
    PROVE  InPieces(f, s) /\ Len(s) = 1 /\ s[1].least = least /\ s[1].most = most
<1>1. PICK a : a = <<Punct("brace"), Str("ts"), Punct("colon"), Num(f.ts)>>
  OBVIOUS
<1>2. Body(f, a) /\ Fields(a) = KeysOf(a)
  BY <1>1, Beginning
<1> DEFINE b == a \o Member("src", <<Str("src")>>)
           c == b \o Member("role", <<Str(RoleText(f))>>)
           d == c \o Reading("rssi")
           e == d \o Reading("hops")
<1>3. Continues(f, Reading("rssi")) /\ Continues(f, Reading("hops"))
  BY MembersContinue DEF NumberKeys, LongKeys
<1>4. s = <<Piece(least, most, e)>>
  BY <1>1 DEF Start
<1>5. Body(f, b) /\ Fields(b) = KeysOf(b)
  BY <1>2, MembersContinue, BodyGrows
<1> HIDE DEF b
<1>6. Body(f, c) /\ Fields(c) = KeysOf(c)
  BY <1>5, MembersContinue, BodyGrows
<1> HIDE DEF c
<1>7. Body(f, d) /\ Fields(d) = KeysOf(d)
  BY <1>6, <1>3, BodyGrows
<1> HIDE DEF d
<1>8. Body(f, e) /\ Fields(e) = KeysOf(e)
  BY <1>7, <1>3, BodyGrows
<1> HIDE DEF e
<1>9. e \in Seq(Token)
  BY <1>8 DEF Body
<1>10. Len(s) = 1 /\ DOMAIN s = 1..1 /\ s[1] = [least |-> least, most |-> most, tokens |-> e]
  BY <1>4 DEF Piece
<1>11. Opening(f, s[1])
  BY <1>8, <1>9, <1>10 DEF Opening
<1>12. s \in Seq([least : Nat, most : Nat, tokens : Seq(Token)])
  BY <1>4, <1>9 DEF Piece
<1> QED
  BY <1>10, <1>11, <1>12 DEF InPieces

(* A piece after the first.                                                *)
LEMMA PieceIsPart ==
    ASSUME NEW f, NEW least \in Nat, NEW most \in Nat, NEW tokens, Continues(f, tokens)
    PROVE  Piece(least, most, tokens) \in Part(f)
  BY DEF Piece, Part, Continues

LEMMA OneMorePiece ==
    ASSUME NEW f, NEW s, InPieces(f, s), NEW q \in Part(f)
    PROVE  InPieces(f, s \o <<q>>)
<1>1. PICK r : r = s \o <<q>>
  OBVIOUS
<1>2. /\ r \in Seq([least : Nat, most : Nat, tokens : Seq(Token)])
      /\ Len(r) = Len(s) + 1 /\ Len(s) \in Nat /\ Len(s) >= 1
  BY <1>1 DEF InPieces, Part
<1>3. \A i \in 1..Len(s) : r[i] = s[i]
  BY <1>1 DEF InPieces
<1>4. r[Len(s) + 1] = q
  BY <1>1 DEF InPieces
<1>5. \A i \in 2..Len(r) : r[i] \in Part(f)
  <2>1. \A i \in 2..Len(r) : i \in 2..Len(s) \/ i = Len(s) + 1
    BY <1>2 DEF InPieces
  <2>2. \A i \in 2..Len(s) : r[i] = s[i] /\ s[i] \in Part(f)
    BY <1>3 DEF InPieces
  <2> QED
    BY <2>1, <2>2, <1>4
<1>6. r[1] = s[1] /\ Opening(f, s[1])
  BY <1>2, <1>3 DEF InPieces
<1>7. Opening(f, r[1]) /\ Len(r) >= 1
  BY <1>2, <1>6
<1>8. InPieces(f, r)
  BY <1>2, <1>5, <1>7 DEF InPieces
<1> QED
  BY <1>1, <1>8

LEMMA MaybeOneMore ==
    ASSUME NEW f, NEW s, InPieces(f, s), NEW cond, NEW q \in Part(f)
    PROVE  InPieces(f, s \o If(cond, q))
<1>1. CASE cond
  BY <1>1, OneMorePiece DEF If
<1>2. CASE ~cond
  <2>1. s \o <<>> = s
    BY DEF InPieces
  <2> QED
    BY <1>2, <2>1 DEF If
<1> QED
  BY <1>1, <1>2

(* The pieces of the three encoders.                                       *)
LEMMA ZephyrShape ==
    ASSUME NEW f, IsFrame(f)
    PROVE  InPieces(f, ZephyrPieces(f))
<1> DEFINE q == [temp |-> Piece(14, 16, Reading("temp_c")),
                 humid |-> Piece(17, 19, Reading("humid_pct")),
                 active |-> Piece(16, 25, ActiveTime(f)),
                 accel |-> Piece(30, 36, Axes("accel_g")),
                 gyro |-> Piece(28, 40, Axes("gyro_dps")),
                 avg |-> Piece(17, 20, Reading("i_avg_ma")),
                 pk |-> Piece(16, 19, Reading("i_pk_ma")),
                 vbat |-> Piece(12, 16, Reading("vbat_mv"))]
<1>1. /\ Continues(f, Reading("temp_c")) /\ Continues(f, Reading("humid_pct"))
      /\ Continues(f, Reading("i_avg_ma")) /\ Continues(f, Reading("i_pk_ma"))
      /\ Continues(f, Reading("vbat_mv")) /\ Continues(f, ActiveTime(f))
      /\ Continues(f, Axes("accel_g")) /\ Continues(f, Axes("gyro_dps"))
  BY MembersContinue DEF NumberKeys, LongKeys, ArrayKeys
<1>2. /\ q.temp \in Part(f) /\ q.humid \in Part(f) /\ q.active \in Part(f)
      /\ q.accel \in Part(f) /\ q.gyro \in Part(f) /\ q.avg \in Part(f)
      /\ q.pk \in Part(f) /\ q.vbat \in Part(f)
  BY <1>1, PieceIsPart
<1> DEFINE s0 == Start(f, RoleText(f), 51, 70)
           s1 == s0 \o If("env" \in f.has, q.temp)
           s2 == s1 \o If("env" \in f.has, q.humid)
           s3 == s2 \o If(f.role = "SED", q.active)
           s4 == s3 \o If("imu" \in f.has, q.accel)
           s5 == s4 \o If("imu" \in f.has, q.gyro)
           s6 == s5 \o If("power" \in f.has, q.avg)
           s7 == s6 \o If("power" \in f.has, q.pk)
           s8 == s7 \o If("power" \in f.has, q.vbat)
<1>3. ZephyrPieces(f) = s8
  BY DEF ZephyrPieces, RoleText
<1> HIDE DEF q
<1>4. InPieces(f, s0)
  BY StartOpens
<1> HIDE DEF s0
<1>5. InPieces(f, s1)
  BY <1>2, <1>4, MaybeOneMore
<1> HIDE DEF s1
<1>6. InPieces(f, s2)
  BY <1>2, <1>5, MaybeOneMore
<1> HIDE DEF s2
<1>7. InPieces(f, s3)
  BY <1>2, <1>6, MaybeOneMore
<1> HIDE DEF s3
<1>8. InPieces(f, s4)
  BY <1>2, <1>7, MaybeOneMore
<1> HIDE DEF s4
<1>9. InPieces(f, s5)
  BY <1>2, <1>8, MaybeOneMore
<1> HIDE DEF s5
<1>10. InPieces(f, s6)
  BY <1>2, <1>9, MaybeOneMore
<1> HIDE DEF s6
<1>11. InPieces(f, s7)
  BY <1>2, <1>10, MaybeOneMore
<1> HIDE DEF s7
<1>12. InPieces(f, s8)
  BY <1>2, <1>11, MaybeOneMore
<1> QED
  BY <1>3, <1>12

(* A port's pieces: the opening, up to two more, and the last.             *)
PortPieces(f, s, last) ==
    \E a, env, imu, os :
        /\ Opening(f, a) /\ env \in Part(f) /\ imu \in Part(f) /\ os \in Part(f)
        /\ a.most = 60 /\ env.most = 35 /\ imu.most = 33 /\ os.most = last
        /\ s = <<a>> \o If("env" \in f.has, env) \o If("imu" \in f.has, imu) \o <<os>>

LEMMA PortParts ==
    ASSUME NEW f, IsFrame(f), f.node # "zephyr"
    PROVE  /\ \E a : /\ Start(f, "SED", 51, 60) = <<a>> /\ Opening(f, a) /\ a.most = 60
           /\ Piece(31, 35, Reading("temp_c") \o Reading("humid_pct")) \in Part(f)
           /\ Piece(30, 33, Axes("accel_g")) \in Part(f)
           /\ Piece(28, 37, ActiveTime(f) \o Member("os", <<Str("riot")>>)) \in Part(f)
           /\ Piece(18, 18, Member("os", <<Str("contiki-ng")>>)) \in Part(f)
<1>1. RoleText(f) = "SED"
  BY DEF RoleText, IsFrame
<1>2. PICK s : s = Start(f, "SED", 51, 60)
  OBVIOUS
<1>3. InPieces(f, s) /\ Len(s) = 1 /\ s[1].most = 60
  BY <1>1, <1>2, StartOpens
<1>4. s = <<s[1]>> /\ Opening(f, s[1])
  BY <1>3 DEF InPieces
<1>5. /\ Continues(f, Reading("temp_c")) /\ Continues(f, Reading("humid_pct"))
      /\ Continues(f, ActiveTime(f)) /\ Continues(f, Axes("accel_g"))
      /\ Continues(f, Member("os", <<Str("riot")>>))
      /\ Continues(f, Member("os", <<Str("contiki-ng")>>))
  BY MembersContinue DEF NumberKeys, LongKeys, ArrayKeys, Tags
<1>6. /\ Continues(f, Reading("temp_c") \o Reading("humid_pct"))
      /\ Continues(f, ActiveTime(f) \o Member("os", <<Str("riot")>>))
  BY <1>5, BothContinue
<1> QED
  BY <1>2, <1>3, <1>4, <1>5, <1>6, PieceIsPart

LEMMA PortShape ==
    ASSUME NEW f, IsFrame(f), NEW s, NEW last, PortPieces(f, s, last)
    PROVE  InPieces(f, s)
<1>1. PICK a, env, imu, os :
        /\ Opening(f, a) /\ env \in Part(f) /\ imu \in Part(f) /\ os \in Part(f)
        /\ s = <<a>> \o If("env" \in f.has, env) \o If("imu" \in f.has, imu) \o <<os>>
  BY DEF PortPieces
<1>2. InPieces(f, <<a>>)
  <2>1. a \in [least : Nat, most : Nat, tokens : Seq(Token)]
    BY <1>1 DEF Opening
  <2> QED
    BY <1>1, <2>1 DEF InPieces
<1>3. InPieces(f, <<a>> \o If("env" \in f.has, env))
  BY <1>1, <1>2, MaybeOneMore
<1>4. InPieces(f, <<a>> \o If("env" \in f.has, env) \o If("imu" \in f.has, imu))
  BY <1>1, <1>3, MaybeOneMore
<1> QED
  BY <1>1, <1>4, OneMorePiece

LEMMA PiecesShape ==
    ASSUME NEW f, IsFrame(f)
    PROVE  /\ InPieces(f, Pieces(f))
           /\ f.node = "riot" => PortPieces(f, Pieces(f), 37)
           /\ f.node = "contiki" => PortPieces(f, Pieces(f), 18)
<1>1. CASE f.node = "zephyr"
  <2>1. Pieces(f) = ZephyrPieces(f)
    BY <1>1 DEF Pieces
  <2> QED
    BY <1>1, <2>1, ZephyrShape
<1>2. CASE f.node = "riot"
  <2>1. Pieces(f) = RiotPieces(f)
    BY <1>2 DEF Pieces
  <2>2. \A least, most, tokens : Piece(least, most, tokens).most = most
    BY DEF Piece
  <2>3. PortPieces(f, RiotPieces(f), 37)
    <3>1. PICK a : Start(f, "SED", 51, 60) = <<a>> /\ Opening(f, a) /\ a.most = 60
      BY <1>2, PortParts
    <3>2. PICK env : env = Piece(31, 35, Reading("temp_c") \o Reading("humid_pct"))
      OBVIOUS
    <3>3. PICK imu : imu = Piece(30, 33, Axes("accel_g"))
      OBVIOUS
    <3>4. PICK os : os = Piece(28, 37, ActiveTime(f) \o Member("os", <<Str("riot")>>))
      OBVIOUS
    <3>5. env \in Part(f) /\ imu \in Part(f) /\ os \in Part(f)
      BY <1>2, <3>2, <3>3, <3>4, PortParts
    <3>6. env.most = 35 /\ imu.most = 33 /\ os.most = 37
      BY <2>2, <3>2, <3>3, <3>4
    <3>7. RiotPieces(f) = <<a>> \o If("env" \in f.has, env) \o If("imu" \in f.has, imu) \o <<os>>
      BY <3>1, <3>2, <3>3, <3>4 DEF RiotPieces
    <3> QED
      BY <3>1, <3>5, <3>6, <3>7, Zenon DEF PortPieces
  <2> QED
    BY <1>2, <2>1, <2>3, PortShape
<1>3. CASE f.node = "contiki"
  <2>1. Pieces(f) = ContikiPieces(f)
    BY <1>3 DEF Pieces
  <2>2. \A least, most, tokens : Piece(least, most, tokens).most = most
    BY DEF Piece
  <2>3. PortPieces(f, ContikiPieces(f), 18)
    <3>1. PICK a : Start(f, "SED", 51, 60) = <<a>> /\ Opening(f, a) /\ a.most = 60
      BY <1>3, PortParts
    <3>2. PICK env : env = Piece(31, 35, Reading("temp_c") \o Reading("humid_pct"))
      OBVIOUS
    <3>3. PICK imu : imu = Piece(30, 33, Axes("accel_g"))
      OBVIOUS
    <3>4. PICK os : os = Piece(18, 18, Member("os", <<Str("contiki-ng")>>))
      OBVIOUS
    <3>5. env \in Part(f) /\ imu \in Part(f) /\ os \in Part(f)
      BY <1>3, <3>2, <3>3, <3>4, PortParts
    <3>6. env.most = 35 /\ imu.most = 33 /\ os.most = 18
      BY <2>2, <3>2, <3>3, <3>4
    <3>7. ContikiPieces(f) = <<a>> \o If("env" \in f.has, env) \o If("imu" \in f.has, imu) \o <<os>>
      BY <3>1, <3>2, <3>3, <3>4 DEF ContikiPieces
    <3> QED
      BY <3>1, <3>5, <3>6, <3>7, Zenon DEF PortPieces
  <2> QED
    BY <1>3, <2>1, <2>3, PortShape
<1> QED
  BY <1>1, <1>2, <1>3 DEF IsFrame

-----------------------------------------------------------------------------
(***************************************************************************)
(* The bytes.                                                              *)
(***************************************************************************)

(* A set of numbers that is not empty has a least element.                 *)
LEMMA Least ==
    ASSUME NEW S \in SUBSET Nat, S # {}
    PROVE  \E x \in S : \A y \in S : x <= y
<1>1. IsWellFoundedOn(OpToRel(<,Nat), Nat)
  BY NatLessThanWellFounded
<1>2. OpToRel(<,Nat) = {ss \in Nat \X Nat : ss[1] < ss[2]}
  BY Zenon DEF OpToRel
<1> DEFINE R == {ss \in Nat \X Nat : ss[1] < ss[2]}
<1>3. IsWellFoundedOn(R, Nat)
  BY <1>1, <1>2, Zenon
<1> HIDE DEF R
<1>4. \E x \in S : \A y \in S : ~ (<<y, x>> \in R)
  BY <1>3, WFMin
<1>5. PICK x \in S : \A y \in S : ~ (<<y, x>> \in R)
  BY <1>4
<1>6. ASSUME NEW y \in S PROVE x <= y
  <2>1. ~ (<<y, x>> \in R)
    BY <1>5
  <2>2. ~ (y < x)
    BY <2>1 DEF R
  <2> QED
    BY <2>2
<1> QED
  BY <1>6

LEMMA PieceType ==
    ASSUME NEW f, IsFrame(f), NEW i \in 1..Len(Pieces(f))
    PROVE  Pieces(f)[i] \in [least : Nat, most : Nat, tokens : Seq(Token)]
<1>1. PICK s : s = Pieces(f)
  OBVIOUS
<1>2. InPieces(f, s)
  BY <1>1, PiecesShape
<1>3. s \in Seq([least : Nat, most : Nat, tokens : Seq(Token)]) /\ i \in 1..Len(s)
  BY <1>1, <1>2 DEF InPieces
<1>4. s[i] \in [least : Nat, most : Nat, tokens : Seq(Token)]
  BY <1>3, ElementOfSeq
<1> QED
  BY <1>1, <1>4

(* A piece takes at most its most.                                         *)
LEMMA BytesFacts ==
    ASSUME NEW f, IsFrame(f), NEW i \in 1..Len(Pieces(f))
    PROVE  Bytes(f, Pieces(f)[i]) \in Nat /\ Bytes(f, Pieces(f)[i]) <= Pieces(f)[i].most
<1>2. Pieces(f)[i] \in [least : Nat, most : Nat, tokens : Seq(Token)]
  BY PieceType
<1>3. f.extra \in Nat
  BY DEF IsFrame
<1> QED
  BY <1>2, <1>3 DEF Bytes

(* The recursive definition of Total has a solution, hence Total obeys it. *)
LEMMA TotalExists ==
    ASSUME NEW f, NEW n \in Nat
    PROVE  \E t : t = [i \in 0..n |-> IF i = 0 THEN 0 ELSE t[i - 1] + Bytes(f, Pieces(f)[i])]
<1> DEFINE Bad == {k \in Nat : ~ \E t : t = [i \in 0..k |->
                       IF i = 0 THEN 0 ELSE t[i - 1] + Bytes(f, Pieces(f)[i])]}
<1>1. SUFFICES ASSUME Bad # {} PROVE FALSE
  OBVIOUS
<1>2. PICK k \in Bad : \A m \in Bad : k <= m
  BY <1>1, Least
<1>3. CASE k = 0
  <2> DEFINE t == [i \in 0..0 |-> 0]
  <2>1. t = [i \in 0..k |-> IF i = 0 THEN 0 ELSE t[i - 1] + Bytes(f, Pieces(f)[i])]
    BY <1>3
  <2> QED
    BY <2>1
<1>4. CASE k # 0
  <2>1. k - 1 \in Nat /\ k - 1 \notin Bad
    BY <1>2, <1>4
  <2>2. PICK s : s = [i \in 0..(k - 1) |->
                         IF i = 0 THEN 0 ELSE s[i - 1] + Bytes(f, Pieces(f)[i])]
    BY <2>1
  <2> DEFINE t == [i \in 0..k |-> IF i = k THEN s[k - 1] + Bytes(f, Pieces(f)[k]) ELSE s[i]]
  <2>3. t = [i \in 0..k |-> IF i = 0 THEN 0 ELSE t[i - 1] + Bytes(f, Pieces(f)[i])]
    <3>1. ASSUME NEW i \in 0..k
          PROVE  t[i] = IF i = 0 THEN 0 ELSE t[i - 1] + Bytes(f, Pieces(f)[i])
      <4>1. CASE i = k
        BY <4>1, <1>4
      <4>2. CASE i # k
        <5>1. /\ i \in 0..(k - 1)
              /\ i # 0 => i - 1 \in 0..(k - 1) /\ i - 1 \in 0..k /\ i - 1 # k
          BY <4>2
        <5>2. s[i] = IF i = 0 THEN 0 ELSE s[i - 1] + Bytes(f, Pieces(f)[i])
          BY <2>2, <5>1, Zenon
        <5> QED
          BY <5>1, <5>2, <4>2
      <4> QED
        BY <4>1, <4>2
    <3> QED
      BY <3>1
  <2> QED
    BY <2>3
<1> QED
  BY <1>3, <1>4

LEMMA TotalSteps ==
    ASSUME NEW f, IsFrame(f)
    PROVE  /\ Total(f, 0) = 0
           /\ \A n \in 1..Len(Pieces(f)) :
                  Total(f, n) = Total(f, n - 1) + Bytes(f, Pieces(f)[n])
           /\ \A n \in 0..Len(Pieces(f)) : Total(f, n) \in Nat
<1> DEFINE L == Len(Pieces(f))
<1>1. L \in Nat
  BY PiecesShape DEF InPieces
<1>2. PICK t : t = [i \in 0..L |-> IF i = 0 THEN 0 ELSE t[i - 1] + Bytes(f, Pieces(f)[i])]
  BY <1>1, TotalExists
<1> DEFINE u == CHOOSE u : u = [i \in 0..L |->
                       IF i = 0 THEN 0 ELSE u[i - 1] + Bytes(f, Pieces(f)[i])]
<1>3. u = [i \in 0..L |-> IF i = 0 THEN 0 ELSE u[i - 1] + Bytes(f, Pieces(f)[i])]
  BY <1>2
<1>4. \A n : Total(f, n) = u[n]
  BY DEF Total
<1> HIDE DEF u
<1>5. Total(f, 0) = 0
  <2>1. 0 \in 0..L
    BY <1>1
  <2>2. u[0] = 0
    BY <1>3, <2>1
  <2> QED
    BY <1>4, <2>2
<1>6. ASSUME NEW n \in 1..L PROVE Total(f, n) = Total(f, n - 1) + Bytes(f, Pieces(f)[n])
  <2>1. u[n] = u[n - 1] + Bytes(f, Pieces(f)[n])
    BY <1>1, <1>3
  <2> QED
    BY <2>1, <1>4
<1>7. \A n \in 0..L : Total(f, n) \in Nat
  <2> DEFINE Bad == {k \in Nat : k \in 0..L /\ Total(f, k) \notin Nat}
  <2>1. SUFFICES ASSUME Bad # {} PROVE FALSE
    BY <1>1
  <2>2. PICK k \in Bad : \A m \in Bad : k <= m
    BY <2>1, Least
  <2>3. k \in 1..L /\ k - 1 \in 0..L /\ k - 1 \in Nat /\ k - 1 \notin Bad
    BY <2>2, <1>1, <1>5
  <2> QED
    BY <2>2, <2>3, <1>6, BytesFacts
<1> QED
  BY <1>5, <1>6, <1>7

LEMMA TotalGrows ==
    ASSUME NEW f, IsFrame(f), NEW n \in 0..Len(Pieces(f))
    PROVE  Total(f, n) <= Total(f, Len(Pieces(f)))
<1> DEFINE L == Len(Pieces(f))
           Bad == {k \in Nat : k \in n..L /\ ~(Total(f, n) <= Total(f, k))}
<1>1. L \in Nat
  BY PiecesShape DEF InPieces
<1>2. SUFFICES ASSUME Bad # {} PROVE FALSE
  BY <1>1
<1>3. PICK k \in Bad : \A m \in Bad : k <= m
  BY <1>2, Least
<1>4. Total(f, n) \in Nat
  BY TotalSteps
<1>5. k \in 1..L /\ k - 1 \in 0..L /\ k - 1 \in n..L /\ k - 1 \notin Bad
  BY <1>1, <1>3, <1>4
<1>6. Total(f, k) = Total(f, k - 1) + Bytes(f, Pieces(f)[k]) /\ Total(f, k - 1) \in Nat
  BY <1>5, TotalSteps
<1>7. Bytes(f, Pieces(f)[k]) \in Nat
  BY <1>5, BytesFacts
<1> QED
  BY <1>3, <1>4, <1>5, <1>6, <1>7

LEMMA OneAppended ==
    ASSUME NEW S, NEW s \in Seq(S), NEW q \in S, NEW r, r = s \o <<q>>
    PROVE  /\ r \in Seq(S) /\ Len(r) = Len(s) + 1 /\ r[Len(s) + 1] = q
           /\ \A i \in 1..Len(s) : r[i] = s[i]
  OBVIOUS

(* All of a port's text before the padding.                                *)
LEMMA PortTotal ==
    ASSUME NEW f, IsFrame(f), NEW last \in Nat, PortPieces(f, Pieces(f), last)
    PROVE  Total(f, Len(Pieces(f))) <= 128 + last
<1>1. PICK a, env, imu, os :
        /\ a.most = 60 /\ env.most = 35 /\ imu.most = 33 /\ os.most = last
        /\ Pieces(f) = <<a>> \o If("env" \in f.has, env) \o If("imu" \in f.has, imu) \o <<os>>
  BY DEF PortPieces
<1>2. PICK s : s = Pieces(f)
  OBVIOUS
<1>3. \A n \in 1..Len(s) : /\ Total(f, n) \in Nat /\ Total(f, n - 1) \in Nat
                           /\ Total(f, n) <= Total(f, n - 1) + s[n].most
  <2>1. Len(s) \in Nat
    BY <1>2, PiecesShape DEF InPieces
  <2>2. ASSUME NEW n \in 1..Len(s)
        PROVE  /\ Total(f, n) \in Nat /\ Total(f, n - 1) \in Nat
               /\ Total(f, n) <= Total(f, n - 1) + s[n].most
    <3>1. n \in 0..Len(s) /\ n - 1 \in 0..Len(s)
      BY <2>1
    <3>2. Total(f, n) \in Nat /\ Total(f, n - 1) \in Nat
      BY <1>2, <3>1, TotalSteps
    <3>3. Total(f, n) = Total(f, n - 1) + Bytes(f, s[n])
      BY <1>2, TotalSteps
    <3>4. s[n].most \in Nat
      <4>1. s[n] \in [least : Nat, most : Nat, tokens : Seq(Token)]
        BY <1>2, PieceType
      <4> QED
        BY <4>1
    <3> QED
      BY <1>2, <3>2, <3>3, <3>4, BytesFacts
  <2> QED
    BY <2>2
<1>4. Total(f, 0) = 0
  BY TotalSteps
<1> DEFINE S == {a, env, imu, os}
<1>5. PICK one : one = <<a>> \o If("env" \in f.has, env)
  OBVIOUS
<1>6. PICK two : two = one \o If("imu" \in f.has, imu)
  OBVIOUS
<1>7. s = two \o <<os>>
  BY <1>1, <1>2, <1>5, <1>6
<1>8. <<a>> \in Seq(S) /\ Len(<<a>>) = 1 /\ <<a>>[1] = a
  OBVIOUS
<1>9. /\ one \in Seq(S) /\ one[1] = a
      /\ \/ Len(one) = 1
         \/ Len(one) = 2 /\ one[2] = env
  <2>1. CASE "env" \in f.has
    <3>1. one = <<a>> \o <<env>>
      BY <1>5, <2>1 DEF If
    <3> QED
      BY <1>8, <3>1, OneAppended
  <2>2. CASE "env" \notin f.has
    <3>1. one = <<a>>
      BY <1>5, <2>2 DEF If
    <3> QED
      BY <1>8, <3>1
  <2> QED
    BY <2>1, <2>2
<1>10. /\ two \in Seq(S) /\ two[1] = a
       /\ \/ Len(two) = 1
          \/ Len(two) = 2 /\ two[2] \in {env, imu}
          \/ Len(two) = 3 /\ two[2] = env /\ two[3] = imu
  <2>1. CASE "imu" \in f.has
    <3>1. two = one \o <<imu>>
      BY <1>6, <2>1 DEF If
    <3>2. two \in Seq(S) /\ Len(two) = Len(one) + 1 /\ two[Len(one) + 1] = imu
          /\ \A i \in 1..Len(one) : two[i] = one[i]
      BY <1>9, <3>1, OneAppended
    <3> QED
      BY <1>9, <3>2
  <2>2. CASE "imu" \notin f.has
    <3>1. two = one
      BY <1>6, <1>9, <2>2 DEF If
    <3> QED
      BY <1>9, <3>1
  <2> QED
    BY <2>1, <2>2
<1>11. /\ s[1] = a
       /\ \/ Len(s) = 2 /\ s[2] = os
          \/ Len(s) = 3 /\ s[2] \in {env, imu} /\ s[3] = os
          \/ Len(s) = 4 /\ s[2] = env /\ s[3] = imu /\ s[4] = os
  <2>1. Len(s) = Len(two) + 1 /\ s[Len(two) + 1] = os /\ \A i \in 1..Len(two) : s[i] = two[i]
    BY <1>7, <1>10, OneAppended
  <2> QED
    BY <1>10, <2>1
<1>12. Total(f, 1) \in Nat /\ Total(f, 1) <= 60
  <2>1. 1 \in 1..Len(s) /\ s[1].most = 60
    BY <1>1, <1>11
  <2> QED
    BY <2>1, <1>3, <1>4
<1>13. CASE Len(s) = 2
  <2>1. Total(f, 2) <= Total(f, 1) + s[2].most /\ Total(f, 2) \in Nat
    BY <1>3, <1>13
  <2>2. s[2].most = last
    BY <1>1, <1>11, <1>13
  <2> QED
    BY <1>2, <1>12, <1>13, <2>1, <2>2
<1>14. CASE Len(s) = 3
  <2>1. /\ Total(f, 2) <= Total(f, 1) + s[2].most /\ Total(f, 2) \in Nat
        /\ Total(f, 3) <= Total(f, 2) + s[3].most /\ Total(f, 3) \in Nat
    BY <1>3, <1>14
  <2>2. s[2].most \in {35, 33} /\ s[3].most = last
    BY <1>1, <1>11, <1>14
  <2> QED
    BY <1>2, <1>12, <1>14, <2>1, <2>2
<1>15. CASE Len(s) = 4
  <2>1. /\ Total(f, 2) <= Total(f, 1) + s[2].most /\ Total(f, 2) \in Nat
        /\ Total(f, 3) <= Total(f, 2) + s[3].most /\ Total(f, 3) \in Nat
        /\ Total(f, 4) <= Total(f, 3) + s[4].most /\ Total(f, 4) \in Nat
    BY <1>3, <1>15
  <2>2. s[2].most = 35 /\ s[3].most = 33 /\ s[4].most = last
    BY <1>1, <1>11, <1>15
  <2> QED
    BY <1>2, <1>12, <1>15, <2>1, <2>2
<1> QED
  BY <1>11, <1>13, <1>14, <1>15

(* The buffers: a port's holds all its text with some bytes to spare.      *)
LEMMA BufferFacts ==
    ASSUME NEW f, IsFrame(f)
    PROVE  /\ BufLen(f) \in Nat /\ BufLen(f) >= 2
           /\ Len(Pieces(f)) \in Nat /\ Len(Pieces(f)) >= 1
           /\ f.pad \in Nat
           /\ f.node # "zephyr" => Total(f, Len(Pieces(f))) + f.pad + 13 <= BufLen(f)
<1>1. Len(Pieces(f)) \in Nat /\ Len(Pieces(f)) >= 1
  BY PiecesShape DEF InPieces
<1>2. Total(f, Len(Pieces(f))) \in Nat
  BY <1>1, TotalSteps
<1>3. f.pad \in Nat /\ f.buf \in Nat
  BY DEF IsFrame
<1>4. CASE f.node = "zephyr"
  BY <1>1, <1>3, <1>4 DEF BufLen, IsFrame
<1>5. CASE f.node = "riot"
  <2>1. Total(f, Len(Pieces(f))) <= 128 + 37
    BY <1>5, PiecesShape, PortTotal
  <2>2. BufLen(f) = 224 + f.pad
    BY <1>5 DEF BufLen
  <2> QED
    BY <1>1, <1>2, <1>3, <2>1, <2>2
<1>6. CASE f.node = "contiki"
  <2>1. Total(f, Len(Pieces(f))) <= 128 + 18
    BY <1>6, PiecesShape, PortTotal
  <2>2. BufLen(f) = 192 + f.pad
    BY <1>6 DEF BufLen
  <2> QED
    BY <1>1, <1>2, <1>3, <2>1, <2>2
<1> QED
  BY <1>4, <1>5, <1>6 DEF IsFrame

-----------------------------------------------------------------------------
(* The bytes in the encoder's buffer are those of the pieces and of the     *)
(* padding so far; the frame that was given up does not fit.               *)
Written8 == Total(frame, Len(Pieces(frame))) + 8 + frame.pad
Arrived == {"sent", "open", "member", "next", "ok", "einval"}
Room ==
    /\ IsFrame(frame)
    /\ stage \in {"idle", "pad", "close", "nospace"} \cup Arrived
    /\ off \in Nat /\ off < BufLen(frame)
    /\ next \in 0..Len(Pieces(frame)) /\ padLeft \in Nat
    /\ stage = "idle" => off = Total(frame, next)
    /\ stage \in {"pad", "close"} => next = Len(Pieces(frame)) /\ frame.pad > 0
    /\ stage = "pad" => off + padLeft = Written8
    /\ stage = "close" => off = Written8 + 1
    /\ stage \in Arrived => off = IF frame.node = "zephyr" THEN Sum(frame) ELSE Sum(frame) + 1
    /\ stage = "nospace" => frame.node = "zephyr" /\ Sum(frame) >= BufLen(frame)

LEMMA ContentsFacts ==
    ASSUME SizesAssumption, NEW node, NEW c \in Contents(node)
    PROVE  /\ c.role \in Roles /\ c.extra \in Nat /\ c.ts \in Int /\ c.active \in Int
           /\ node # "zephyr" => c.role = "SED"
<1>1. UInt \subseteq Int /\ 0 \in Int /\ Extras \subseteq Nat
  BY SizesAssumption DEF SizesAssumption
<1>2. CASE c \in [role : Roles \ {"SED"}, ts : UInt, active : {0}, has : SUBSET Groups,
                 extra : Extras] /\ node = "zephyr"
  BY <1>1, <1>2
<1>3. CASE \E H : c \in [role : {"SED"}, ts : UInt, active : UInt, has : H, extra : Extras]
  BY <1>1, <1>3 DEF Roles
<1> QED
  BY <1>2, <1>3 DEF Contents

LEMMA FrameOfBuild ==
    ASSUME SizesAssumption, NEW b \in Builds, NEW c \in Contents(b.node)
    PROVE  IsFrame(Filled(b, c))
<1>1. b.node \in {"zephyr", "riot", "contiki"} /\ b.buf \in Nat /\ b.pad \in Nat
      /\ (b.node = "zephyr" => b.buf >= 2)
  <2>0. (\A x \in BufSizes : x \in Nat /\ x >= 2) /\ (\A x \in PadLens : x \in Nat)
    BY DEF SizesAssumption
  <2>1. CASE b \in [node : {"zephyr"}, buf : BufSizes, pad : PadLens]
    BY <2>0, <2>1
  <2>2. CASE b \in [node : {"riot", "contiki"}, buf : {0}, pad : PadLens]
    <3>1. b.node \in {"riot", "contiki"} /\ b.buf \in {0} /\ b.pad \in PadLens
      BY <2>2
    <3>2. b.node # "zephyr" /\ b.node \in {"zephyr", "riot", "contiki"}
      BY <3>1
    <3>3. b.buf \in Nat
      BY <3>1
    <3>4. b.pad \in Nat
      BY <2>0, <3>1
    <3> QED
      BY <3>2, <3>3, <3>4
  <2> QED
    BY <2>1, <2>2 DEF Builds
<1>2. /\ c.role \in Roles /\ c.extra \in Nat /\ c.ts \in Int /\ c.active \in Int
      /\ b.node # "zephyr" => c.role = "SED"
  BY ContentsFacts
<1> QED
  BY <1>1, <1>2 DEF Filled, IsFrame

LEMMA FrameOfFrame ==
    ASSUME SizesAssumption, NEW b, IsFrame(b), NEW c \in Contents(b.node)
    PROVE  IsFrame(Filled(b, c))
<1>1. b.node \in {"zephyr", "riot", "contiki"} /\ b.buf \in Nat /\ b.pad \in Nat
      /\ (b.node = "zephyr" => b.buf >= 2)
  BY DEF IsFrame
<1>2. /\ c.role \in Roles /\ c.extra \in Nat /\ c.ts \in Int /\ c.active \in Int
      /\ b.node # "zephyr" => c.role = "SED"
  BY ContentsFacts
<1> QED
  BY <1>1, <1>2 DEF Filled, IsFrame

LEMMA RoomInit == Init => Room
<1> SUFFICES ASSUME Init PROVE Room
  OBVIOUS
<1>1. IsFrame(frame)
  BY SizesAssumption, FrameOfBuild DEF Init
<1>2. Total(frame, 0) = 0
  BY <1>1, TotalSteps
<1> QED
  BY <1>1, <1>2, BufferFacts DEF Init, Room, Arrived

LEMMA RoomReport == Room /\ Report => Room'
<1> SUFFICES ASSUME Room, Report PROVE Room'
  OBVIOUS
<1>1. IsFrame(frame')
  BY SizesAssumption, FrameOfFrame DEF Report, Room
<1>2. Total(frame', 0) = 0
  BY <1>1, TotalSteps
<1> QED
  BY <1>1, <1>2, BufferFacts DEF Report, Room, Arrived

LEMMA RoomEncode == Room /\ Encode => Room'
<1> SUFFICES ASSUME Room, Encode PROVE Room'
  OBVIOUS
<1> DEFINE L == Len(Pieces(frame))  all == Total(frame, L)
<1>1. IsFrame(frame) /\ frame' = frame
  BY DEF Encode, EncodePiece, PadOpen, PadChunk, PortPad, PadClose, EncodeEnd, AppendText, Room
<1>2. /\ BufLen(frame) \in Nat /\ BufLen(frame) >= 2 /\ L \in Nat /\ L >= 1
      /\ frame.pad \in Nat
      /\ frame.node # "zephyr" => all + frame.pad + 13 <= BufLen(frame)
  BY <1>1, BufferFacts
<1>3. all \in Nat
  BY <1>1, <1>2, TotalSteps
<1>4. /\ Sum(frame) = all + (IF frame.pad > 0 THEN frame.pad + 9 ELSE 0) + 1
      /\ Written8 = all + 8 + frame.pad
  BY DEF Sum, Written8
<1>5. CASE EncodePiece
  <2> DEFINE bytes == Bytes(frame, Pieces(frame)[next + 1])
  <2>1. next + 1 \in 1..L /\ next + 1 \in 0..L /\ next \in 0..L /\ stage = "idle"
    BY <1>2, <1>5 DEF Room, EncodePiece
  <2>2. /\ bytes \in Nat /\ Total(frame, next) \in Nat
        /\ Total(frame, next + 1) = Total(frame, next) + bytes
        /\ Total(frame, next + 1) <= all
    <3>1. bytes \in Nat
      BY <1>1, <2>1, BytesFacts
    <3>2. Total(frame, next) \in Nat
      BY <1>1, <2>1, TotalSteps
    <3>3. Total(frame, next + 1) = Total(frame, next + 1 - 1) + bytes /\ next + 1 - 1 = next
      BY <1>1, <2>1, TotalSteps
    <3>4. Total(frame, next + 1) <= all
      BY <1>1, <2>1, TotalGrows
    <3> QED
      BY <3>1, <3>2, <3>3, <3>4
  <2>3. off = Total(frame, next)
    BY <2>1 DEF Room
  <2>4. next' = next + 1 /\ padLeft' = padLeft
    BY <1>5 DEF EncodePiece
  <2>5. AppendText(bytes, Pieces(frame)[next + 1].tokens, "idle")
    BY <1>5 DEF EncodePiece
  <2> HIDE DEF bytes, L, all
  <2>6. CASE bytes >= BufLen(frame) - off
    <3>1. stage' = "nospace" /\ off' = off
      BY <2>5, <2>6 DEF AppendText
    <3>2. frame.node = "zephyr" /\ Sum(frame) >= BufLen(frame)
      BY <1>2, <1>3, <1>4, <2>2, <2>3, <2>6
    <3> QED
      BY <1>1, <1>2, <2>1, <2>4, <3>1, <3>2 DEF Room, Arrived, L
  <2>7. CASE ~(bytes >= BufLen(frame) - off)
    <3>1. stage' = "idle" /\ off' = off + bytes
      BY <2>5, <2>7 DEF AppendText
    <3>2. off' \in Nat /\ off' < BufLen(frame) /\ off' = Total(frame, next + 1)
      BY <1>2, <2>2, <2>3, <2>7, <3>1
    <3> QED
      BY <1>1, <1>2, <2>1, <2>4, <3>1, <3>2 DEF Room, Arrived, L
  <2> QED
    BY <2>6, <2>7
<1> HIDE DEF L, all
<1>6. CASE PadOpen
  <2>1. /\ stage = "idle" /\ next = L /\ frame.pad > 0 /\ padLeft' = frame.pad /\ next' = next
        /\ IF 8 >= BufLen(frame) - off
           THEN stage' = "nospace" /\ off' = off
           ELSE stage' = "pad" /\ off' = off + 8
    BY <1>6 DEF PadOpen, AppendText, L
  <2>2. off = all
    BY <2>1 DEF Room, L, all
  <2>3. /\ stage' = "nospace" => frame.node = "zephyr" /\ Sum(frame) >= BufLen(frame)
        /\ stage' = "pad" => off' + padLeft' = Written8
        /\ stage' \in {"nospace", "pad"} /\ off' \in Nat /\ off' < BufLen(frame)
    <3>1. off \in Nat /\ off < BufLen(frame)
      BY DEF Room
    <3> QED
      BY <1>2, <1>3, <1>4, <2>1, <2>2, <3>1
  <2> QED
    BY <1>1, <1>2, <2>1, <2>3 DEF Room, Arrived, Written8, L
<1>7. CASE PadChunk
  <2> DEFINE chunk == IF padLeft < 32 THEN padLeft ELSE 32
  <2>1. /\ stage = "pad" /\ frame.node = "zephyr" /\ next' = next /\ padLeft > 0
        /\ padLeft' = padLeft - chunk
        /\ IF chunk >= BufLen(frame) - off
           THEN stage' = "nospace" /\ off' = off
           ELSE stage' = "pad" /\ off' = off + chunk
    BY <1>7 DEF PadChunk, AppendText
  <2>2. /\ off + padLeft = Written8 /\ next = L /\ frame.pad > 0 /\ padLeft \in Nat
        /\ off \in Nat /\ off < BufLen(frame)
    BY <2>1 DEF Room, L
  <2>3. chunk \in Nat /\ chunk <= padLeft
    BY <2>2
  <2> HIDE DEF chunk
  <2>4. /\ stage' = "nospace" => Sum(frame) >= BufLen(frame)
        /\ stage' = "pad" => off' + padLeft' = Written8
        /\ stage' \in {"nospace", "pad"} /\ off' \in Nat /\ off' < BufLen(frame)
        /\ padLeft' \in Nat
    BY <1>2, <1>3, <1>4, <2>1, <2>2, <2>3
  <2> QED
    BY <1>1, <1>2, <2>1, <2>2, <2>4 DEF Room, Arrived, Written8, L
<1>8. CASE PortPad
  <2>1. /\ stage = "pad" /\ frame.node # "zephyr" /\ next' = next
        /\ IF off + padLeft - 1 >= BufLen(frame) - 3
           THEN stage' = "nospace"
           ELSE off' = off + padLeft /\ padLeft' = 0 /\ stage' = stage
    BY <1>8 DEF PortPad
  <2>2. /\ off + padLeft = Written8 /\ next = L /\ frame.pad > 0 /\ padLeft \in Nat
        /\ off \in Nat
    BY <2>1 DEF Room, L
  <2>3. ~(off + padLeft - 1 >= BufLen(frame) - 3)
    BY <1>2, <1>3, <1>4, <2>1, <2>2
  <2>4. /\ off' + padLeft' = Written8 /\ stage' = "pad" /\ padLeft' \in Nat
        /\ off' \in Nat /\ off' < BufLen(frame)
    BY <1>2, <1>3, <1>4, <2>1, <2>2, <2>3
  <2> QED
    BY <1>1, <1>2, <2>1, <2>2, <2>4 DEF Room, Arrived, Written8, L
<1>9. CASE PadClose
  <2>1. /\ stage = "pad" /\ padLeft = 0 /\ next' = next /\ padLeft' = padLeft
        /\ IF 1 >= BufLen(frame) - off
           THEN stage' = "nospace" /\ off' = off
           ELSE stage' = "close" /\ off' = off + 1
    BY <1>9 DEF PadClose, AppendText
  <2>2. off + padLeft = Written8 /\ next = L /\ frame.pad > 0 /\ off \in Nat
        /\ off < BufLen(frame)
    BY <2>1 DEF Room, L
  <2>3. /\ stage' = "nospace" => frame.node = "zephyr" /\ Sum(frame) >= BufLen(frame)
        /\ stage' = "close" => off' = Written8 + 1
        /\ stage' \in {"nospace", "close"} /\ off' \in Nat /\ off' < BufLen(frame)
    BY <1>2, <1>3, <1>4, <2>1, <2>2
  <2> QED
    BY <1>1, <1>2, <2>1, <2>2, <2>3 DEF Room, Arrived, Written8, L
<1>10. CASE EncodeEnd
  <2> DEFINE bytes == IF frame.node = "zephyr" THEN 1 ELSE 2
  <2>1. /\ next' = next /\ padLeft' = padLeft
        /\ IF bytes >= BufLen(frame) - off
           THEN stage' = "nospace" /\ off' = off
           ELSE stage' = "sent" /\ off' = off + bytes
    BY <1>10 DEF EncodeEnd, AppendText
  <2>2. off + 1 = Sum(frame) /\ next = L /\ off \in Nat /\ off < BufLen(frame)
    <3>0. off \in Nat /\ off < BufLen(frame)
      BY DEF Room
    <3>1. CASE stage = "close"
      <4>1. off = Written8 + 1 /\ next = L /\ frame.pad > 0
        BY <3>1 DEF Room, L
      <4> QED
        BY <1>2, <1>3, <1>4, <3>0, <4>1
    <3>2. CASE stage = "idle" /\ next = L /\ frame.pad = 0
      <4>1. off = all
        BY <3>2 DEF Room, L, all
      <4> QED
        BY <1>2, <1>3, <1>4, <3>0, <3>2, <4>1
    <3> QED
      BY <1>10, <3>1, <3>2 DEF EncodeEnd, Padded, L
  <2>3. /\ stage' = "nospace" => frame.node = "zephyr" /\ Sum(frame) >= BufLen(frame)
        /\ stage' = "sent" =>
               off' = IF frame.node = "zephyr" THEN Sum(frame) ELSE Sum(frame) + 1
        /\ stage' \in {"nospace", "sent"} /\ off' \in Nat /\ off' < BufLen(frame)
    BY <1>2, <1>3, <1>4, <2>1, <2>2
  <2> QED
    BY <1>1, <1>2, <2>1, <2>2, <2>3 DEF Room, Arrived, L
<1> QED
  BY <1>5, <1>6, <1>7, <1>8, <1>9, <1>10 DEF Encode

LEMMA RoomRest ==
    /\ Room /\ (PrintPayload \/ PortPrints \/ PortGatewayPrints \/ Decode) => Room'
    /\ Room /\ UNCHANGED vars => Room'
<1>1. ASSUME Room, PrintPayload \/ PortPrints \/ PortGatewayPrints \/ Decode
      PROVE  Room'
  <2>1. frame' = frame /\ next' = next /\ padLeft' = padLeft /\ off' = off
    BY <1>1 DEF PrintPayload, PortPrints, PortGatewayPrints, Decode, DecodeOpen, DecodeMember,
                DecodeComma, DecodeEnd, DecodeError, encoder
  <2>2. stage \in Arrived /\ stage' \in Arrived
    BY <1>1 DEF PrintPayload, PortPrints, PortGatewayPrints, Decode, DecodeOpen, DecodeMember,
                DecodeComma, DecodeEnd, DecodeError, Arrived
  <2>3. \A x \in Arrived : x \notin {"idle", "pad", "close", "nospace"}
    BY DEF Arrived
  <2> QED
    BY <1>1, <2>1, <2>2, <2>3 DEF Room
<1>2. ASSUME Room, UNCHANGED vars PROVE Room'
  BY <1>2 DEF Room, Written8, vars
<1> QED
  BY <1>1, <1>2

(* An encoder never writes past its buffer, and gives up a frame exactly   *)
(* when the text with its NUL does not fit: cookie_frame_to_json and its    *)
(* APPEND, and build_frame of the ports, which never give up one.          *)
THEOREM EncoderKeepsToItsBuffer == Spec => []FitsOrFails
<1>1. Room /\ [Next]_vars => Room'
  BY RoomReport, RoomEncode, RoomRest DEF Next
<1>2. Room => FitsOrFails
  <2> SUFFICES ASSUME Room PROVE FitsOrFails
    OBVIOUS
  <2>1. BufLen(frame) \in Nat /\ Sum(frame) \in Int
    <3>1. Total(frame, Len(Pieces(frame))) \in Nat /\ frame.pad \in Nat /\ BufLen(frame) \in Nat
      BY BufferFacts, TotalSteps DEF Room
    <3> QED
      BY <3>1 DEF Sum
  <2> QED
    BY <2>1 DEF Room, FitsOrFails, Arrived
<1> QED
  BY RoomInit, <1>1, <1>2, PTL DEF Spec

-----------------------------------------------------------------------------
(***************************************************************************)
(* The decoder on a whole line.                                            *)
(***************************************************************************)

(* Nothing is counted where nothing is seen.                               *)
LEMMA NoneCounted ==
    ASSUME NEW q, NEW r, NEW S, \A i \in q..(r - 1) : T(i) \notin S
    PROVE  Count(q, r, S) = 0
<1>1. PICK X : X = {i \in q..(r - 1) : T(i) \in S}
  OBVIOUS
<1>2. X = {}
  BY <1>1
<1>3. Count(q, r, S) = Cardinality(X)
  BY <1>1 DEF Count
<1>4. Cardinality({}) = 0
  BY FS_EmptySet
<1> QED
  BY <1>2, <1>3, <1>4

(* The value of an unknown key ends somewhere, at the first of its ends.   *)
SkipEnds(q, r) == r > Len(line) \/ (T(r) \in {"comma", "endbracket", "endbrace"} /\ Depth(q, r) = 0)

LEMMA SkipFacts ==
    ASSUME Len(line) \in Nat, NEW q \in Nat, q >= 1, q <= Len(line)
    PROVE  /\ SkipValue(q) \in q..(Len(line) + 1)
           /\ SkipEnds(q, SkipValue(q))
           /\ \A s \in q..(SkipValue(q) - 1) : ~SkipEnds(q, s)
<1> DEFINE End(r) == r \in q..(Len(line) + 1) /\ SkipEnds(q, r)
           S == {r \in Nat : End(r)}
<1>1. Len(line) + 1 \in S
  BY DEF SkipEnds
<1>2. PICK x \in S : \A y \in S : x <= y
  BY <1>1, Least
<1>3. x \in q..(Len(line) + 1) /\ SkipEnds(q, x) /\ x \in Nat
  BY <1>2
<1>4. \A s \in q..(x - 1) : ~SkipEnds(q, s)
  <2> SUFFICES ASSUME NEW s \in q..(x - 1), SkipEnds(q, s) PROVE FALSE
    OBVIOUS
  <2>1. s \in q..(Len(line) + 1) /\ s \in Nat /\ s < x
    BY <1>3
  <2>2. s \in S
    BY <2>1
  <2> QED
    BY <2>1, <2>2, <1>2, <1>3
<1>5. SkipValue(q) = CHOOSE r \in q..(Len(line) + 1) :
                        SkipEnds(q, r) /\ \A s \in q..(r - 1) : ~SkipEnds(q, s)
  BY DEF SkipValue, SkipEnds
<1> HIDE DEF S, End
<1> QED
  BY <1>3, <1>4, <1>5, Zenon

(* The line is the text t and its last brace.                              *)
Line(t) == t \in Seq(Token) /\ line = t \o <<Punct("endbrace")>>

LEMMA LineFacts ==
    ASSUME NEW t, Line(t)
    PROVE  /\ Len(t) \in Nat /\ Len(line) = Len(t) + 1
           /\ \A q \in 1..Len(t) : line[q] = t[q] /\ T(q) = t[q].t /\ V(q) = t[q].v
           /\ T(Len(t) + 1) = "endbrace"
<1>1. Punct("endbrace") \in Token
  BY DEF Token
<1>2. /\ Len(t) \in Nat /\ Len(line) = Len(t) + 1 /\ line[Len(t) + 1] = Punct("endbrace")
      /\ \A q \in 1..Len(t) : line[q] = t[q]
  BY <1>1, OneAppended DEF Line
<1>3. \A q \in 1..Len(t) : T(q) = t[q].t /\ V(q) = t[q].v
  BY <1>2 DEF T, V
<1>4. T(Len(t) + 1) = "endbrace"
  BY <1>2 DEF T, Punct
<1> QED
  BY <1>2, <1>3, <1>4

(* No member begins inside another, nor at the comma behind it.            *)
LEMMA MembersApart ==
    ASSUME NEW f, IsFrame(f), NEW t, Body(f, t), NEW m \in Mem(t), NEW x \in Mem(t), m < x
    PROVE  x > After(t, m)
<1>1. MemberIn(f, t, m) /\ Len(t) \in Nat
  BY DEF Body
<1>2. PICK key, w : key = t[m].v /\ w = ValueAt(t, m)
  OBVIOUS
<1>3. Width(key) \in Nat /\ After(t, m) = m + 2 + Width(key)
  BY <1>2 DEF Width, After
<1>4. Written(f, key, w)
  BY <1>1, <1>2 DEF MemberIn
<1>5. \A i \in 1..Width(key) : ValueToken(key, w[i])
  BY <1>4, WrittenFacts, Zenon
<1>6. \A i \in 1..Width(key) : w[i] = t[m + 1 + i]
  BY <1>2 DEF ValueAt
<1>7. \A i \in 1..Width(key) : t[m + 1 + i].t # "colon"
  BY <1>5, <1>6 DEF ValueToken
<1>8. /\ m \in 1..(Len(t) - 1) /\ t[m + 1].t = "colon"
      /\ x \in 1..(Len(t) - 1) /\ t[x].t = "str" /\ t[x + 1].t = "colon"
  BY DEF Mem
<1>9. After(t, m) <= Len(t) => t[After(t, m)].t = "comma"
  BY <1>1 DEF MemberIn
<1>10. x # m + 1
  BY <1>8
<1>11. ~(x >= m + 2 /\ x < After(t, m))
  <2> SUFFICES ASSUME x >= m + 2, x < After(t, m) PROVE FALSE
    OBVIOUS
  <2>1. CASE x + 1 = After(t, m)
    BY <2>1, <1>8, <1>9
  <2>2. CASE x + 1 < After(t, m)
    <3>1. x - m \in 1..Width(key) /\ m + 1 + (x - m) = x + 1
      BY <2>2, <1>3, <1>8
    <3> QED
      BY <3>1, <1>7, <1>8
  <2> QED
    BY <2>1, <2>2, <1>3, <1>8
<1>12. x # After(t, m)
  BY <1>3, <1>8, <1>9
<1> QED
  BY <1>3, <1>8, <1>10, <1>11, <1>12

(* The decoder goes over a member to what follows it.                      *)
LEMMA MemberRead ==
    ASSUME IsFrame(frame), NEW t, Line(t), Body(frame, t), NEW m \in Mem(t)
    PROVE  /\ T(m) = "str" /\ T(m + 1) = "colon" /\ V(m) = t[m].v
           /\ ValueEnd(V(m), m + 2) = After(t, m)
           /\ After(t, m) \in Nat /\ After(t, m) > m + 2 /\ After(t, m) <= Len(t) + 1
           /\ V(m) \in KnownKeys => FieldValue(V(m), m + 2) = Measured(frame, V(m))
<1>1. MemberIn(frame, t, m) /\ Len(t) \in Nat /\ m \in 1..(Len(t) - 1)
  BY DEF Body, Mem
<1>2. PICK key, w : key = t[m].v /\ w = ValueAt(t, m)
  OBVIOUS
<1>3. /\ Written(frame, key, w) /\ After(t, m) = m + 2 + Width(key)
      /\ After(t, m) <= Len(t) + 1
      /\ After(t, m) <= Len(t) => t[After(t, m)].t = "comma"
  BY <1>1, <1>2 DEF MemberIn, After
<1>4. Width(key) \in {1, 7}
  BY DEF Width
<1>5. \A i \in 1..Width(key) : T(m + 1 + i) = w[i].t /\ V(m + 1 + i) = w[i].v
  <2>1. ASSUME NEW i \in 1..Width(key)
        PROVE  T(m + 1 + i) = w[i].t /\ V(m + 1 + i) = w[i].v
    <3>1. m + 1 + i \in 1..Len(t)
      BY <1>1, <1>3, <1>4
    <3>2. w[i] = t[m + 1 + i]
      BY <1>2 DEF ValueAt
    <3> QED
      BY <3>1, <3>2, LineFacts
  <2> QED
    BY <2>1
<1>6. T(m) = "str" /\ T(m + 1) = "colon" /\ V(m) = key
  <2>1. t[m].t = "str" /\ t[m + 1].t = "colon"
    BY DEF Mem
  <2>2. m \in 1..Len(t) /\ m + 1 \in 1..Len(t)
    BY <1>1
  <2> QED
    BY <2>1, <2>2, <1>2, LineFacts
<1>7. T(After(t, m)) \in {"comma", "endbrace"}
  <2>1. CASE After(t, m) <= Len(t)
    <3>1. After(t, m) \in 1..Len(t)
      BY <2>1, <1>1, <1>3, <1>4
    <3> QED
      BY <3>1, <2>1, <1>3, LineFacts
  <2>2. CASE After(t, m) = Len(t) + 1
    BY <2>2, LineFacts
  <2> QED
    BY <2>1, <2>2, <1>1, <1>3, <1>4
<1>8. /\ ValueEnd(key, m + 2) = After(t, m)
      /\ key \in KnownKeys => FieldValue(key, m + 2) = Measured(frame, key)
  <2>1. CASE key \in NumberKeys
    <3>1. /\ w[1].t = "num" /\ w[1].v = Number(frame, key) /\ Width(key) = 1
          /\ key \notin ArrayKeys /\ key \notin StringKeys /\ key # "role"
      BY <2>1, <1>3, KeyFacts DEF Written, Num, Width, KnownKeys, StringKeys
    <3>2. T(m + 2) = "num" /\ V(m + 2) = Number(frame, key)
      BY <3>1, <1>1, <1>5
    <3>3. ValueEnd(key, m + 2) = m + 2 + 1
      BY <2>1, <3>1, <3>2 DEF ValueEnd
    <3>4. CASE key = "ts"
      <4>1. FieldValue(key, m + 2) = ParseLong(frame.ts)
        BY <3>2, <3>4 DEF FieldValue, LongKeys, ArrayKeys, Number
      <4>2. Measured(frame, key) = ParseLong(frame.ts)
        BY <3>4 DEF Measured, ParseLong, ArrayKeys
      <4> QED
        BY <4>1, <4>2, <3>1, <3>3, <1>1, <1>3
    <3>5. CASE key = "t_active_ms"
      <4>1. FieldValue(key, m + 2) = ParseLong(frame.active)
        BY <3>2, <3>5 DEF FieldValue, LongKeys, ArrayKeys, Number
      <4>2. Measured(frame, key) = ParseLong(frame.active)
        BY <3>5 DEF Measured, ParseLong, ArrayKeys
      <4> QED
        BY <4>1, <4>2, <3>1, <3>3, <1>1, <1>3
    <3>6. CASE key \notin LongKeys
      <4>1. FieldValue(key, m + 2) = key
        BY <3>1, <3>2, <3>6 DEF FieldValue, Number, LongKeys
      <4>2. Measured(frame, key) = key
        BY <3>1, <3>6 DEF Measured, LongKeys
      <4> QED
        BY <4>1, <4>2, <3>1, <3>3, <1>1, <1>3
    <3> QED
      BY <3>4, <3>5, <3>6 DEF LongKeys
  <2>2. CASE key \in ArrayKeys
    <3>1. w = Array(key) /\ Width(key) = 7 /\ key \notin NumberKeys /\ key \notin StringKeys
          /\ key \notin LongKeys /\ key # "role"
      BY <2>2, <1>3, KeyFacts DEF Written, Width, KnownKeys, StringKeys, NumberKeys
    <3>2. /\ w[1] = Punct("bracket") /\ w[2] = Num(<<key, 1>>) /\ w[3] = Punct("comma")
          /\ w[4] = Num(<<key, 2>>) /\ w[5] = Punct("comma") /\ w[6] = Num(<<key, 3>>)
          /\ w[7] = Punct("endbracket")
      BY <3>1 DEF Array
    <3>3. /\ T(m + 2) = "bracket" /\ T(m + 3) = "num" /\ T(m + 4) = "comma"
          /\ T(m + 5) = "num" /\ T(m + 6) = "comma" /\ T(m + 7) = "num"
          /\ T(m + 8) = "endbracket"
          /\ V(m + 3) = <<key, 1>> /\ V(m + 5) = <<key, 2>> /\ V(m + 7) = <<key, 3>>
      <4>1. \A i \in 1..7 : T(m + 1 + i) = w[i].t /\ V(m + 1 + i) = w[i].v
        BY <1>5, <3>1
      <4>2. /\ m + 1 + 1 = m + 2 /\ m + 1 + 2 = m + 3 /\ m + 1 + 3 = m + 4 /\ m + 1 + 4 = m + 5
            /\ m + 1 + 5 = m + 6 /\ m + 1 + 6 = m + 7 /\ m + 1 + 7 = m + 8
        BY <1>1
      <4>3. /\ T(m + 2) = w[1].t /\ T(m + 3) = w[2].t /\ V(m + 3) = w[2].v
            /\ T(m + 4) = w[3].t /\ T(m + 5) = w[4].t /\ V(m + 5) = w[4].v
            /\ T(m + 6) = w[5].t /\ T(m + 7) = w[6].t /\ V(m + 7) = w[6].v
            /\ T(m + 8) = w[7].t
        BY <4>1, <4>2
      <4> QED
        BY <4>3, <3>2 DEF Punct, Num
    <3>4. IsArray(m + 2)
      <4>1. /\ m + 2 + 1 = m + 3 /\ m + 2 + 2 = m + 4 /\ m + 2 + 3 = m + 5 /\ m + 2 + 4 = m + 6
            /\ m + 2 + 5 = m + 7 /\ m + 2 + 6 = m + 8
        BY <1>1
      <4> QED
        BY <3>3, <4>1 DEF IsArray
    <3>5. ValueEnd(key, m + 2) = m + 2 + 7
      BY <2>2, <3>1, <3>4 DEF ValueEnd
    <3>6. FieldValue(key, m + 2) = <<<<key, 1>>, <<key, 2>>, <<key, 3>>>>
      <4>1. m + 2 + 1 = m + 3 /\ m + 2 + 3 = m + 5 /\ m + 2 + 5 = m + 7
        BY <1>1
      <4>2. FieldValue(key, m + 2) = <<V(m + 2 + 1), V(m + 2 + 3), V(m + 2 + 5)>>
        BY <2>2, <3>1 DEF FieldValue
      <4> QED
        BY <3>3, <4>1, <4>2
    <3>7. Measured(frame, key) = <<<<key, 1>>, <<key, 2>>, <<key, 3>>>>
      BY <2>2, <3>1 DEF Measured, LongKeys
    <3> QED
      BY <3>1, <3>5, <3>6, <3>7, <1>3
  <2>3. CASE key = "src"
    <3>1. w[1] = Str("src") /\ Width(key) = 1 /\ key \notin NumberKeys /\ key \in StringKeys
          /\ key \notin ArrayKeys
      BY <2>3, <1>3 DEF Written, Width, ArrayKeys, NumberKeys, LongKeys, StringKeys
    <3>2. T(m + 2) = "str" /\ V(m + 2) = "src"
      BY <3>1, <1>1, <1>5 DEF Str
    <3>3. ValueEnd(key, m + 2) = m + 2 + 1
      BY <3>1, <3>2 DEF ValueEnd
    <3>4. FieldValue(key, m + 2) = "src" /\ Measured(frame, key) = "src"
      BY <2>3, <3>2 DEF FieldValue, Measured, LongKeys, ArrayKeys
    <3> QED
      BY <3>1, <3>3, <3>4, <1>1, <1>3
  <2>4. CASE key = "role"
    <3>1. w[1] = Str(RoleText(frame)) /\ Width(key) = 1 /\ key \notin NumberKeys
          /\ key \in StringKeys /\ key \notin ArrayKeys
      BY <2>4, <1>3 DEF Written, Width, ArrayKeys, NumberKeys, LongKeys, StringKeys
    <3>2. T(m + 2) = "str" /\ V(m + 2) = RoleText(frame)
      BY <3>1, <1>1, <1>5 DEF Str
    <3>3. ValueEnd(key, m + 2) = m + 2 + 1
      BY <3>1, <3>2 DEF ValueEnd
    <3>4. FieldValue(key, m + 2) = Intern(RoleText(frame))
      BY <2>4, <3>2 DEF FieldValue, LongKeys, ArrayKeys
    <3>5. Measured(frame, key) = Intern(RoleText(frame))
      <4>1. frame.role \in {"", "CHILD", "DISABLED", "SED"}
        BY DEF IsFrame, Roles
      <4>2. CASE frame.role = ""
        BY <2>4, <4>2 DEF Measured, Intern, RoleText, LongKeys, ArrayKeys
      <4>3. CASE frame.role = "DISABLED"
        BY <2>4, <4>3 DEF Measured, Intern, RoleText, LongKeys, ArrayKeys
      <4>4. CASE frame.role \in {"CHILD", "SED"}
        BY <2>4, <4>4 DEF Measured, Intern, RoleText, LongKeys, ArrayKeys
      <4> QED
        BY <4>1, <4>2, <4>3, <4>4
    <3> QED
      BY <3>1, <3>3, <3>4, <3>5, <1>1, <1>3
  <2>5. CASE key \in {"os", "pad"}
    <3>1. Width(key) = 1 /\ key \notin NumberKeys /\ key \notin StringKeys
          /\ key \notin ArrayKeys /\ key \notin KnownKeys
      BY <2>5 DEF Width, KnownKeys, ArrayKeys, NumberKeys, LongKeys, StringKeys
    <3>2. w[1].t = "str"
      BY <2>5, <1>3 DEF Written, Str
    <3>3. T(m + 2) = "str" /\ T(m + 3) \in {"comma", "endbrace"} /\ m + 3 <= Len(line)
      <4>1. T(m + 2) = w[1].t
        BY <3>1, <1>1, <1>5
      <4> QED
        BY <4>1, <3>1, <3>2, <1>1, <1>3, <1>7, LineFacts
    <3>4. ValueEnd(key, m + 2) = SkipValue(m + 2)
      BY <3>1, <3>3 DEF ValueEnd
    <3>5. /\ SkipValue(m + 2) \in (m + 2)..(Len(line) + 1)
          /\ SkipEnds(m + 2, SkipValue(m + 2))
          /\ \A s \in (m + 2)..(SkipValue(m + 2) - 1) : ~SkipEnds(m + 2, s)
          /\ Len(line) \in Nat
      BY <3>3, <1>1, SkipFacts, LineFacts
    <3>6. ~SkipEnds(m + 2, m + 2)
      BY <3>3, <3>5, <1>1 DEF SkipEnds
    <3>7. SkipEnds(m + 2, m + 3)
      <4>1. PICK q, r : q = m + 2 /\ r = m + 3
        OBVIOUS
      <4>2. ASSUME NEW S, "str" \notin S PROVE Count(q, r, S) = 0
        <5>1. \A i \in q..(r - 1) : T(i) \notin S
          BY <1>1, <3>3, <4>1, <4>2
        <5> QED
          BY <5>1, NoneCounted
      <4>3. Depth(q, r) = 0
        BY <4>2 DEF Depth
      <4>4. SkipEnds(q, r)
        BY <3>3, <4>1, <4>3 DEF SkipEnds
      <4> QED
        BY <4>1, <4>4
    <3>8. SkipValue(m + 2) = m + 3
      BY <3>5, <3>6, <3>7, <1>1
    <3> QED
      BY <2>5, <3>1, <3>4, <3>8, <1>1, <1>3
  <2> QED
    BY <2>1, <2>2, <2>3, <2>4, <2>5, <1>3 DEF Written, KnownKeys, StringKeys
<1> QED
  BY <1>1, <1>2, <1>3, <1>4, <1>6, <1>8

-----------------------------------------------------------------------------
(***************************************************************************)
(* The text in the encoder's buffer, and what the decoder makes of a line. *)
(***************************************************************************)

(* The text of the first n pieces, and the text up to its last brace.      *)
Named(s, n) == {k \in KnownKeys : \E i \in 1..n : k \in KeysOf(s[i].tokens)}
Joined(f, n, t) == Body(f, t) /\ Fields(t) = Named(Pieces(f), n)
Whole(t) ==
    Joined(frame, Len(Pieces(frame)), t) /\ text = t \o <<Punct("endbrace")>>
Texts ==
    /\ stage = "idle" => IF next = 0 THEN text = <<>> ELSE Joined(frame, next, text)
    /\ stage = "pad" =>
          \E t : /\ Joined(frame, Len(Pieces(frame)), t)
                /\ text = t \o <<Punct("comma"), Str("pad"), Punct("colon")>>
    /\ stage = "close" => Joined(frame, Len(Pieces(frame)), text)
    /\ stage \in Arrived => \E t : Whole(t)

(* The decoder on a whole line, on one that lost its last brace, and on one *)
(* with a tag before it.                                                   *)
Before(t, q) == {t[m].v : m \in {x \in Mem(t) : x < q}} \cap KnownKeys
OnWhole(t) ==
    /\ line = text /\ stage # "einval"
    /\ stage # "open" => out = [k \in Before(t, p) |-> Measured(frame, k)]
    /\ stage = "open" => out = <<>>
    /\ stage = "member" => p \in Mem(t)
    /\ stage = "next" => \E m \in Mem(t) : p = After(t, m)
    /\ stage = "ok" => p = Len(t) + 1
OnCut ==
    /\ Len(line) \in Nat /\ \A i \in 1..Len(line) : line[i].t # "endbrace"
    /\ p \in Nat /\ p >= 1 /\ stage # "ok"
OnTag == Len(line) >= 1 /\ Len(line) \in Nat /\ line[1].t = "RX" /\ stage \in {"open", "einval"}
Lines ==
    /\ stage \notin Arrived \/ stage = "sent" => line = <<>> /\ p = 1 /\ out = <<>>
    /\ stage \in Arrived \ {"sent"} => OnCut \/ OnTag \/ \E t : Whole(t) /\ OnWhole(t)

LEMMA TextsInit == Init => Texts /\ Lines
  BY DEF Init, Texts, Lines, Arrived

LEMMA TextsReport == Report => Texts' /\ Lines'
  BY DEF Report, Texts, Lines, Arrived

(* The bytes and tokens a step appends.                                    *)
LEMMA TextsEncode == Room /\ Texts /\ Lines /\ Encode => Texts' /\ Lines'
<1> SUFFICES ASSUME Room, Texts, Lines, Encode PROVE Texts' /\ Lines'
  OBVIOUS
<1> DEFINE L == Len(Pieces(frame))
<1>1. IsFrame(frame) /\ frame' = frame /\ line' = line /\ p' = p /\ out' = out
  BY DEF Encode, EncodePiece, PadOpen, PadChunk, PortPad, PadClose, EncodeEnd, AppendText, Room,
         decoder
<1>2. line = <<>> /\ p = 1 /\ out = <<>>
  BY DEF Encode, EncodePiece, PadOpen, PadChunk, PortPad, PadClose, EncodeEnd, Padded, Lines,
         Arrived
<1>3. L \in Nat /\ L >= 1
  BY <1>1, BufferFacts
<1>4. stage' \in {"nospace", "idle", "pad", "close", "sent"}
  BY DEF Encode, EncodePiece, PadOpen, PadChunk, PortPad, PadClose, EncodeEnd, AppendText
<1>5. Lines'
  BY <1>1, <1>2, <1>4 DEF Lines, Arrived
<1>6. CASE stage' = "nospace"
  BY <1>5, <1>6 DEF Texts, Arrived
<1>7. CASE EncodePiece /\ stage' # "nospace"
  <2>1. /\ stage' = "idle" /\ text' = text \o Pieces(frame)[next + 1].tokens
        /\ next' = next + 1 /\ stage = "idle"
    BY <1>7 DEF EncodePiece, AppendText
  <2>2. next \in Nat /\ next + 1 \in 1..L
    BY <1>3, <1>7 DEF Room, EncodePiece
  <2>3. PICK s : s = Pieces(frame)
    OBVIOUS
  <2>4. InPieces(frame, s)
    BY <1>1, <2>3, PiecesShape
  <2>5. Joined(frame, next + 1, text')
    <3>1. CASE next = 0
      <4>1. Opening(frame, s[1])
        BY <2>4 DEF InPieces
      <4>2. s[1].tokens \in Seq(Token) /\ text = <<>>
        BY <3>1, <4>1, <2>1 DEF Opening, Texts
      <4>3. text' = s[1].tokens
        BY <2>1, <2>3, <3>1, <4>2
      <4>4. Named(s, 1) = KeysOf(s[1].tokens)
        BY DEF Named, KeysOf
      <4>5. Body(frame, text') /\ Fields(text') = Named(s, 1)
        BY <4>1, <4>3, <4>4 DEF Opening
      <4> QED
        BY <2>3, <3>1, <4>5 DEF Joined
    <3>2. CASE next > 0
      <4>1. Joined(frame, next, text)
        BY <2>1, <3>2 DEF Texts
      <4>2. next + 1 \in 2..Len(s)
        BY <2>2, <2>3, <3>2
      <4>3. Continues(frame, s[next + 1].tokens)
        BY <2>4, <4>2 DEF InPieces, Part
      <4>4. /\ Body(frame, text')
            /\ Fields(text') = Fields(text) \cup KeysOf(s[next + 1].tokens)
        BY <2>1, <2>3, <4>1, <4>3 DEF Joined, Continues
      <4>5. Named(s, next + 1) = Named(s, next) \cup KeysOf(s[next + 1].tokens)
        <5>1. \A i : i \in 1..(next + 1) <=> i \in 1..next \/ i = next + 1
          BY <2>2
        <5>2. KeysOf(s[next + 1].tokens) \subseteq KnownKeys
          BY DEF KeysOf
        <5>3. ASSUME NEW k \in KnownKeys
              PROVE  k \in Named(s, next + 1)
                     <=> k \in Named(s, next) \/ k \in KeysOf(s[next + 1].tokens)
          BY <5>1, Zenon DEF Named
        <5>4. Named(s, next) \subseteq KnownKeys /\ Named(s, next + 1) \subseteq KnownKeys
          BY DEF Named
        <5> QED
          BY <5>2, <5>3, <5>4
      <4> QED
        BY <2>3, <4>1, <4>4, <4>5 DEF Joined
    <3> QED
      BY <2>2, <3>1, <3>2
  <2> QED
    BY <1>1, <1>5, <2>1, <2>2, <2>5 DEF Texts, Arrived
<1>8. CASE PadOpen /\ stage' # "nospace"
  <2>1. /\ stage' = "pad" /\ text' = text \o <<Punct("comma"), Str("pad"), Punct("colon")>>
        /\ stage = "idle" /\ next = L
    BY <1>8 DEF PadOpen, AppendText
  <2>2. Joined(frame, L, text)
    BY <1>3, <2>1 DEF Texts
  <2> QED
    BY <1>1, <1>5, <2>1, <2>2 DEF Texts, Arrived
<1>9. CASE PadChunk /\ stage' # "nospace"
  <2>1. stage' = "pad" /\ stage = "pad" /\ text' = text \o <<>>
    BY <1>9 DEF PadChunk, AppendText
  <2>2. PICK t : /\ Joined(frame, L, t)
                 /\ text = t \o <<Punct("comma"), Str("pad"), Punct("colon")>>
    BY <2>1 DEF Texts
  <2>3. text' = text
    <3>1. PICK w : w = <<Punct("comma"), Str("pad"), Punct("colon")>>
      OBVIOUS
    <3>2. w \in Seq(Token) /\ t \in Seq(Token)
      BY <2>2, <3>1, ThreeElements DEF Joined, Body, Token, Strings
    <3>3. text \in Seq(Token)
      BY <2>2, <3>1, <3>2
    <3> QED
      BY <2>1, <3>3
  <2> QED
    BY <1>1, <1>5, <2>1, <2>2, <2>3 DEF Texts, Arrived
<1>10. CASE PortPad /\ stage' # "nospace"
  <2>1. stage' = "pad" /\ stage = "pad" /\ text' = text
    BY <1>10 DEF PortPad
  <2> QED
    BY <1>1, <1>5, <2>1 DEF Texts, Arrived
<1>11. CASE PadClose /\ stage' # "nospace"
  <2>1. stage' = "close" /\ stage = "pad" /\ text' = text \o <<Str("x")>>
    BY <1>11 DEF PadClose, AppendText
  <2>2. PICK t : /\ Joined(frame, L, t)
                 /\ text = t \o <<Punct("comma"), Str("pad"), Punct("colon")>>
    BY <2>1 DEF Texts
  <2>3. text' = t \o Member("pad", <<Str("x")>>)
    <3>1. PICK w : w = <<Punct("comma"), Str("pad"), Punct("colon")>>
      OBVIOUS
    <3>2. PICK x : x = <<Str("x")>>
      OBVIOUS
    <3>3. w \in Seq(Token) /\ t \in Seq(Token)
      BY <2>2, <3>1, ThreeElements DEF Joined, Body, Token, Strings
    <3>4. x \in Seq(Token)
      BY <3>2, OneElement DEF Token, Strings, Tags
    <3>5. (t \o w) \o x = t \o (w \o x)
      BY <3>3, <3>4, ConcatAssociative
    <3>6. w \o x = Member("pad", <<Str("x")>>)
      BY <3>1, <3>2 DEF Member
    <3> QED
      BY <2>1, <2>2, <3>1, <3>2, <3>5, <3>6
  <2>4. Continues(frame, Member("pad", <<Str("x")>>))
    BY <1>1, MembersContinue DEF Tags
  <2>5. KeysOf(Member("pad", <<Str("x")>>)) = {}
    <3>1. Written(frame, "pad", <<Str("x")>>) /\ "pad" \notin KnownKeys
      BY DEF Written, Tags, KnownKeys, NumberKeys, StringKeys, ArrayKeys, LongKeys
    <3> QED
      BY <1>1, <3>1, MemberKeys
  <2>6. Joined(frame, L, text')
    BY <2>2, <2>3, <2>4, <2>5 DEF Joined, Continues
  <2> QED
    BY <1>1, <1>5, <2>1, <2>6 DEF Texts, Arrived
<1>12. CASE EncodeEnd /\ stage' # "nospace"
  <2>1. stage' = "sent" /\ text' = text \o <<Punct("endbrace")>>
    BY <1>12 DEF EncodeEnd, AppendText
  <2>2. Joined(frame, L, text)
    BY <1>3, <1>12 DEF EncodeEnd, Padded, Texts
  <2>3. \E t : Whole(t)'
    BY <1>1, <2>1, <2>2 DEF Whole
  <2> QED
    BY <1>5, <2>1, <2>3 DEF Texts, Arrived
<1> QED
  BY <1>5, <1>6, <1>7, <1>8, <1>9, <1>10, <1>11, <1>12 DEF Encode

LEMMA TextsPrint ==
    Room /\ Texts /\ Lines /\ (PrintPayload \/ PortPrints \/ PortGatewayPrints) => Texts' /\ Lines'
<1> SUFFICES ASSUME Room, Texts, Lines, PrintPayload \/ PortPrints \/ PortGatewayPrints
             PROVE  Texts' /\ Lines'
  OBVIOUS
<1>1. /\ stage = "sent" /\ stage' = "open" /\ frame' = frame /\ text' = text /\ next' = next
      /\ p' = p /\ out' = out
  BY DEF PrintPayload, PortPrints, PortGatewayPrints, encoder
<1>2. p = 1 /\ out = <<>>
  BY <1>1 DEF Lines, Arrived
<1>3. PICK t : Whole(t)
  BY <1>1 DEF Texts, Arrived
<1>4. Whole(t)'
  BY <1>1, <1>3 DEF Whole
<1>5. Texts'
  BY <1>1, <1>4 DEF Texts, Arrived
<1>6. Body(frame, t) /\ t \in Seq(Token) /\ text = t \o <<Punct("endbrace")>>
  BY <1>3 DEF Whole, Joined, Body
<1>7. Punct("endbrace") \in Token
  BY DEF Token
<1>8. /\ text \in Seq(Token) /\ Len(text) = Len(t) + 1 /\ Len(t) \in Nat
      /\ \A i \in 1..Len(t) : text[i] = t[i]
  BY <1>6, <1>7, OneAppended
<1>9. CASE line' = text
  <2>1. OnWhole(t)'
    BY <1>1, <1>2, <1>9 DEF OnWhole
  <2> QED
    BY <1>1, <1>4, <1>5, <2>1 DEF Lines, Arrived
<1>10. CASE \E n \in 1..(Len(text) - 1) : line' = SubSeq(text, 1, n)
  <2>1. PICK n \in 1..(Len(text) - 1) : line' = SubSeq(text, 1, n)
    BY <1>10
  <2>2. Len(line') = n /\ \A i \in 1..n : line'[i] = text[i]
    BY <1>8, <2>1
  <2>3. \A i \in 1..Len(line') : line'[i].t # "endbrace"
    <3>1. \A i \in 1..n : i \in 1..Len(t)
      BY <1>8
    <3> QED
      BY <1>6, <1>8, <2>2, <3>1 DEF Body
  <2>4. OnCut'
    BY <1>1, <1>2, <1>8, <2>2, <2>3 DEF OnCut
  <2> QED
    BY <1>1, <1>5, <2>4 DEF Lines, Arrived
<1>11. CASE line' = <<Punct("RX")>> \o text
  <2>1. PICK r : r = <<Punct("RX")>>
    OBVIOUS
  <2> PICK S : S = Token \cup {Punct("RX")}
    OBVIOUS
  <2>2. r \in Seq(S) /\ Len(r) = 1 /\ r[1] = Punct("RX")
    BY <2>1, OneElement
  <2>3. text \in Seq(S)
    BY <1>8
  <2>4. Len(line') = 1 + Len(text) /\ line'[1] = Punct("RX")
    <3>1. PICK u : u = r \o text
      OBVIOUS
    <3>2. r \in Seq(S) /\ text \in Seq(S)
      BY <2>2, <2>3
    <3>3. Len(u) = Len(r) + Len(text)
      BY <3>1, <3>2, Appended
    <3>4. \A i \in 1..Len(r) : u[i] = r[i]
      BY <3>1, <3>2, Appended
    <3> QED
      BY <1>11, <2>1, <2>2, <3>1, <3>3, <3>4
  <2>5. OnTag'
    BY <1>1, <1>8, <2>4 DEF OnTag, Punct
  <2> QED
    BY <1>1, <1>5, <2>5 DEF Lines, Arrived
<1> QED
  BY <1>5, <1>9, <1>10, <1>11 DEF PrintPayload, PortPrints, PortGatewayPrints

(* The value of a key ends at a place in the line, or is malformed.        *)
LEMMA ValueEndFacts ==
    ASSUME Len(line) \in Nat, NEW key, NEW q \in Nat, q >= 1, ValueEnd(key, q) # 0
    PROVE  ValueEnd(key, q) \in Nat /\ ValueEnd(key, q) >= 1
<1>1. /\ NumberKeys \cap StringKeys = {} /\ NumberKeys \cap ArrayKeys = {}
      /\ StringKeys \cap ArrayKeys = {}
  BY DEF NumberKeys, StringKeys, ArrayKeys, LongKeys
<1>2. CASE key \in NumberKeys
  BY <1>1, <1>2 DEF ValueEnd
<1>3. CASE key \in StringKeys
  BY <1>1, <1>3 DEF ValueEnd
<1>4. CASE key \in ArrayKeys
  BY <1>1, <1>4 DEF ValueEnd
<1>5. CASE key \notin NumberKeys \cup StringKeys \cup ArrayKeys
  <2>1. T(q) # "end" /\ ValueEnd(key, q) = SkipValue(q)
    BY <1>5 DEF ValueEnd
  <2>2. q <= Len(line)
    BY <2>1 DEF T
  <2>3. SkipValue(q) \in q..(Len(line) + 1)
    BY <2>2, SkipFacts
  <2> QED
    BY <2>1, <2>3
<1> QED
  BY <1>2, <1>3, <1>4, <1>5

LEMMA CutDecode == OnCut /\ Decode => OnCut'
<1> SUFFICES ASSUME OnCut, Decode PROVE OnCut'
  OBVIOUS
<1>1. line' = line
  BY DEF Decode, DecodeOpen, DecodeMember, DecodeComma, DecodeEnd, DecodeError, decoder
<1>2. /\ Len(line) \in Nat /\ \A i \in 1..Len(line) : line[i].t # "endbrace"
      /\ p \in Nat /\ p >= 1
  BY DEF OnCut
<1>3. CASE DecodeOpen
  BY <1>1, <1>2, <1>3 DEF OnCut, DecodeOpen
<1>4. CASE DecodeMember
  <2>1. ValueEnd(V(p), p + 2) # 0 /\ p' = ValueEnd(V(p), p + 2) /\ stage' = "next"
    BY <1>4 DEF DecodeMember, WellFormed
  <2>2. p + 2 \in Nat /\ p + 2 >= 1
    BY <1>2
  <2>3. p' \in Nat /\ p' >= 1
    BY <1>2, <2>1, <2>2, ValueEndFacts
  <2> QED
    BY <1>1, <1>2, <2>1, <2>3 DEF OnCut
<1>5. CASE DecodeComma
  BY <1>1, <1>2, <1>5 DEF OnCut, DecodeComma
<1>6. CASE DecodeEnd
  <2>1. T(p) = "endbrace"
    BY <1>6 DEF DecodeEnd
  <2> QED
    BY <1>2, <2>1 DEF T
<1>7. CASE DecodeError
  BY <1>1, <1>2, <1>7 DEF OnCut, DecodeError, decoder
<1> QED
  BY <1>3, <1>4, <1>5, <1>6, <1>7 DEF Decode

LEMMA TagDecode == OnTag /\ Decode => OnTag'
<1> SUFFICES ASSUME OnTag, Decode PROVE OnTag'
  OBVIOUS
<1>1. T(1) = "RX"
  BY DEF OnTag, T
<1> QED
  BY <1>1 DEF OnTag, Decode, DecodeOpen, DecodeMember, DecodeComma, DecodeEnd, DecodeError, decoder

(* The members before the place behind a member are it and those before it. *)
LEMMA BeforeAfter ==
    ASSUME NEW f, IsFrame(f), NEW t, Body(f, t), NEW m \in Mem(t)
    PROVE  /\ Before(t, After(t, m)) = Before(t, m) \cup ({t[m].v} \cap KnownKeys)
           /\ After(t, m) + 1 \in Mem(t) => Before(t, After(t, m) + 1) = Before(t, After(t, m))
<1>1. /\ \A x \in Mem(t) : x \in Nat
      /\ Len(t) \in Nat
  BY DEF Mem, Body
<1>2. After(t, m) \in Nat /\ m < After(t, m)
  BY <1>1 DEF After, Width
<1>3. \A x \in Mem(t) : m < x => x > After(t, m)
  BY MembersApart
<1>4. \A x \in Mem(t) : x < After(t, m) <=> x < m \/ x = m
  BY <1>1, <1>2, <1>3
<1>5. \A x \in Mem(t) : x < After(t, m) + 1 <=> x < After(t, m)
  BY <1>1, <1>2, <1>3
<1> QED
  BY <1>4, <1>5 DEF Before

LEMMA WholeDecode ==
    ASSUME Room, NEW t, Whole(t), OnWhole(t), Decode
    PROVE  (Whole(t) /\ OnWhole(t))' /\ stage' \in Arrived \ {"sent"}
<1>1. /\ frame' = frame /\ text' = text /\ line' = line /\ line = text
      /\ stage' \in Arrived \ {"sent"}
  BY DEF Decode, DecodeOpen, DecodeMember, DecodeComma, DecodeEnd, DecodeError, decoder, encoder,
         OnWhole, Arrived
<1>2. Whole(t)'
  BY <1>1 DEF Whole
<1>3. IsFrame(frame) /\ Body(frame, t)
  BY DEF Room, Whole, Joined
<1>4. Line(t)
  BY <1>1, <1>3 DEF Line, Whole, Body
<1>5. /\ Len(t) \in Nat /\ Len(line) = Len(t) + 1
      /\ \A q \in 1..Len(t) : T(q) = t[q].t /\ T(q) # "endbrace"
      /\ T(Len(t) + 1) = "endbrace"
  BY <1>3, <1>4, LineFacts DEF Body
<1>6. /\ t[1].t = "brace" /\ 2 \in Mem(t) /\ Mem(t) \subseteq 1..(Len(t) - 1)
  BY <1>3 DEF Body, Mem
<1>7. \A m \in Mem(t) :
         /\ After(t, m) \in Nat /\ After(t, m) >= 1 /\ After(t, m) <= Len(t) + 1
         /\ After(t, m) <= Len(t) =>
                T(After(t, m)) = "comma" /\ After(t, m) + 1 \in Mem(t)
  <2>1. ASSUME NEW m \in Mem(t)
        PROVE  /\ After(t, m) \in Nat /\ After(t, m) >= 1 /\ After(t, m) <= Len(t) + 1
               /\ After(t, m) <= Len(t) =>
                      T(After(t, m)) = "comma" /\ After(t, m) + 1 \in Mem(t)
    <3>1. After(t, m) \in Nat /\ After(t, m) > m + 2 /\ After(t, m) <= Len(t) + 1
      BY <1>3, <1>4, MemberRead
    <3>2. MemberIn(frame, t, m) /\ m \in Nat
      BY <1>3, <1>6 DEF Body
    <3> QED
      BY <1>5, <3>1, <3>2 DEF MemberIn
  <2> QED
    BY <2>1
<1>8. CASE DecodeOpen
  <2>1. stage = "open" /\ stage' = "member" /\ p' = 2 /\ out' = <<>>
    BY <1>8 DEF DecodeOpen, OnWhole
  <2>2. Before(t, 2) = {}
    <3>1. ASSUME NEW x \in Mem(t) PROVE ~(x < 2)
      BY <1>6 DEF Mem
    <3> QED
      BY <3>1 DEF Before
  <2>3. out' = [k \in Before(t, 2) |-> Measured(frame, k)]
    BY <2>1, <2>2
  <2> QED
    BY <1>1, <1>2, <1>6, <2>1, <2>3 DEF OnWhole
<1>9. CASE DecodeMember
  <2>1. /\ stage = "member" /\ stage' = "next" /\ p' = ValueEnd(V(p), p + 2)
        /\ out' = IF V(p) \in KnownKeys
                  THEN [k \in DOMAIN out \cup {V(p)} |->
                           IF k = V(p) THEN FieldValue(V(p), p + 2) ELSE out[k]]
                  ELSE out
    BY <1>9 DEF DecodeMember
  <2>2. p \in Mem(t) /\ out = [k \in Before(t, p) |-> Measured(frame, k)]
    BY <2>1 DEF OnWhole
  <2>3. /\ p' = After(t, p) /\ V(p) = t[p].v
        /\ V(p) \in KnownKeys => FieldValue(V(p), p + 2) = Measured(frame, V(p))
    BY <1>3, <1>4, <2>1, <2>2, MemberRead
  <2>4. Before(t, After(t, p)) = Before(t, p) \cup ({V(p)} \cap KnownKeys)
    BY <1>3, <2>2, <2>3, BeforeAfter
  <2>5. out' = [k \in Before(t, p') |-> Measured(frame, k)]
    <3>1. CASE V(p) \in KnownKeys
      <4>1. Before(t, p') = DOMAIN out \cup {V(p)}
        BY <2>2, <2>3, <2>4, <3>1
      <4>2. out' = [k \in DOMAIN out \cup {V(p)} |->
                       IF k = V(p) THEN FieldValue(V(p), p + 2) ELSE out[k]]
        BY <2>1, <3>1
      <4>3. \A k \in DOMAIN out : out[k] = Measured(frame, k)
        BY <2>2
      <4> QED
        BY <2>3, <3>1, <4>1, <4>2, <4>3
    <3>2. CASE V(p) \notin KnownKeys
      BY <2>1, <2>2, <2>3, <2>4, <3>2
    <3> QED
      BY <3>1, <3>2
  <2> QED
    BY <1>1, <1>2, <2>1, <2>2, <2>3, <2>5 DEF OnWhole
<1>10. CASE DecodeComma
  <2>1. stage = "next" /\ stage' = "member" /\ p' = p + 1 /\ out' = out /\ T(p) = "comma"
    BY <1>10 DEF DecodeComma
  <2>2. PICK m \in Mem(t) : p = After(t, m)
    BY <2>1 DEF OnWhole
  <2>3. p + 1 \in Mem(t)
    BY <1>5, <1>7, <2>1, <2>2
  <2>4. Before(t, p + 1) = Before(t, p)
    BY <1>3, <2>2, <2>3, BeforeAfter
  <2>5. out' = [k \in Before(t, p') |-> Measured(frame, k)]
    BY <2>1, <2>4 DEF OnWhole
  <2> QED
    BY <1>1, <1>2, <2>1, <2>3, <2>5 DEF OnWhole
<1>11. CASE DecodeEnd
  <2>1. stage \in {"member", "next"} /\ T(p) = "endbrace" /\ stage' = "ok" /\ p' = p /\ out' = out
    BY <1>11 DEF DecodeEnd, decoder
  <2>2. stage # "member"
    <3>1. ASSUME stage = "member" PROVE T(p) = "str"
      BY <1>3, <1>4, <3>1, MemberRead DEF OnWhole
    <3> QED
      BY <2>1, <3>1
  <2>3. PICK m \in Mem(t) : p = After(t, m)
    BY <2>1, <2>2 DEF OnWhole
  <2>4. p = Len(t) + 1
    BY <1>5, <1>7, <2>1, <2>3
  <2> QED
    BY <1>1, <1>2, <2>1, <2>2, <2>4 DEF OnWhole
<1>12. CASE DecodeError
  <2>1. CASE stage = "open" /\ T(1) # "brace"
    <3>1. 1 \in 1..Len(t)
      BY <1>5, <1>6
    <3> QED
      BY <1>5, <1>6, <2>1, <3>1
  <2>2. CASE stage = "member" /\ ~WellFormed
    <3>1. p \in Mem(t)
      BY <2>2 DEF OnWhole
    <3>2. T(p) = "str" /\ T(p + 1) = "colon" /\ ValueEnd(V(p), p + 2) > p + 2
          /\ ValueEnd(V(p), p + 2) \in Nat
      BY <1>3, <1>4, <3>1, MemberRead
    <3> QED
      BY <1>6, <2>2, <3>1, <3>2 DEF WellFormed
  <2>3. CASE stage = "next" /\ T(p) \notin {"comma", "endbrace"}
    <3>1. PICK m \in Mem(t) : p = After(t, m)
      BY <2>3 DEF OnWhole
    <3>2. CASE p <= Len(t)
      BY <1>7, <2>3, <3>1, <3>2
    <3>3. CASE p = Len(t) + 1
      BY <1>5, <2>3, <3>3
    <3> QED
      BY <1>5, <1>7, <3>1, <3>2, <3>3
  <2> QED
    BY <1>12, <2>1, <2>2, <2>3 DEF DecodeError
<1> QED
  BY <1>8, <1>9, <1>10, <1>11, <1>12 DEF Decode

LEMMA TextsDecode == Room /\ Texts /\ Lines /\ Decode => Texts' /\ Lines'
<1> SUFFICES ASSUME Room, Texts, Lines, Decode PROVE Texts' /\ Lines'
  OBVIOUS
<1>1. /\ frame' = frame /\ text' = text /\ next' = next
      /\ stage \in Arrived \ {"sent"} /\ stage' \in Arrived \ {"sent"}
  BY DEF Decode, DecodeOpen, DecodeMember, DecodeComma, DecodeEnd, DecodeError, encoder, Arrived
<1>2. Texts'
  BY <1>1 DEF Texts, Arrived, Whole
<1>3. OnCut' \/ OnTag' \/ \E t : (Whole(t) /\ OnWhole(t))'
  BY <1>1, CutDecode, TagDecode, WholeDecode DEF Lines
<1> QED
  BY <1>1, <1>2, <1>3 DEF Lines

LEMMA TextsStutter == Texts /\ Lines /\ UNCHANGED vars => Texts' /\ Lines'
  BY DEF Texts, Lines, vars, Whole, OnCut, OnTag, OnWhole, V, T

LEMMA TextsInvariant == Spec => [](Room /\ Texts /\ Lines)
<1>1. Room /\ Texts /\ Lines /\ [Next]_vars => (Room /\ Texts /\ Lines)'
  BY RoomReport, RoomEncode, RoomRest, TextsReport, TextsEncode, TextsPrint, TextsDecode,
     TextsStutter DEF Next
<1> QED
  BY RoomInit, TextsInit, <1>1, PTL DEF Spec

LEMMA KeysNamed ==
    ASSUME NEW f, IsFrame(f)
    PROVE  Keys(f) = Named(Pieces(f), Len(Pieces(f)))
<1>1. PICK s : s = Pieces(f)
  OBVIOUS
<1>2. \A i : KeysOf(s[i].tokens) \subseteq KnownKeys
  BY DEF KeysOf
<1>3. ASSUME NEW k
      PROVE  k \in UNION {KeysOf(s[i].tokens) : i \in 1..Len(s)}
             <=> \E i \in 1..Len(s) : k \in KeysOf(s[i].tokens)
  OBVIOUS
<1>4. UNION {KeysOf(s[i].tokens) : i \in 1..Len(s)} = Named(s, Len(s))
  BY <1>2, <1>3 DEF Named
<1> QED
  BY <1>1, <1>4 DEF Keys

(* A frame printed whole is read back as it was measured, with the padding  *)
(* and the tags of the ports skipped, and it is never refused: the encoders *)
(* and cookie_frame_from_json, for every frame, buffer and padding.        *)
THEOREM FrameIsReadBack == Spec => []RoundTrip
<1>1. Room /\ Texts /\ Lines => RoundTrip
  <2> SUFFICES ASSUME Room, Texts, Lines PROVE RoundTrip
    OBVIOUS
  <2>1. ASSUME stage \in {"ok", "einval"}, NEW t, Whole(t)
        PROVE  /\ OnCut \/ OnTag => stage # "ok" /\ line # text
               /\ OnWhole(t) => /\ stage = "ok"
                               /\ out = [k \in Keys(frame) |-> Measured(frame, k)]
    <3>1. Body(frame, t) /\ IsFrame(frame) /\ Fields(t) = Keys(frame)
      BY <2>1, KeysNamed DEF Whole, Joined, Room
    <3>2. t \in Seq(Token) /\ t # <<>> /\ t[1].t = "brace" /\ text = t \o <<Punct("endbrace")>>
      BY <2>1, <3>1 DEF Body, Whole
    <3>3. Punct("endbrace") \in Token
      BY DEF Token
    <3>4. /\ Len(text) = Len(t) + 1 /\ Len(t) \in Nat /\ text[Len(t) + 1] = Punct("endbrace")
          /\ \A i \in 1..Len(t) : text[i] = t[i]
      BY <3>2, <3>3, OneAppended
    <3>5. text[1].t = "brace" /\ text[Len(text)].t = "endbrace" /\ Len(text) >= 1
      BY <3>2, <3>4 DEF Punct
    <3>6. OnCut => line # text /\ stage # "ok"
      BY <3>4, <3>5 DEF OnCut
    <3>7. OnTag => line # text /\ stage # "ok"
      BY <3>5 DEF OnTag
    <3>8. ASSUME OnWhole(t)
          PROVE  stage = "ok" /\ out = [k \in Keys(frame) |-> Measured(frame, k)]
      <4>1. stage = "ok" /\ p = Len(t) + 1
        BY <2>1, <3>8 DEF OnWhole
      <4>2. Before(t, p) = Fields(t)
        <5>1. \A m \in Mem(t) : m < p
          BY <3>4, <4>1 DEF Mem
        <5> QED
          BY <5>1 DEF Before, Fields
      <4> QED
        BY <3>1, <3>8, <4>1, <4>2 DEF OnWhole
    <3> QED
      BY <3>6, <3>7, <3>8
  <2>2. stage \in {"ok", "einval"} =>
            /\ \E t : Whole(t)
            /\ OnCut \/ OnTag \/ \E t : Whole(t) /\ OnWhole(t)
    BY DEF Texts, Lines, Arrived
  <2>3. ASSUME Complete PROVE stage # "einval"
    BY <2>1, <2>2, <2>3 DEF Complete
  <2>4. ASSUME stage = "ok" PROVE out = [k \in Keys(frame) |-> Measured(frame, k)]
    BY <2>1, <2>2, <2>4
  <2> QED
    BY <2>3, <2>4 DEF RoundTrip
<1> QED
  BY <1>1, TextsInvariant, PTL

(* A line that lost its end, wherever it was cut, and one with a tag before *)
(* it are never taken for a frame: cookie_frame_from_json on what the        *)
(* gateways print.                                                         *)
THEOREM CutIsRefused == Spec => []CutIsRejected
<1>1. Room /\ Texts /\ Lines => CutIsRejected
  BY DEF Lines, OnCut, OnTag, OnWhole, Arrived, CutIsRejected, Complete
<1> QED
  BY <1>1, TextsInvariant, PTL
=============================================================================
