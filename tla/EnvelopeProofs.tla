---------------------------- MODULE EnvelopeProofs ----------------------------
(***************************************************************************)
(* What Envelope claims of who reaches the engine and of what it opens,    *)
(* for any certificates, tokens, users, keys and contexts of any length.   *)
(***************************************************************************)
EXTENDS Envelope, SequenceTheorems, WellFoundedInduction, TLAPS

\* Every non-empty set of naturals has a least element.
LEMMA MinFacts ==
  ASSUME NEW S \in SUBSET Nat, S # {}
  PROVE  Min(S) \in S /\ \A i \in S : Min(S) <= i
<1> DEFINE R == {p \in Nat \X Nat : p[1] < p[2]}
<1>1. IsWellFoundedOn(R, Nat)
  BY NatLessThanWellFounded DEF OpToRel
<1>2. PICK m \in S : \A i \in S : <<i, m>> \notin R
  <2> HIDE DEF R
  <2> QED BY <1>1, WFMin
<1>3. ASSUME NEW i \in S
      PROVE  m <= i
  <2>1. <<i, m>> \in Nat \X Nat /\ <<i, m>>[1] = i /\ <<i, m>>[2] = m
    OBVIOUS
  <2>2. ~(i < m)
    BY <1>2, <2>1
  <2>3. QED
    BY <2>2
<1>4. QED
  BY <1>3 DEF Min

LEMMA MaxFacts ==
  ASSUME NEW n \in Nat, NEW S \in SUBSET (0..n), S # {}
  PROVE  Max(S) \in S
<1>1. PICK T : T = {n - i : i \in S}
  OBVIOUS
<1>2. T \in SUBSET Nat /\ T # {}
  <2>1. \A i \in S : i \in 0..n /\ n - i \in Nat
    OBVIOUS
  <2>2. T \subseteq Nat
    BY <1>1, <2>1
  <2>3. T # {}
    BY <1>1
  <2>4. QED
    BY <2>2, <2>3
<1>3. Min(T) \in T /\ \A t \in T : Min(T) <= t
  BY <1>2, MinFacts
<1>4. PICK m \in S : Min(T) = n - m
  BY <1>1, <1>3
<1>5. ASSUME NEW i \in S
      PROVE  m >= i
  <2>1. n - i \in T /\ n - m <= n - i
    BY <1>1, <1>3, <1>4
  <2>2. i \in Int /\ m \in Int
    OBVIOUS
  <2>3. QED
    BY <2>1, <2>2
<1>6. QED
  BY <1>5 DEF Max

-----------------------------------------------------------------------------
(* Errors *)

LEMMA CheckFacts ==
  ASSUME NEW failed \in BOOLEAN, NEW error, error # "ok"
  PROVE  Check(failed, error) = "ok" <=> ~failed
BY DEF Check

LEMMA FirstErrorFacts ==
  ASSUME NEW errors, DOMAIN errors \in SUBSET Nat
  PROVE  FirstError(errors) = "ok" <=> \A i \in DOMAIN errors : errors[i] = "ok"
<1>1. PICK failed : failed = {i \in DOMAIN errors : errors[i] # "ok"}
  OBVIOUS
<1>2. FirstError(errors) = IF failed = {} THEN "ok" ELSE errors[Min(failed)]
  BY <1>1 DEF FirstError
<1>3. failed # {} => Min(failed) \in failed
  BY <1>1, MinFacts
<1>4. QED
  BY <1>1, <1>2, <1>3

LEMMA FirstOfTwo ==
  ASSUME NEW a, NEW b
  PROVE  FirstError(<<a, b>>) = "ok" <=> a = "ok" /\ b = "ok"
<1>1. PICK s : s = <<a, b>>
  OBVIOUS
<1>2. DOMAIN s = {1, 2} /\ s[1] = a /\ s[2] = b
  BY <1>1
<1>3. QED
  BY <1>1, <1>2, FirstErrorFacts

LEMMA FirstOfThree ==
  ASSUME NEW a, NEW b, NEW c
  PROVE  FirstError(<<a, b, c>>) = "ok" <=> a = "ok" /\ b = "ok" /\ c = "ok"
<1>1. PICK s : s = <<a, b, c>>
  OBVIOUS
<1>2. DOMAIN s = {1, 2, 3} /\ s[1] = a /\ s[2] = b /\ s[3] = c
  BY <1>1
<1>3. QED
  BY <1>1, <1>2, FirstErrorFacts

LEMMA FirstOfFour ==
  ASSUME NEW a, NEW b, NEW c, NEW d
  PROVE  FirstError(<<a, b, c, d>>) = "ok" <=> a = "ok" /\ b = "ok" /\ c = "ok" /\ d = "ok"
<1>1. PICK s : s = <<a, b, c, d>>
  OBVIOUS
<1>2. DOMAIN s = {1, 2, 3, 4} /\ s[1] = a /\ s[2] = b /\ s[3] = c /\ s[4] = d
  BY <1>1
<1>3. QED
  BY <1>1, <1>2, FirstErrorFacts

LEMMA FirstOfSeven ==
  ASSUME NEW a, NEW b, NEW c, NEW d, NEW e, NEW f, NEW g
  PROVE  FirstError(<<a, b, c, d, e, f, g>>) = "ok" <=>
           a = "ok" /\ b = "ok" /\ c = "ok" /\ d = "ok" /\ e = "ok" /\ f = "ok" /\ g = "ok"
<1>1. PICK s : s = <<a, b, c, d, e, f, g>>
  OBVIOUS
<1>2. /\ DOMAIN s = {1, 2, 3, 4, 5, 6, 7}
      /\ s[1] = a /\ s[2] = b /\ s[3] = c /\ s[4] = d /\ s[5] = e /\ s[6] = f /\ s[7] = g
  BY <1>1
<1>3. QED
  BY <1>1, <1>2, FirstErrorFacts

LEMMA StatusFacts == \A error : StatusOf(error) = 200 <=> error = "ok"
BY DEF StatusOf

-----------------------------------------------------------------------------
(* Contexts *)

\* What is left of a context is one.
LEMMA ReceivedIsContext ==
  ASSUME NEW ctx \in Seq(Characters), NEW format
  PROVE  Received(format, ctx) \in Seq(Characters)
<1>1. PICK kept : kept = {i \in DOMAIN ctx : ctx[i] # " "}
  OBVIOUS
<1>2. PICK n \in Nat : n = Len(ctx) /\ DOMAIN ctx = 1..n /\ \A i \in 1..n : ctx[i] \in Characters
  BY LenProperties, ElementOfSeq
<1>3. CASE kept # {}
  <2>1. kept \in SUBSET Nat /\ kept \in SUBSET (0..n)
    <3>1. kept \subseteq 1..n
      BY <1>1, <1>2
    <3>2. 1..n \subseteq Nat /\ 1..n \subseteq 0..n
      OBVIOUS
    <3>3. QED
      BY <3>1, <3>2
  <2>2. Min(kept) \in kept /\ Max(kept) \in kept
    BY <1>3, <2>1, MinFacts, MaxFacts
  <2>3. PICK l \in 1..n, m \in 1..n : l = Min(kept) /\ m = Max(kept)
    BY <1>1, <1>2, <2>2
  <2>4. l \in Int /\ m \in Int /\ \A i \in l..m : ctx[i] \in Characters
    BY <1>2
  <2>5. SubSeq(ctx, l, m) \in Seq(Characters)
    BY <2>4, SubSeqProperties
  <2>6. QED
    BY <1>1, <1>3, <2>3, <2>5 DEF Received
<1>4. CASE kept = {}
  <2>1. <<>> \in Seq(Characters)
    OBVIOUS
  <2>2. QED
    BY <1>1, <1>4, <2>1 DEF Received
<1>5. QED
  BY <1>3, <1>4

LEMMA ConcatFacts ==
  ASSUME NEW S, NEW s \in Seq(S), NEW t \in Seq(S)
  PROVE  /\ s \o t \in Seq(S) /\ Len(s \o t) = Len(s) + Len(t)
         /\ \A i \in 1..Len(s) : (s \o t)[i] = s[i]
         /\ \A i \in 1..Len(t) : (s \o t)[Len(s) + i] = t[i]
<1>1. PICK m \in Nat, n \in Nat : m = Len(s) /\ n = Len(t)
  BY LenProperties
<1>2. /\ s \o t \in Seq(S) /\ Len(s \o t) = m + n
      /\ \A i \in 1..m + n : (s \o t)[i] = IF i <= m THEN s[i] ELSE t[i - m]
  BY <1>1, ConcatProperties
<1>3. \A i \in 1..m : (s \o t)[i] = s[i]
  BY <1>2
<1>4. ASSUME NEW i \in 1..n
      PROVE  (s \o t)[m + i] = t[i]
  <2>1. m + i \in 1..m + n /\ ~(m + i <= m) /\ (m + i) - m = i
    OBVIOUS
  <2>2. QED
    BY <1>2, <2>1
<1>5. QED
  BY <1>1, <1>2, <1>3, <1>4

\* The separator is in no identity, so an identity and a context can be told apart.
LEMMA BoundContextInjective ==
  ASSUME NEW id \in Names, NEW jd \in Names,
         NEW c \in Seq(Characters), NEW d \in Seq(Characters),
         BoundContext(id, c) = BoundContext(jd, d)
  PROVE  id = jd /\ c = d
<1>0. PICK C : C = Characters \cup {"IDENTITY:", "NUL"}
  OBVIOUS
<1>1. ASSUME NEW x \in Names, NEW e \in Seq(Characters)
      PROVE  /\ x \in Seq(C) /\ e \in Seq(C) /\ Len(x) \in Nat /\ Len(e) \in Nat
             /\ Len(BoundContext(x, e)) = Len(x) + Len(e) + 2
             /\ \A i \in 1..Len(x) : BoundContext(x, e)[i + 1] = x[i] /\ x[i] # "NUL"
             /\ BoundContext(x, e)[Len(x) + 2] = "NUL"
             /\ \A i \in 1..Len(e) : BoundContext(x, e)[Len(x) + 2 + i] = e[i]
  <2>1. /\ x \in Seq(C) /\ e \in Seq(C) /\ Len(x) \in Nat /\ Len(e) \in Nat
        /\ \A i \in 1..Len(x) : x[i] # "NUL"
    <3>1. x \in Seq(Characters \ {"NUL"})
      BY DEF Names
    <3>2. x \in Seq(C)
      BY <1>0, <3>1, SeqMonotonic
    <3>3. e \in Seq(C)
      BY <1>0, SeqMonotonic
    <3>4. \A i \in 1..Len(x) : x[i] \in Characters \ {"NUL"}
      BY <3>1, ElementOfSeq
    <3>5. QED
      BY <3>2, <3>3, <3>4, LenProperties
  <2>2. PICK m \in Nat, n \in Nat : m = Len(x) /\ n = Len(e)
    BY <2>1
  <2>3. PICK p, q : p = <<"IDENTITY:">> /\ q = <<"NUL">>
    OBVIOUS
  <2>4. /\ p \in Seq(C) /\ Len(p) = 1 /\ q \in Seq(C) /\ Len(q) = 1 /\ q[1] = "NUL"
    BY <1>0, <2>3
  <2>5. PICK y : y = p \o x
    OBVIOUS
  <2>6. y \in Seq(C) /\ Len(y) = 1 + m /\ \A i \in 1..m : y[1 + i] = x[i]
    <3>1. p \in Seq(C) /\ x \in Seq(C)
      BY <2>1, <2>4
    <3>2. /\ p \o x \in Seq(C) /\ Len(p \o x) = Len(p) + Len(x)
          /\ \A i \in 1..Len(p) : (p \o x)[i] = p[i]
          /\ \A i \in 1..Len(x) : (p \o x)[Len(p) + i] = x[i]
      BY <3>1, ConcatFacts
    <3>3. QED
      BY <2>2, <2>4, <2>5, <3>2
  <2>7. PICK k \in Nat : k = 1 + m
    OBVIOUS
  <2>8. PICK z : z = y \o q
    OBVIOUS
  <2>9. z \in Seq(C) /\ Len(z) = k + 1
        /\ (\A i \in 1..k : z[i] = y[i]) /\ (\A i \in 1..1 : z[k + i] = q[i])
    <3>1. y \in Seq(C) /\ q \in Seq(C)
      BY <2>4, <2>6
    <3>2. /\ y \o q \in Seq(C) /\ Len(y \o q) = Len(y) + Len(q)
          /\ \A i \in 1..Len(y) : (y \o q)[i] = y[i]
          /\ \A i \in 1..Len(q) : (y \o q)[Len(y) + i] = q[i]
      BY <3>1, ConcatFacts
    <3>3. QED
      BY <2>4, <2>6, <2>7, <2>8, <3>2
  <2>10. PICK l \in Nat : l = k + 1
    OBVIOUS
  <2>11. PICK w : w = z \o e
    OBVIOUS
  <2>12. Len(w) = l + n /\ (\A i \in 1..l : w[i] = z[i]) /\ (\A i \in 1..n : w[l + i] = e[i])
    <3>1. z \in Seq(C) /\ e \in Seq(C)
      BY <2>1, <2>9
    <3>2. /\ z \o e \in Seq(C) /\ Len(z \o e) = Len(z) + Len(e)
          /\ \A i \in 1..Len(z) : (z \o e)[i] = z[i]
          /\ \A i \in 1..Len(e) : (z \o e)[Len(z) + i] = e[i]
      BY <3>1, ConcatFacts
    <3>3. QED
      BY <2>2, <2>9, <2>10, <2>11, <3>2
  <2>13. BoundContext(x, e) = w
    BY <2>3, <2>5, <2>8, <2>11 DEF BoundContext
  <2>14. ASSUME NEW i \in 1..m
         PROVE  w[i + 1] = x[i]
    <3>1. i + 1 \in 1..k /\ i + 1 \in 1..l /\ i + 1 = 1 + i
      BY <2>7, <2>10
    <3>2. QED
      BY <2>6, <2>9, <2>12, <3>1
  <2>15. w[m + 2] = "NUL"
    <3>1. m + 2 \in 1..l /\ m + 2 = k + 1 /\ 1 \in 1..1
      BY <2>7, <2>10
    <3>2. z[k + 1] = q[1]
      BY <2>9, <3>1
    <3>3. QED
      BY <2>4, <2>12, <3>1, <3>2
  <2>16. l = m + 2 /\ l + n = m + n + 2
    BY <2>7, <2>10
  <2>17. QED
    BY <2>1, <2>2, <2>12, <2>13, <2>14, <2>15, <2>16
<1>2. PICK u : u = BoundContext(id, c) /\ u = BoundContext(jd, d)
  OBVIOUS
<1>3. PICK m \in Nat, n \in Nat : m = Len(id) /\ n = Len(jd)
  BY <1>1
<1>4. PICK k \in Nat, l \in Nat : k = Len(c) /\ l = Len(d)
  BY <1>1
<1>5. /\ m + k = n + l /\ u[m + 2] = "NUL" /\ u[n + 2] = "NUL"
      /\ \A i \in 1..m : u[i + 1] = id[i] /\ u[i + 1] # "NUL"
      /\ \A i \in 1..n : u[i + 1] = jd[i] /\ u[i + 1] # "NUL"
      /\ \A i \in 1..k : u[m + 2 + i] = c[i]
      /\ \A i \in 1..l : u[n + 2 + i] = d[i]
  <2>1. Len(u) = m + k + 2 /\ Len(u) = n + l + 2
    BY <1>1, <1>2, <1>3, <1>4
  <2>2. m + k = n + l
    BY <2>1
  <2>3. /\ u[m + 2] = "NUL" /\ (\A i \in 1..m : u[i + 1] = id[i] /\ id[i] # "NUL")
        /\ \A i \in 1..k : u[m + 2 + i] = c[i]
    <3>1. u[m + 2] = "NUL" /\ \A i \in 1..m : u[i + 1] = id[i] /\ id[i] # "NUL"
      BY <1>1, <1>2, <1>3
    <3>2. \A i \in 1..k : u[m + 2 + i] = c[i]
      BY <1>1, <1>2, <1>3, <1>4
    <3>3. QED
      BY <3>1, <3>2
  <2>4. /\ u[n + 2] = "NUL" /\ (\A i \in 1..n : u[i + 1] = jd[i] /\ jd[i] # "NUL")
        /\ \A i \in 1..l : u[n + 2 + i] = d[i]
    <3>1. u[n + 2] = "NUL" /\ \A i \in 1..n : u[i + 1] = jd[i] /\ jd[i] # "NUL"
      BY <1>1, <1>2, <1>3
    <3>2. \A i \in 1..l : u[n + 2 + i] = d[i]
      BY <1>1, <1>2, <1>3, <1>4
    <3>3. QED
      BY <3>1, <3>2
  <2>5. QED
    BY <2>2, <2>3, <2>4
<1>6. m = n
  <2>1. ~(m < n)
    <3> SUFFICES ASSUME m < n PROVE FALSE
      OBVIOUS
    <3>1. m + 1 \in 1..n /\ m + 1 + 1 = m + 2
      OBVIOUS
    <3>2. QED
      BY <1>5, <3>1
  <2>2. ~(n < m)
    <3> SUFFICES ASSUME n < m PROVE FALSE
      OBVIOUS
    <3>1. n + 1 \in 1..m /\ n + 1 + 1 = n + 2
      OBVIOUS
    <3>2. QED
      BY <1>5, <3>1
  <2>3. QED
    BY <2>1, <2>2
<1>7. id = jd
  <2>1. id \in Seq(C) /\ jd \in Seq(C) /\ Len(id) = Len(jd)
        /\ \A i \in 1..Len(id) : id[i] = jd[i]
    BY <1>1, <1>3, <1>4, <1>5, <1>6
  <2>2. QED
    BY <2>1, SeqEqual
<1>8. c = d
  <2>1. c \in Seq(C) /\ d \in Seq(C) /\ Len(c) = Len(d)
    BY <1>1, <1>3, <1>4, <1>5, <1>6
  <2>2. \A i \in 1..Len(c) : c[i] = d[i]
    BY <1>4, <1>5, <1>6, <2>1
  <2>3. QED
    BY <2>1, <2>2, SeqEqual
<1>9. QED
  BY <1>7, <1>8

-----------------------------------------------------------------------------
(* Derivations *)

LEMMA TranscriptFacts ==
  ASSUME NEW label, NEW usage, NEW encap, NEW pk, NEW ctx, NEW T,
         T = Transcript(label, usage, encap, pk, ctx)
  PROVE  /\ T[4] = usage /\ T[5] = encap
         /\ ctx = <<>> => Len(T) = 6
         /\ ctx # <<>> => Len(T) = 8 /\ T[8] = ctx
<1>1. PICK six, two : /\ six = <<Version, label, AlgoForUsage(usage), usage, encap, pk>>
                      /\ two = IF ctx = <<>> THEN <<>> ELSE <<"ENCRYPTION-CONTEXT", ctx>>
  OBVIOUS
<1>2. PICK S : S = {Version, label, AlgoForUsage(usage), usage, encap, pk,
                    "ENCRYPTION-CONTEXT", ctx}
  OBVIOUS
<1>3. six \in Seq(S) /\ Len(six) = 6 /\ six[4] = usage /\ six[5] = encap
  BY <1>1, <1>2
<1>4. CASE ctx = <<>>
  <2>1. two = <<>>
    BY <1>1, <1>4
  <2>2. six \o <<>> = six
    BY <1>3, ConcatEmptySeq
  <2>3. T = six
    BY <1>1, <1>4, <2>1, <2>2 DEF Transcript
  <2>4. QED
    BY <1>3, <1>4, <2>3
<1>5. CASE ctx # <<>>
  <2>1. two \in Seq(S) /\ Len(two) = 2 /\ two[2] = ctx
    BY <1>1, <1>2, <1>5
  <2>2. /\ Len(six \o two) = Len(six) + Len(two)
        /\ \A i \in 1..Len(six) : (six \o two)[i] = six[i]
        /\ \A i \in 1..Len(two) : (six \o two)[Len(six) + i] = two[i]
    <3>1. six \in Seq(S) /\ two \in Seq(S)
      BY <1>3, <2>1
    <3>2. QED
      BY <3>1, ConcatFacts
  <2>3. T = six \o two
    BY <1>1, <1>5 DEF Transcript
  <2>4. T[6 + 2] = ctx /\ T[4] = usage /\ T[5] = encap /\ Len(T) = 8
    BY <1>3, <2>1, <2>2, <2>3
  <2>5. QED
    BY <1>5, <2>4
<1>6. QED
  BY <1>4, <1>5

\* A transcript tells its usage, its encapsulated key and its context.
LEMMA TranscriptInjective ==
  ASSUME NEW l, NEW u, NEW e, NEW p, NEW c, NEW m, NEW v, NEW f, NEW q, NEW d,
         Transcript(l, u, e, p, c) = Transcript(m, v, f, q, d)
  PROVE  u = v /\ e = f /\ c = d
<1>1. PICK T : T = Transcript(l, u, e, p, c) /\ T = Transcript(m, v, f, q, d)
  OBVIOUS
<1>2. T[4] = u /\ T[5] = e /\ (c = <<>> => Len(T) = 6) /\ (c # <<>> => Len(T) = 8 /\ T[8] = c)
  BY <1>1, TranscriptFacts
<1>3. T[4] = v /\ T[5] = f /\ (d = <<>> => Len(T) = 6) /\ (d # <<>> => Len(T) = 8 /\ T[8] = d)
  BY <1>1, TranscriptFacts
<1>4. QED
  BY <1>2, <1>3

\* A derived key tells the secret it is derived from, its usage and its context.
LEMMA SecretInjective ==
  ASSUME NEW s, NEW u, NEW e, NEW p, NEW c, NEW t, NEW v, NEW f, NEW q, NEW d,
         DeriveSecret(s, u, e, p, c) = DeriveSecret(t, v, f, q, d)
  PROVE  s = t /\ u = v /\ c = d
<1>1. PICK S, T : /\ S = Transcript("SALT", u, e, p, c) /\ T = Transcript("SALT", v, f, q, d)
                  /\ <<s, S, u>> = <<t, T, v>>
  BY DEF DeriveSecret
<1>2. s = t /\ S = T /\ u = v
  BY <1>1
<1>3. c = d
  BY <1>1, <1>2, TranscriptInjective
<1>4. QED
  BY <1>2, <1>3

LEMMA SecretExists ==
  \A s, u, e, p, c : DeriveSecret(s, u, e, p, c) # NoSecret
<1> SUFFICES ASSUME NEW s, NEW u, NEW e, NEW p, NEW c
             PROVE  DeriveSecret(s, u, e, p, c) # NoSecret
  OBVIOUS
<1>1. PICK S : DeriveSecret(s, u, e, p, c) = <<s, S, u>>
  BY DEF DeriveSecret
<1>2. <<s, S, u>> # <<>>
  OBVIOUS
<1>3. QED
  BY <1>1, <1>2 DEF NoSecret

\* The holder of another key, and the receiver of an altered one, get another secret.
LEMMA SharedSecretFacts ==
  ASSUME NEW h, NEW e, NEW k, NEW f,
         SharedSecret(h, e) = SharedSecret(k, f)
  PROVE  e = f /\ (e.form = "whole" /\ e.pk = h <=> f.form = "whole" /\ f.pk = k)
<1>1. PICK a, b : /\ a = IF e.form = "whole" /\ e.pk = h THEN "agreed" ELSE "rejected"
                  /\ b = IF f.form = "whole" /\ f.pk = k THEN "agreed" ELSE "rejected"
  OBVIOUS
<1>2. <<a, e>> = <<b, f>>
  BY <1>1 DEF SharedSecret
<1>3. a = b /\ e = f
  BY <1>2
<1>4. QED
  BY <1>1, <1>3

-----------------------------------------------------------------------------
(* Envelopes *)

Whole(pk) == [pk |-> pk, form |-> "whole"]

\* A well-formed envelope, as seal makes it.
Shaped(e, pk, payload, key, aad) ==
  e = [suite |-> Algorithm, version |-> Version, algorithm |-> Algorithm, kid |-> pk,
       encap |-> Whole(pk), nonce |-> "whole",
       data  |-> [form |-> "whole", plain |-> payload, key |-> key, aad |-> aad]]

LEMMA EncapsulatedFacts ==
  ASSUME NEW rcpt \in Recipients
  PROVE  /\ Encapsulated(rcpt) = Whole(EffectiveKey(rcpt))
         /\ EffectiveKey(rcpt) = LocalKey <=> rcpt = "none"
BY KeysAssumption DEF Encapsulated, EffectiveKey, Whole

\* The same, whatever is sealed in it.
Wellformed(e, pk) == \E payload, key, aad : Shaped(e, pk, payload, key, aad)

LEMMA SealedShape ==
  ASSUME NEW rcpt \in Recipients, NEW usage, NEW payload, NEW ctx
  PROVE  \E pk, key, aad :
           /\ pk = EffectiveKey(rcpt)
           /\ key = DeriveSecret(SharedSecret(pk, Whole(pk)), usage, Whole(pk), pk, ctx)
           /\ aad = Transcript("AAD", usage, Whole(pk), pk, ctx)
           /\ Shaped(Sealed(rcpt, usage, payload, ctx), pk, payload, key, aad)
<1>1. PICK pk : pk = EffectiveKey(rcpt)
  OBVIOUS
<1>2. Encapsulated(rcpt) = Whole(pk) /\ Whole(pk).pk = pk
  BY <1>1, EncapsulatedFacts DEF Whole
<1>3. QED
  BY <1>1, <1>2 DEF Sealed, Shaped

LEMMA ShapeFacts ==
  ASSUME NEW e, NEW pk, NEW payload, NEW key, NEW aad, Shaped(e, pk, payload, key, aad)
  PROVE  /\ e.suite = Algorithm /\ e.version = Version /\ e.algorithm = Algorithm
         /\ e.kid = pk /\ e.encap = Whole(pk) /\ e.nonce = "whole"
         /\ e.data.form = "whole" /\ e.data.plain = payload /\ e.data.key = key
         /\ e.data.aad = aad
BY DEF Shaped

\* A client may leave out the kid or the algorithm.
Kept(h, e, pk) ==
  /\ h.suite = Algorithm /\ h.version = Version /\ h.algorithm \in {"", Algorithm}
  /\ h.kid \in {"", pk} /\ h.encap = Whole(pk) /\ h.nonce = "whole" /\ h.data = e.data

Intact(e, format) == Honest(e) \cup Unnamed(e, format)

LEMMA HonestFacts ==
  ASSUME NEW e, NEW pk, Wellformed(e, pk), NEW format, NEW h \in Intact(e, format)
  PROVE  Kept(h, e, pk)
<1>0. PICK payload, key, aad : Shaped(e, pk, payload, key, aad)
  BY DEF Wellformed
<1>1. \/ h = e \/ h = [e EXCEPT !.kid = ""] \/ h = [e EXCEPT !.algorithm = ""]
  BY DEF Intact, Honest, Unnamed
<1>2. CASE h = e
  BY <1>0, <1>2, ShapeFacts DEF Kept
<1>3. CASE h = [e EXCEPT !.kid = ""]
  BY <1>0, <1>3 DEF Shaped, Kept
<1>4. CASE h = [e EXCEPT !.algorithm = ""]
  BY <1>0, <1>4 DEF Shaped, Kept
<1>5. QED
  BY <1>1, <1>2, <1>3, <1>4

\* What is damaged shows in a field that is checked, or in one that enters the key.
Shows(d, e, format) ==
  \/ d.suite \in {"", "other"}
  \/ d.kid = "unknown"
  \/ d.nonce \in {"altered", "short", "empty"}
  \/ d.data.form # "whole"
  \/ d.encap.form # "whole" /\ d.data = e.data
  \/ format # "binary" /\ (d.version \in {"", "V1"} \/ d.algorithm = "other")

LEMMA DamagedFacts ==
  ASSUME NEW e, NEW pk, Wellformed(e, pk), NEW format, NEW d \in Damaged(e, format)
  PROVE  Shows(d, e, format)
<1>0. PICK payload, key, aad : Shaped(e, pk, payload, key, aad)
  BY DEF Wellformed
<1>1. CASE \/ d = [e EXCEPT !.suite = ""] \/ d = [e EXCEPT !.suite = "other"]
           \/ d = [e EXCEPT !.kid = "unknown"] \/ d = [e EXCEPT !.nonce = "altered"]
  BY <1>0, <1>1 DEF Shaped, Shows
<1>2. CASE d = [e EXCEPT !.data.form = "altered"]
  BY <1>0, <1>2 DEF Shaped, Shows
<1>3. CASE \E f \in {"altered", "short", "lowOrder", "empty"} : d = [e EXCEPT !.encap.form = f]
  <2>1. PICK f \in {"altered", "short", "lowOrder", "empty"} : d = [e EXCEPT !.encap.form = f]
    BY <1>3
  <2>2. d.encap.form = f /\ d.data = e.data
    BY <1>0, <2>1 DEF Shaped, Whole
  <2>3. QED
    BY <2>2 DEF Shows
<1>4. CASE format = "binary" /\ d = [e EXCEPT !.data.form = "truncated"]
  BY <1>0, <1>4 DEF Shaped, Shows
<1>5. CASE /\ format # "binary"
           /\ \/ d = [e EXCEPT !.version = ""] \/ d = [e EXCEPT !.version = "V1"]
              \/ d = [e EXCEPT !.algorithm = "other"] \/ d = [e EXCEPT !.nonce = "short"]
              \/ d = [e EXCEPT !.nonce = "empty"]
  BY <1>0, <1>5 DEF Shaped, Shows
<1>6. CASE format # "binary" /\ d = [e EXCEPT !.data.form = "empty"]
  BY <1>0, <1>6 DEF Shaped, Shows
<1>7. QED
  BY <1>1, <1>2, <1>3, <1>4, <1>5, <1>6 DEF Damaged

\* The binary format brings the version of the service, and no algorithm.
Reads(s, d, format) ==
  /\ s.suite = d.suite /\ s.kid = d.kid /\ s.encap = d.encap
  /\ s.nonce = d.nonce /\ s.data = d.data
  /\ format = "json" => s = d
  /\ format # "json" => s.version = Version /\ s.algorithm = ""

LEMMA ParsedFacts ==
  ASSUME NEW e, NEW pk, Wellformed(e, pk),
         NEW format, NEW d \in Intact(e, format) \cup Damaged(e, format)
  PROVE  Reads(Parsed(d, format), d, format)
<1>1. CASE format = "json"
  BY <1>1 DEF Parsed, Reads
<1>2. CASE format # "json"
  <2>1. PICK s : s = Parsed(d, format) /\ s = [d EXCEPT !.version = Version, !.algorithm = ""]
    BY <1>2 DEF Parsed
  <2>2. DOMAIN d = {"suite", "version", "algorithm", "kid", "encap", "nonce", "data"}
    <3>1. DOMAIN e = {"suite", "version", "algorithm", "kid", "encap", "nonce", "data"}
      BY DEF Shaped, Wellformed
    <3>2. d \in Intact(e, format) => DOMAIN d = DOMAIN e
      BY DEF Intact, Honest, Unnamed
    <3>3. d \in Damaged(e, format) => DOMAIN d = DOMAIN e
      BY DEF Damaged
    <3>4. QED
      BY <3>1, <3>2, <3>3
  <2>3. Reads(s, d, format)
    BY <1>2, <2>1, <2>2 DEF Reads
  <2>4. QED
    BY <2>1, <2>3
<1>3. QED
  BY <1>1, <1>2

-----------------------------------------------------------------------------
(* What open checks *)

LEMMA MetaErrorFacts ==
  ASSUME NEW e
  PROVE  MetaError(e) = "ok" <=>
           /\ e.suite = Algorithm /\ e.version = Version /\ e.algorithm \in {"", Algorithm}
<1>1. PICK a, b, c, d : /\ a = Check(e.suite = "" \/ e.version = "", "ErrInvalidEnvelope")
                        /\ b = Check(e.suite # Algorithm, "ErrMismatchedSuite")
                        /\ c = Check(e.version # Version, "ErrMismatchedVersion")
                        /\ d = Check(e.algorithm \notin {"", Algorithm}, "ErrUnsupportedAlgorithm")
  OBVIOUS
<1>2. /\ a = "ok" <=> e.suite # "" /\ e.version # ""
      /\ b = "ok" <=> e.suite = Algorithm
      /\ c = "ok" <=> e.version = Version
      /\ d = "ok" <=> e.algorithm \in {"", Algorithm}
  BY <1>1 DEF Check
<1>3. MetaError(e) = FirstError(<<a, b, c, d>>)
  BY <1>1 DEF MetaError
<1>4. Algorithm # "" /\ Version # ""
  BY AlgorithmAssumption DEF Version
<1>5. FirstError(<<a, b, c, d>>) = "ok" <=> a = "ok" /\ b = "ok" /\ c = "ok" /\ d = "ok"
  BY FirstOfFour
<1>6. QED
  BY <1>2, <1>3, <1>4, <1>5

Authentic(e, usage, ctx) ==
  /\ e.nonce = "whole" /\ e.data.form = "whole"
  /\ e.data.key = DeriveSecret(SharedSecret(LocalKey, e.encap), usage, e.encap, LocalKey, ctx)
  /\ e.data.aad = Transcript("AAD", usage, e.encap, LocalKey, ctx)
  /\ UsagePayloadError(e.data.plain, usage) = "ok"

LEMMA DataErrorFacts ==
  ASSUME NEW e, NEW usage, NEW ctx
  PROVE  DataError(e, usage, ctx) = "ok" <=> Authentic(e, usage, ctx)
<1>1. PICK Key, Aad :
        /\ Key = DeriveSecret(SharedSecret(LocalKey, e.encap), usage, e.encap, LocalKey, ctx)
        /\ Aad = Transcript("AAD", usage, e.encap, LocalKey, ctx)
  OBVIOUS
<1>2. PICK a, b, c : /\ a = Check(e.nonce = "short", "nonce size")
                     /\ b = Check(\/ e.nonce # "whole" \/ e.data.form # "whole"
                                  \/ e.data.key # Key \/ e.data.aad # Aad, "ErrDecryptionFailed")
                     /\ c = UsagePayloadError(e.data.plain, usage)
  OBVIOUS
<1>3. DataError(e, usage, ctx) = FirstError(<<a, b, c>>)
  BY <1>1, <1>2 DEF DataError
<1>4. /\ a = "ok" <=> e.nonce # "short"
      /\ b = "ok" <=> /\ e.nonce = "whole" /\ e.data.form = "whole"
                      /\ e.data.key = Key /\ e.data.aad = Aad
  BY <1>2 DEF Check
<1>5. FirstError(<<a, b, c>>) = "ok" <=> a = "ok" /\ b = "ok" /\ c = "ok"
  BY FirstOfThree
<1>6. e.nonce = "whole" => e.nonce # "short"
  OBVIOUS
<1>7. Authentic(e, usage, ctx) <=> a = "ok" /\ b = "ok" /\ c = "ok"
  BY <1>1, <1>2, <1>4, <1>6 DEF Authentic
<1>8. QED
  BY <1>3, <1>5, <1>7

LEMMA ChecksFacts ==
  ASSUME NEW e, NEW format
  PROVE  /\ ParseError(e, format) = "ok" <=> ~(format = "binary" /\ e.data.form = "truncated")
         /\ CompleteError(e) = "ok" <=> "empty" \notin {e.encap.form, e.nonce, e.data.form}
         /\ KidError(e) = "ok" <=> e.kid \in {"", LocalKey}
         /\ DecapsulateError(e.encap) = "ok" <=>
              ~(e.encap.form = "short" \/ (e.encap.form = "lowOrder" /\ Algorithm = "DUAL"))
BY DEF ParseError, CompleteError, KidError, DecapsulateError, Check

\* An intact envelope passes every check but those of its recipient and of its key.
LEMMA HonestOpening ==
  ASSUME NEW rcpt \in Recipients, NEW sealedFor, NEW payload, NEW sealedUnder,
         UsagePayloadError(payload, sealedFor) = "ok",
         NEW e, e = Sealed(rcpt, sealedFor, payload, sealedUnder),
         NEW format \in Formats, NEW h \in Intact(e, format), NEW s, s = Parsed(h, format),
         NEW usage, NEW ctx
  PROVE  /\ ParseError(h, format) = "ok" /\ CompleteError(s) = "ok" /\ MetaError(s) = "ok"
         /\ DecapsulateError(s.encap) = "ok"
         /\ rcpt = "none" => KidError(s) = "ok"
         /\ DataError(s, usage, ctx) = "ok" <=>
              rcpt = "none" /\ usage = sealedFor /\ ctx = sealedUnder
         /\ h.data.plain = payload
<1>1. PICK pk, key, aad :
        /\ pk = EffectiveKey(rcpt)
        /\ key = DeriveSecret(SharedSecret(pk, Whole(pk)), sealedFor, Whole(pk), pk, sealedUnder)
        /\ aad = Transcript("AAD", sealedFor, Whole(pk), pk, sealedUnder)
        /\ Shaped(e, pk, payload, key, aad)
  BY SealedShape
<1>2. /\ e.data.form = "whole" /\ e.data.plain = payload /\ e.data.key = key
      /\ e.data.aad = aad
  BY <1>1, ShapeFacts
<1>0. Wellformed(e, pk)
  BY <1>1 DEF Wellformed
<1>3. /\ h.suite = Algorithm /\ h.version = Version /\ h.algorithm \in {"", Algorithm}
      /\ h.kid \in {"", pk} /\ h.encap = Whole(pk) /\ h.nonce = "whole" /\ h.data = e.data
  <2>1. Kept(h, e, pk)
    BY <1>0, HonestFacts
  <2>2. QED
    BY <2>1 DEF Kept
<1>4. /\ s.suite = h.suite /\ s.kid = h.kid /\ s.encap = h.encap
      /\ s.nonce = h.nonce /\ s.data = h.data
      /\ format = "json" => s = h
      /\ format # "json" => s.version = Version /\ s.algorithm = ""
  <2>1. Reads(s, h, format)
    BY <1>0, ParsedFacts
  <2>2. QED
    BY <2>1 DEF Reads
<1>5. Whole(pk).form = "whole" /\ Whole(pk).pk = pk
  BY DEF Whole
<1>6. pk = LocalKey <=> rcpt = "none"
  BY <1>1, EncapsulatedFacts
<1>7. ParseError(h, format) = "ok" /\ CompleteError(s) = "ok" /\ DecapsulateError(s.encap) = "ok"
  <2>1. "whole" # "empty" /\ "whole" # "truncated" /\ "whole" # "short" /\ "whole" # "lowOrder"
    OBVIOUS
  <2>2. h.data.form = "whole" /\ s.encap.form = "whole" /\ s.nonce = "whole" /\ s.data.form = "whole"
    BY <1>2, <1>3, <1>4, <1>5
  <2>3. QED
    BY <2>1, <2>2, ChecksFacts
<1>8. MetaError(s) = "ok"
  BY <1>3, <1>4, MetaErrorFacts
<1>9. rcpt = "none" => KidError(s) = "ok"
  BY <1>3, <1>4, <1>6, ChecksFacts
<1>10. PICK Key, Aad :
         /\ Key = DeriveSecret(SharedSecret(LocalKey, Whole(pk)), usage, Whole(pk), LocalKey, ctx)
         /\ Aad = Transcript("AAD", usage, Whole(pk), LocalKey, ctx)
  OBVIOUS
<1>11. DataError(s, usage, ctx) = "ok" <=>
         key = Key /\ aad = Aad /\ UsagePayloadError(payload, usage) = "ok"
  <2>1. DataError(s, usage, ctx) = "ok" <=> Authentic(s, usage, ctx)
    BY DataErrorFacts
  <2>2. s.nonce = "whole" /\ s.encap = Whole(pk) /\ s.data = e.data
    BY <1>3, <1>4
  <2>3. Authentic(s, usage, ctx) <=>
          key = Key /\ aad = Aad /\ UsagePayloadError(payload, usage) = "ok"
    BY <1>2, <1>10, <2>2 DEF Authentic
  <2>4. QED
    BY <2>1, <2>3
<1>12. key = Key => rcpt = "none" /\ usage = sealedFor /\ ctx = sealedUnder
  <2> SUFFICES ASSUME key = Key
               PROVE  rcpt = "none" /\ usage = sealedFor /\ ctx = sealedUnder
    OBVIOUS
  <2>1. /\ SharedSecret(pk, Whole(pk)) = SharedSecret(LocalKey, Whole(pk))
        /\ usage = sealedFor /\ ctx = sealedUnder
    <3>1. DeriveSecret(SharedSecret(pk, Whole(pk)), sealedFor, Whole(pk), pk, sealedUnder)
            = DeriveSecret(SharedSecret(LocalKey, Whole(pk)), usage, Whole(pk), LocalKey, ctx)
      BY <1>1, <1>10
    <3>2. QED
      BY <3>1, SecretInjective
  <2>2. pk = LocalKey
    BY <1>5, <2>1, SharedSecretFacts
  <2>3. QED
    BY <1>6, <2>1, <2>2
<1>13. rcpt = "none" /\ usage = sealedFor /\ ctx = sealedUnder => key = Key /\ aad = Aad
  BY <1>1, <1>6, <1>10
<1>14. QED
  BY <1>2, <1>3, <1>7, <1>8, <1>9, <1>11, <1>12, <1>13

\* A damaged envelope fails a check.
LEMMA DamagedFails ==
  ASSUME NEW rcpt \in Recipients, NEW sealedFor, NEW payload, NEW sealedUnder,
         NEW e, e = Sealed(rcpt, sealedFor, payload, sealedUnder),
         NEW format \in Formats, NEW d \in Damaged(e, format), NEW s, s = Parsed(d, format),
         NEW usage, NEW ctx
  PROVE  \/ ParseError(d, format) # "ok" \/ MetaError(s) # "ok"
         \/ KidError(s) # "ok" \/ DataError(s, usage, ctx) # "ok"
<1>1. PICK pk, key, aad :
        /\ key = DeriveSecret(SharedSecret(pk, Whole(pk)), sealedFor, Whole(pk), pk, sealedUnder)
        /\ Shaped(e, pk, payload, key, aad)
  BY SealedShape
<1>0. Wellformed(e, pk)
  BY <1>1 DEF Wellformed
<1>2. /\ s.suite = d.suite /\ s.kid = d.kid /\ s.encap = d.encap
      /\ s.nonce = d.nonce /\ s.data = d.data
      /\ format = "json" => s = d
  <2>1. Reads(s, d, format)
    BY <1>0, ParsedFacts
  <2>2. QED
    BY <2>1 DEF Reads
<1>3. CASE d.suite \in {"", "other"}
  <2>1. s.suite # Algorithm
    BY <1>2, <1>3, AlgorithmAssumption
  <2>2. QED
    BY <2>1, MetaErrorFacts
<1>4. CASE d.kid = "unknown"
  <2>1. s.kid \notin {"", LocalKey}
    BY <1>2, <1>4, KeysAssumption
  <2>2. QED
    BY <2>1, ChecksFacts
<1>5. CASE d.nonce \in {"altered", "short", "empty"}
  <2>1. s.nonce # "whole"
    BY <1>2, <1>5
  <2>2. QED
    BY <2>1, DataErrorFacts DEF Authentic
<1>6. CASE d.data.form # "whole"
  BY <1>2, <1>6, DataErrorFacts DEF Authentic
<1>7. CASE d.encap.form # "whole" /\ d.data = e.data
  <2>1. s.data.key = key
    BY <1>1, <1>2, <1>7, ShapeFacts
  <2>2. Whole(pk).form = "whole" /\ Whole(pk).pk = pk
    BY DEF Whole
  <2>3. SharedSecret(pk, Whole(pk)) # SharedSecret(LocalKey, s.encap)
    <3>1. Whole(pk) # s.encap
      BY <1>2, <1>7, <2>2
    <3>2. QED
      BY <3>1, SharedSecretFacts
  <2>4. key # DeriveSecret(SharedSecret(LocalKey, s.encap), usage, s.encap, LocalKey, ctx)
    BY <1>1, <2>3, SecretInjective
  <2>5. QED
    BY <2>1, <2>4, DataErrorFacts DEF Authentic
<1>8. CASE format # "binary" /\ (d.version \in {"", "V1"} \/ d.algorithm = "other")
  <2>1. s = d
    BY <1>2, <1>8 DEF Formats
  <2>2. s.version # Version \/ s.algorithm \notin {"", Algorithm}
    BY <1>8, <2>1, AlgorithmAssumption DEF Version
  <2>3. QED
    BY <2>2, MetaErrorFacts
<1>9. QED
  BY <1>0, <1>3, <1>4, <1>5, <1>6, <1>7, <1>8, DamagedFacts DEF Shows

-----------------------------------------------------------------------------
(* Who is let in *)

Infos == [identity : Names, anonymous : BOOLEAN, status : Nat]

LEMMA InfoFacts ==
  ASSUME NEW id \in Names, NEW a \in BOOLEAN, NEW n \in Nat
  PROVE  /\ Info(id, a, n) \in Infos
         /\ Info(id, a, n).identity = id /\ Info(id, a, n).anonymous = a
         /\ Info(id, a, n).status = n
BY DEF Info, Infos

LEMMA NoNameIsName == NoName \in Names
BY DEF NoName, Names

LEMMA DeployedFacts ==
  ASSUME NEW c \in Configurations, NEW d, d = Deployed(c)
  PROVE  /\ d.mtls \in BOOLEAN /\ d.bind \in BOOLEAN /\ d.unix \in BOOLEAN
         /\ d.limited \in BOOLEAN /\ d.tokens \in TokenSets /\ d.uids = c.uids
         /\ d.allowed = IF d.mtls THEN c.allowed ELSE {}
         /\ Validate(c) /\ d.mtls => d.tcp # "plain"
<1>1. /\ c.clientCA \in BOOLEAN /\ c.bind \in BOOLEAN /\ c.socket \in BOOLEAN
      /\ c.cert \in BOOLEAN /\ c.disableTCP \in BOOLEAN /\ c.tokens \in TokenSets
      /\ c.limited \in BOOLEAN
  BY DEF Configurations
<1>2. /\ d.mtls = c.clientCA /\ d.bind = c.bind /\ d.unix = c.socket
      /\ d.tokens = c.tokens /\ d.uids = c.uids
      /\ d.limited = c.limited
      /\ d.allowed = IF c.clientCA THEN c.allowed ELSE {}
      /\ d.tcp = IF c.disableTCP THEN "none" ELSE IF c.cert THEN "tls" ELSE "plain"
  BY DEF Deployed, MTLSEnabled, TLSEnabled
<1>3. Validate(c) /\ c.clientCA => c.cert
  BY DEF Validate, TransportSecure, MTLSEnabled, TLSEnabled
<1>4. QED
  BY <1>1, <1>2, <1>3

LEMMA RequestFacts ==
  ASSUME NEW q \in Requests
  PROVE  /\ q.cert \in Certs \cup {NoCert} /\ q.uid \in Uids
         /\ q.via \in {"plain", "tls", "unix"}
BY DEF Requests

\* The name a certificate is known by is one of its own, printable and allowed.
LEMMA MatchClientNameFacts ==
  ASSUME NEW cert \in Certs, NEW allowed, NEW name, name = MatchClientName(cert, allowed)
  PROVE  /\ name \in Names
         /\ allowed # {} /\ name # NoName =>
              \E i \in DOMAIN cert : cert[i] \in allowed \ Unprintable
<1>1. PICK fits : fits = {i \in DOMAIN cert : Printable(cert[i]) /\ (allowed = {} \/ cert[i] \in allowed)}
  OBVIOUS
<1>2. CASE fits # {}
  <2>1. cert \in Seq(Seq(Characters))
    BY NamesAssumption
  <2>2. DOMAIN cert \in SUBSET Nat
    BY <2>1, LenProperties
  <2>3. fits \in SUBSET Nat
    BY <1>1, <2>2
  <2>4. PICK m \in fits : m = Min(fits)
    BY <1>2, <2>3, MinFacts
  <2>5. name = cert[m]
    BY <1>1, <1>2, <2>4 DEF MatchClientName
  <2>6. m \in DOMAIN cert /\ Printable(cert[m]) /\ (allowed = {} \/ cert[m] \in allowed)
    BY <1>1
  <2>7. QED
    BY <2>5, <2>6, NamesAssumption DEF Printable
<1>3. CASE fits = {}
  <2>1. name = IF allowed = {} THEN <<"serial:">> ELSE NoName
    BY <1>1, <1>3 DEF MatchClientName
  <2>2. <<"serial:">> \in Names
    BY NamesAssumption DEF Names
  <2>3. QED
    BY <2>1, <2>2, NoNameIsName
<1>4. QED
  BY <1>2, <1>3

\* Under mTLS, a request that the middleware sees come over TLS has shown an allowed certificate.
Certified(d, q) == d.mtls /\ SeesTLS(d, q) => ShowsCertificate(d, q)

Vetted(i, q) == i \in Infos /\ (i.anonymous => q.path = "/health")

LEMMA PeerIdentityFacts ==
  ASSUME NEW d, NEW q \in Requests
  PROVE  Vetted(PeerIdentity(d, q), q)
<1>1. PICK id \in Names : PeerIdentity(d, q) = Info(id, FALSE, 0)
  <2>1. <<"uid:", q.uid>> \in Names
    <3>1. "uid:" \in Characters \ {"NUL"} /\ q.uid \in Characters \ {"NUL"}
      BY RequestFacts, NamesAssumption
    <3>2. QED
      BY <3>1 DEF Names
  <2>2. QED
    BY <2>1, NoNameIsName DEF PeerIdentity
<1>2. FALSE \in BOOLEAN /\ 0 \in Nat
  OBVIOUS
<1>3. Info(id, FALSE, 0) \in Infos /\ ~Info(id, FALSE, 0).anonymous
  BY <1>2, InfoFacts
<1>4. QED
  BY <1>1, <1>3 DEF Vetted

LEMMA RefuseFacts ==
  ASSUME NEW q, NEW code \in Nat \ {0}
  PROVE  Vetted(Refuse(code), q) /\ Refuse(code).status # 0
BY InfoFacts, NoNameIsName DEF Refuse, Vetted

LEMMA RequireClientCertFacts ==
  ASSUME NEW c \in Configurations, NEW d, d = Deployed(c), NEW q \in Requests,
         NEW i, Vetted(i, q), NEW r, r = RequireClientCert(d, q, i)
  PROVE  Vetted(r, q) /\ (r.status = 0 => q.path = "/health" \/ Certified(d, q))
<1>1. d.mtls \in BOOLEAN
  BY DeployedFacts
<1>2. CASE ~d.mtls \/ ~SeesTLS(d, q)
  BY <1>1, <1>2 DEF RequireClientCert, Certified
<1>3. CASE d.mtls /\ SeesTLS(d, q) /\ q.cert = NoCert
  <2>1. r = IF q.path = "/health" THEN Info(NoName, TRUE, 0) ELSE Refuse(401)
    BY <1>3 DEF RequireClientCert
  <2>2. CASE q.path = "/health"
    <3>1. TRUE \in BOOLEAN /\ 0 \in Nat
      OBVIOUS
    <3>2. Info(NoName, TRUE, 0) \in Infos
      BY <3>1, InfoFacts, NoNameIsName
    <3>3. QED
      BY <2>1, <2>2, <3>2 DEF Vetted
  <2>3. CASE q.path # "/health"
    BY <2>1, <2>3, RefuseFacts
  <2>4. QED
    BY <2>2, <2>3
<1>4. CASE d.mtls /\ SeesTLS(d, q) /\ q.cert # NoCert
  <2>1. PICK name : name = MatchClientName(q.cert, d.allowed)
    OBVIOUS
  <2>2. r = IF name = NoName THEN Refuse(403) ELSE Info(name, FALSE, 0)
    BY <1>4, <2>1 DEF RequireClientCert
  <2>3. q.cert \in Certs
    BY <1>4, RequestFacts
  <2>4. /\ name \in Names
        /\ d.allowed # {} /\ name # NoName =>
             \E k \in DOMAIN q.cert : q.cert[k] \in d.allowed \ Unprintable
    BY <2>1, <2>3, MatchClientNameFacts
  <2>5. CASE name = NoName
    BY <2>2, <2>5, RefuseFacts
  <2>6. CASE name # NoName
    <3>1. FALSE \in BOOLEAN /\ 0 \in Nat
      OBVIOUS
    <3>2. Info(name, FALSE, 0) \in Infos /\ ~Info(name, FALSE, 0).anonymous
      BY <2>4, <3>1, InfoFacts
    <3>3. Certified(d, q)
      BY <1>4, <2>4, <2>6 DEF Certified, ShowsCertificate
    <3>4. QED
      BY <2>2, <2>6, <3>2, <3>3 DEF Vetted
  <2>7. QED
    BY <2>5, <2>6
<1>5. QED
  BY <1>1, <1>2, <1>3, <1>4

LEMMA RequireTokenFacts ==
  ASSUME NEW c \in Configurations, NEW d, d = Deployed(c), NEW q \in Requests,
         NEW i, Vetted(i, q), NEW r, r = RequireToken(d, q, i)
  PROVE  /\ Vetted(r, q)
         /\ r.status = 0 =>
              i.status = 0 /\ (q.path = "/health" \/ d.tokens = {} \/ q.secret \in d.tokens)
<1>1. i \in Infos /\ i.identity \in Names /\ i.status \in Nat /\ d.tokens \in TokenSets
  BY DeployedFacts DEF Vetted, Infos
<1>2. CASE d.tokens = {} \/ i.status # 0
  BY <1>2 DEF RequireToken
<1>3. CASE d.tokens # {} /\ i.status = 0 /\ q.secret \in d.tokens
  <2>1. PICK name : name = IF i.identity = NoName THEN q.secret ELSE i.identity
    OBVIOUS
  <2>2. name \in Names /\ FALSE \in BOOLEAN /\ 0 \in Nat
    BY <1>1, <1>3, <2>1, NamesAssumption
  <2>3. r = Info(name, FALSE, 0)
    BY <1>3, <2>1 DEF RequireToken
  <2>4. Info(name, FALSE, 0) \in Infos /\ ~Info(name, FALSE, 0).anonymous
    BY <2>2, InfoFacts
  <2>5. QED
    BY <1>3, <2>3, <2>4 DEF Vetted
<1>4. CASE d.tokens # {} /\ i.status = 0 /\ q.secret \notin d.tokens
  <2>1. r = IF q.path = "/health" THEN [i EXCEPT !.anonymous = TRUE] ELSE Refuse(401)
    BY <1>4 DEF RequireToken
  <2>2. CASE q.path = "/health"
    <3>1. [i EXCEPT !.anonymous = TRUE] \in Infos
      BY <1>1 DEF Infos
    <3>2. QED
      BY <1>4, <2>1, <2>2, <3>1 DEF Vetted
  <2>3. CASE q.path # "/health"
    BY <2>1, <2>3, RefuseFacts
  <2>4. QED
    BY <2>2, <2>3
<1>5. QED
  BY <1>2, <1>3, <1>4

LEMMA RequireIdentityFacts ==
  ASSUME NEW c \in Configurations, NEW d, d = Deployed(c), NEW q \in Requests,
         NEW i, Vetted(i, q), NEW r, r = RequireIdentity(d, q, i)
  PROVE  /\ Vetted(r, q)
         /\ r.status = 0 => i.status = 0 /\ (q.path = CryptoPath /\ d.bind => r.identity # NoName)
<1>1. CASE i.status = 0 /\ d.bind /\ q.path \notin {"/health", "/metrics"} /\ i.identity = NoName
  BY <1>1, RefuseFacts DEF RequireIdentity
<1>2. CASE ~(i.status = 0 /\ d.bind /\ q.path \notin {"/health", "/metrics"} /\ i.identity = NoName)
  <2>1. r = i
    BY <1>2 DEF RequireIdentity
  <2>2. CryptoPath \notin {"/health", "/metrics"}
    BY DEF CryptoPath
  <2>3. QED
    BY <1>2, <2>1, <2>2
<1>3. QED
  BY <1>1, <1>2

\* What the chain of the middlewares guarantees of a request it lets through.
LEMMA VerdictFacts ==
  ASSUME NEW c \in Configurations, NEW d, d = Deployed(c), NEW q \in Requests,
         NEW r, r = Verdict(d, q)
  PROVE  /\ Vetted(r, q)
         /\ r.status = 0 /\ q.path = CryptoPath =>
              /\ Certified(d, q)
              /\ d.tokens = {} \/ q.secret \in d.tokens
              /\ d.bind => r.identity # NoName
<1>1. PICK i : i = PeerIdentity(d, q)
  OBVIOUS
<1>2. PICK j : j = RequireClientCert(d, q, i)
  OBVIOUS
<1>3. PICK k : k = RequireToken(d, q, j)
  OBVIOUS
<1>4. Vetted(i, q)
  BY <1>1, PeerIdentityFacts
<1>5. Vetted(j, q) /\ (j.status = 0 => q.path = "/health" \/ Certified(d, q))
  BY <1>2, <1>4, RequireClientCertFacts
<1>6. Vetted(k, q) /\ (k.status = 0 =>
        j.status = 0 /\ (q.path = "/health" \/ d.tokens = {} \/ q.secret \in d.tokens))
  BY <1>3, <1>5, RequireTokenFacts
<1>7. r = RequireIdentity(d, q, k)
  BY <1>1, <1>2, <1>3 DEF Verdict
<1>8. Vetted(r, q) /\ (r.status = 0 =>
        k.status = 0 /\ (q.path = CryptoPath /\ d.bind => r.identity # NoName))
  BY <1>6, <1>7, RequireIdentityFacts
<1>9. CryptoPath # "/health"
  BY DEF CryptoPath
<1>10. QED
  BY <1>5, <1>6, <1>8, <1>9

-----------------------------------------------------------------------------
(* The source of a request *)

\* An address that Forwarded stops at and takes.
Client(address, proxies) == address \notin proxies /\ address # ""

\* Whatever comes before it, the address before the proxies on the way is the one found.
LEMMA ForwardedFacts ==
  ASSUME NEW n \in Nat, NEW m \in 1..n, NEW f, DOMAIN f = 1..n,
         NEW proxies, Client(f[m], proxies),
         \A i \in 1..n : i > m => f[i] \in proxies
  PROVE  Forwarded(f, proxies) = <<f[m]>>
<1> DEFINE candidates == {i \in DOMAIN f : f[i] \notin proxies}
           last       == CHOOSE i \in candidates : \A j \in candidates : j <= i
<1>1. m \in candidates
  BY DEF Client
<1>2. ASSUME NEW j \in candidates
      PROVE  j \in Int /\ j <= m
  <2>1. j \in 1..n /\ f[j] \notin proxies
    OBVIOUS
  <2>2. ~(j > m)
    BY <2>1
  <2>3. QED
    BY <2>1, <2>2
<1>3. Forwarded(f, proxies) =
        IF candidates = {} THEN <<>> ELSE IF f[last] = "" THEN <<>> ELSE <<f[last]>>
  BY Zenon DEF Forwarded
<1> HIDE DEF candidates
<1>4. last \in candidates /\ \A j \in candidates : j <= last
  BY <1>1, <1>2
<1> HIDE DEF last
<1>5. last = m
  <2>1. last <= m /\ m <= last /\ last \in Int /\ m \in Int
    BY <1>1, <1>2, <1>4
  <2>2. QED
    BY <2>1
<1>6. candidates # {} /\ f[m] # ""
  BY <1>1 DEF Client
<1>7. QED
  BY <1>3, <1>5, <1>6, Zenon

Single(s) == Len(s) = 1

\* The header the proxies hand over: what was there, the client's address, the proxies.
LEMMA HeaderFacts ==
  ASSUME NEW S, NEW forged \in Seq(S), NEW mid \in Seq(S), Single(mid), NEW hops \in Seq(S),
         NEW proxies, Client(mid[1], proxies),
         \A i \in 1..Len(hops) : hops[i] \in proxies
  PROVE  Forwarded(forged \o mid \o hops, proxies) = <<mid[1]>>
<1>1. PICK k \in Nat, l \in Nat : k = Len(forged) /\ l = Len(hops)
  BY LenProperties
<1>2. PICK g \in Seq(S) : g = forged \o mid
  BY ConcatFacts
<1>3. Len(g) = k + 1 /\ g[k + 1] = mid[1]
  <2>1. /\ Len(forged \o mid) = Len(forged) + Len(mid)
        /\ \A i \in 1..Len(mid) : (forged \o mid)[Len(forged) + i] = mid[i]
    BY ConcatFacts
  <2>2. QED
    BY <1>1, <1>2, <2>1 DEF Single
<1>4. PICK f \in Seq(S) : f = g \o hops
  BY ConcatFacts
<1>5. Len(f) = k + 1 + l /\ f[k + 1] = mid[1] /\ \A i \in 1..l : f[k + 1 + i] = hops[i]
  <2>1. /\ Len(g \o hops) = Len(g) + Len(hops)
        /\ \A i \in 1..Len(g) : (g \o hops)[i] = g[i]
        /\ \A i \in 1..Len(hops) : (g \o hops)[Len(g) + i] = hops[i]
    BY ConcatFacts
  <2>2. k + 1 \in 1..k + 1
    OBVIOUS
  <2>3. QED
    BY <1>1, <1>3, <1>4, <2>1, <2>2
<1>6. PICK n \in Nat : n = k + 1 + l
  OBVIOUS
<1>7. PICK m \in 1..n : m = k + 1
  BY <1>6
<1>8. DOMAIN f = 1..n
  BY <1>5, <1>6, LenProperties
<1>9. ASSUME NEW i \in 1..n, i > m
      PROVE  f[i] \in proxies
  <2>1. PICK j \in 1..l : i = k + 1 + j
    <3>1. i - (k + 1) \in 1..l /\ i = k + 1 + (i - (k + 1))
      BY <1>6, <1>7, <1>9
    <3>2. QED
      BY <3>1
  <2>2. QED
    BY <1>1, <1>5, <2>1
<1>10. f[m] = mid[1]
  BY <1>5, <1>7
<1>11. Forwarded(f, proxies) = <<f[m]>>
  <2>1. Client(f[m], proxies) /\ \A i \in 1..n : i > m => f[i] \in proxies
    BY <1>9, <1>10
  <2>2. QED
    BY <1>8, <2>1, ForwardedFacts, Zenon
<1>12. QED
  BY <1>2, <1>4, <1>10, <1>11

-----------------------------------------------------------------------------
(* The states *)

\* What was sealed, for whom and under what.
IsEnvelope ==
  \E id \in Names, rcpt \in Recipients, usage \in Usages, payload \in Payloads, ctx \in Seq(Characters) :
    /\ UsagePayloadError(payload, usage) = "ok" /\ ContextError(id, ctx) = "ok"
    /\ issued = [kind |-> "envelope", owner |-> Owner(id), usage |-> usage, ctx |-> ctx,
                 payload |-> payload, rcpt |-> rcpt,
                 envelope |-> Sealed(rcpt, usage, payload, EffectiveContext(id, ctx))]

IsAgreement ==
  \E rcpt \in Recipients :
    issued = [kind |-> "agreement", rcpt |-> rcpt, encap |-> Encapsulated(rcpt),
              secret |-> DeriveSecret(SharedSecret(Encapsulated(rcpt).pk, Encapsulated(rcpt)),
                           "KEY_AGREEMENT", Encapsulated(rcpt), EffectiveKey(rcpt), <<>>)]

EInv ==
  /\ \E c \in Configurations : Validate(c) /\ deployed = Deployed(c)
  /\ callers \subseteq Names
  /\ issued = NotIssued \/ IsEnvelope \/ IsAgreement

LEMMA CallersFacts ==
  ASSUME NEW c \in Configurations
  PROVE  Callers(Deployed(c)) \subseteq Names
<1> SUFFICES ASSUME NEW id \in Callers(Deployed(c)) PROVE id \in Names
  OBVIOUS
<1>1. PICK q \in Requests : id = Verdict(Deployed(c), q).identity
  BY DEF Callers
<1>2. PICK r : r = Verdict(Deployed(c), q)
  OBVIOUS
<1>3. Vetted(r, q)
  BY <1>2, VerdictFacts
<1>4. QED
  BY <1>1, <1>2, <1>3 DEF Vetted, Infos

LEMMA InitEInv == Init => EInv
BY CallersFacts DEF Init, EInv

\* The context counts in full, with its identity where they are bound.
LEMMA ContextInjective ==
  ASSUME NEW id \in Names, NEW jd \in Names, NEW c \in Seq(Characters), NEW d \in Seq(Characters)
  PROVE  EffectiveContext(id, c) = EffectiveContext(jd, d) <=> Owner(id) = Owner(jd) /\ c = d
<1>1. CASE deployed.bind
  <2>1. /\ EffectiveContext(id, c) = BoundContext(id, c)
        /\ EffectiveContext(jd, d) = BoundContext(jd, d)
        /\ Owner(id) = id /\ Owner(jd) = jd
    BY <1>1 DEF EffectiveContext, Owner
  <2>2. BoundContext(id, c) = BoundContext(jd, d) => id = jd /\ c = d
    BY BoundContextInjective
  <2>3. QED
    BY <2>1, <2>2
<1>2. CASE ~deployed.bind
  BY <1>2 DEF EffectiveContext, Owner
<1>3. QED
  BY <1>1, <1>2

Safe ==
  /\ Guarded /\ SourceCannotBeForged
  /\ OpensOnlyWhatWasSealed /\ HonestRoundTrip /\ KeysAreSeparated

\* The other answers claim nothing.
LEMMA SilentIsSafe ==
  ASSUME answer'.op \notin {"front", "limit", "open", "decapsulate"}
  PROVE  Safe'
<1>1. /\ answer'.op # "front" /\ answer'.op # "limit"
      /\ answer'.op # "open" /\ answer'.op # "decapsulate"
  OBVIOUS
<1>2. Guarded'
  BY <1>1, Zenon DEF Guarded
<1>3. SourceCannotBeForged'
  BY <1>1, Zenon DEF SourceCannotBeForged
<1>4. OpensOnlyWhatWasSealed'
  BY <1>1, Zenon DEF OpensOnlyWhatWasSealed
<1>5. HonestRoundTrip' /\ KeysAreSeparated'
  BY <1>1, Zenon DEF HonestRoundTrip, KeysAreSeparated
<1>6. QED
  BY <1>2, <1>3, <1>4, <1>5 DEF Safe

\* Contexts and their errors are those of the configuration.
LEMMA DeployedFrame ==
  ASSUME deployed' = deployed
  PROVE  /\ \A id : Owner(id)' = Owner(id)
         /\ \A id, ctx : EffectiveContext(id, ctx)' = EffectiveContext(id, ctx)
         /\ \A id, ctx : ContextError(id, ctx)' = ContextError(id, ctx)
<1>1. /\ \A id : Owner(id)' = Owner(id)
      /\ \A id, ctx : EffectiveContext(id, ctx)' = EffectiveContext(id, ctx)
  BY DEF Owner, EffectiveContext
<1>2. \A id, ctx : ContextError(id, ctx)' = ContextError(id, ctx)
  BY <1>1 DEF ContextError
<1>3. QED
  BY <1>1, <1>2

\* What issues nothing keeps the invariant.
LEMMA FrameFacts ==
  ASSUME EInv, UNCHANGED <<deployed, callers, issued>>
  PROVE  EInv'
<1>1. deployed' = deployed /\ callers' = callers /\ issued' = issued
  OBVIOUS
<1>2. /\ \A id : Owner(id)' = Owner(id)
      /\ \A id, ctx : EffectiveContext(id, ctx)' = EffectiveContext(id, ctx)
  BY <1>1, DeployedFrame
<1>3. \A id, ctx : ContextError(id, ctx)' = ContextError(id, ctx)
  BY <1>1, DeployedFrame
<1>4. IsEnvelope => IsEnvelope'
  BY <1>1, <1>2, <1>3, Zenon DEF IsEnvelope
<1>5. IsAgreement => IsAgreement'
  BY <1>1, Zenon DEF IsAgreement
<1>6. QED
  BY <1>1, <1>4, <1>5, Zenon DEF EInv

LEMMA ReceiveStep == EInv /\ Receive => EInv' /\ Safe'
<1> SUFFICES ASSUME EInv, Receive PROVE EInv' /\ Safe'
  OBVIOUS
<1>1. answer'.op = "none"
  BY DEF Receive, Nothing
<1>2. UNCHANGED <<deployed, callers, issued>>
  BY DEF Receive
<1>3. QED
  BY <1>1, <1>2, SilentIsSafe, FrameFacts

LEMMA OneFacts ==
  ASSUME NEW S, NEW x \in S
  PROVE  <<x>> \in Seq(S) /\ Single(<<x>>) /\ <<x>>[1] = x
BY DEF Single

\* In a single line the address that the first proxy saw is found behind whatever precedes it.
LEMMA LineFacts ==
  ASSUME NEW S, Hosts \cup Proxies \subseteq S,
         NEW forged \in Seq(S), NEW host \in Hosts, NEW hops \in Seq(Proxies)
  PROVE  Forwarded(forged \o <<host>> \o hops, Proxies) = <<host>>
<1>1. PICK mid \in Seq(S) : mid = <<host>> /\ Single(mid) /\ mid[1] = host
  BY OneFacts
<1>2. Client(mid[1], Proxies)
  <2>1. Client(host, Proxies)
    BY HostsAssumption DEF Client
  <2>2. QED
    BY <1>1, <2>1
<1>3. PICK behind \in Seq(S) : behind = hops
  <2>1. hops \in Seq(S)
    BY SeqMonotonic
  <2>2. QED
    BY <2>1
<1>4. \A i \in 1..Len(behind) : behind[i] \in Proxies
  BY <1>3, ElementOfSeq
<1>5. Single(mid)
  BY <1>1
<1>6. Forwarded(forged \o mid \o behind, Proxies) = <<mid[1]>>
  BY <1>2, <1>4, <1>5, HeaderFacts
<1>7. QED
  BY <1>1, <1>3, <1>6

LEMMA OneAddress ==
  ASSUME NEW host \in Hosts
  PROVE  Forwarded(<<host>>, Proxies) = <<host>>
<1>1. PICK S : S = Hosts \cup Proxies
  OBVIOUS
<1>2. Hosts \cup Proxies \subseteq S /\ <<>> \in Seq(S) /\ <<>> \in Seq(Proxies)
  BY <1>1, EmptySeq
<1>3. <<host>> \in Seq(S)
  BY <1>1, OneFacts
<1>4. <<>> \o <<host>> = <<host>> /\ <<host>> \o <<>> = <<host>>
  BY <1>3, ConcatEmptySeq
<1>5. Forwarded(<<>> \o <<host>> \o <<>>, Proxies) = <<host>>
  BY <1>2, LineFacts
<1>6. QED
  BY <1>4, <1>5

LEMMA FirstOfLines ==
  ASSUME NEW S, NEW own \in S, NEW added \in Seq(S)
  PROVE  FirstLine(<<own>> \o added) = own
<1>1. PICK p \in Seq(S) : p = <<own>> /\ Single(p) /\ p[1] = own
  BY OneFacts
<1>2. PICK n \in Nat : n = Len(added)
  BY LenProperties
<1>3. PICK lines \in Seq(S) : lines = p \o added /\ Len(lines) = Len(p) + Len(added)
                               /\ \A i \in 1..Len(p) : lines[i] = p[i]
  <2>1. /\ p \o added \in Seq(S) /\ Len(p \o added) = Len(p) + Len(added)
        /\ \A i \in 1..Len(p) : (p \o added)[i] = p[i]
    BY ConcatFacts
  <2>2. QED
    BY <2>1
<1>4. Len(lines) = 1 + n /\ \A i \in 1..1 : lines[i] = p[i]
  BY <1>1, <1>2, <1>3 DEF Single
<1>5. 1 \in 1..1 /\ 1 + n # 0
  OBVIOUS
<1>6. lines[1] = own
  BY <1>1, <1>4, <1>5
<1>7. lines # <<>>
  BY <1>4, <1>5, EmptySeq
<1>8. QED
  BY <1>1, <1>3, <1>6, <1>7 DEF FirstLine

\* Each proxy's address on a line of its own.
LEMMA AddedLines ==
  ASSUME NEW S, NEW hops \in Seq(S), NEW T, T = {<<a>> : a \in S}
  PROVE  [i \in DOMAIN hops |-> <<hops[i]>>] \in Seq(T)
<1>1. PICK n \in Nat : n = Len(hops) /\ DOMAIN hops = 1..n
  BY LenProperties
<1>2. \A i \in 1..n : hops[i] \in S
  BY <1>1, ElementOfSeq
<1>3. \A i \in 1..n : <<hops[i]>> \in T
  BY <1>2
<1>4. PICK added : added = [i \in DOMAIN hops |-> <<hops[i]>>]
  OBVIOUS
<1>5. added \in [1..n -> T]
  BY <1>1, <1>3, <1>4
<1>6. added \in Seq(T)
  BY <1>5, SeqDef
<1>7. QED
  BY <1>4, <1>6

\* The first of the lines is a joined one, or without a header of the client's the first
\* proxy's own.
LEMMA FirstLineFacts ==
  ASSUME NEW S, Hosts \cup Proxies \subseteq S, NEW joined \in BOOLEAN, NEW forged \in Seq(S),
         NEW host \in Hosts, NEW hops \in Seq(Proxies), joined \/ forged = <<>>
  PROVE  Forwarded(FirstLine(HandedOver(joined, forged, host, hops)), Proxies) = <<host>>
<1>1. CASE joined
  <2>1. PICK line : line = forged \o <<host>> \o hops
    OBVIOUS
  <2>2. HandedOver(joined, forged, host, hops) = <<line>>
    BY <1>1, <2>1 DEF HandedOver
  <2>3. FirstLine(<<line>>) = line
    BY DEF FirstLine
  <2>4. Forwarded(forged \o <<host>> \o hops, Proxies) = <<host>>
    BY LineFacts
  <2>5. QED
    BY <2>1, <2>2, <2>3, <2>4, Zenon
<1>2. CASE ~joined
  <2>1. PICK T : T = {<<a>> : a \in S}
    OBVIOUS
  <2>2. PICK own \in T : own = <<host>>
    BY <2>1
  <2>3. PICK added : added = [i \in DOMAIN hops |-> <<hops[i]>>]
    OBVIOUS
  <2>4. hops \in Seq(S)
    BY <2>1, SeqMonotonic
  <2>5. added \in Seq(T)
    BY <2>1, <2>3, <2>4, AddedLines
  <2>6. FirstLine(<<own>> \o added) = own
    BY <2>5, FirstOfLines
  <2>7. HandedOver(joined, forged, host, hops) = <<>> \o <<own>> \o added
    BY <1>2, <2>2, <2>3 DEF HandedOver
  <2>8. <<own>> \in Seq(T)
    BY OneFacts
  <2>9. <<>> \o <<own>> = <<own>>
    BY <2>8, ConcatEmptySeq
  <2>10. QED
    BY <2>2, <2>6, <2>7, <2>9, OneAddress
<1>3. QED
  BY <1>1, <1>2

\* What a client that gets through has shown.
Shown(d, q, info) ==
  /\ info.status = 0 /\ q.path = CryptoPath =>
       /\ d.mtls => q.via # "plain"
       /\ d.mtls /\ q.via = "tls" /\ ~d.limited => ShowsCertificate(d, q)
       /\ d.tokens # {} => q.secret \in d.tokens
       /\ q.via = "unix" /\ d.uids # {} => q.uid \in d.uids
       /\ d.bind => info.identity # NoName
  /\ info.anonymous => q.path = "/health"

LEMMA ShownFacts ==
  ASSUME NEW c \in Configurations, Validate(c), NEW d, d = Deployed(c), NEW q \in Requests,
         Connects(d, q), NEW r, r = Verdict(d, q)
  PROVE  Shown(d, q, r)
<1>1. /\ Vetted(r, q)
      /\ r.status = 0 /\ q.path = CryptoPath =>
           /\ Certified(d, q)
           /\ d.tokens = {} \/ q.secret \in d.tokens
           /\ d.bind => r.identity # NoName
  BY VerdictFacts
<1>2. d.mtls => d.tcp # "plain"
  BY DeployedFacts
<1>3. /\ q.via \in {"plain", "tls"} => d.tcp = q.via
      /\ q.via = "unix" /\ d.uids # {} => q.uid \in d.uids
  BY DEF Connects
<1>4. d.mtls => q.via # "plain"
  BY <1>2, <1>3
<1>5. r.anonymous => q.path = "/health"
  BY <1>1, Zenon DEF Vetted
<1>6. QED
  BY <1>1, <1>3, <1>4, <1>5, Zenon DEF Shown, Certified, SeesTLS

LEMMA FrontStep ==
  ASSUME EInv, NEW q \in Requests, Front(q)
  PROVE  EInv' /\ Safe'
<1>1. PICK c \in Configurations : Validate(c) /\ deployed = Deployed(c)
  BY DEF EInv
<1>2. PICK r : r = Verdict(deployed, q)
  OBVIOUS
<1>3. Connects(deployed, q)
  BY DEF Front
<1>4. Shown(deployed, q, r)
  BY <1>1, <1>2, <1>3, ShownFacts
<1>5. /\ answer'.op = "front" /\ answer'.request = q /\ answer'.info = r
      /\ UNCHANGED <<deployed, callers, issued>> /\ deployed' = deployed
  BY <1>2 DEF Front
<1>6. Guarded'
  BY <1>4, <1>5, Zenon DEF Guarded, Shown
<1>7. answer'.op # "limit" /\ answer'.op # "open" /\ answer'.op # "decapsulate"
  BY <1>5
<1>8. SourceCannotBeForged'
  BY <1>7, Zenon DEF SourceCannotBeForged
<1>9. OpensOnlyWhatWasSealed' /\ HonestRoundTrip' /\ KeysAreSeparated'
  BY <1>7, Zenon DEF OpensOnlyWhatWasSealed, HonestRoundTrip, KeysAreSeparated
<1>10. EInv'
  BY <1>5, FrameFacts
<1>11. QED
  BY <1>6, <1>8, <1>9, <1>10 DEF Safe

LEMMA LimitStep ==
  ASSUME EInv, NEW id \in callers, NEW remote \in Proxies \cup Hosts \cup {""},
         NEW joined \in BOOLEAN, NEW forged \in Forgeries, NEW host \in Hosts,
         NEW hops \in Routes, Limit(id, remote, joined, forged, host, hops)
  PROVE  EInv' /\ Safe'
<1>1. PICK lines : lines = HandedOver(joined, forged, host, hops)
  OBVIOUS
<1>2. joined \/ forged = <<>> => Forwarded(FirstLine(lines), Proxies) = <<host>>
  <2>1. PICK S : S = Hosts \cup Proxies \cup {""}
    OBVIOUS
  <2>2. Hosts \cup Proxies \subseteq S /\ forged \in Seq(S) /\ hops \in Seq(Proxies)
    BY <2>1, HeadersAssumption
  <2>3. QED
    BY <1>1, <2>2, FirstLineFacts
<1>3. /\ answer'.op = "limit" /\ answer'.id = id /\ answer'.remote = remote
      /\ answer'.host = host /\ answer'.source = Source(id, remote, lines, Proxies)
      /\ answer'.joined = joined /\ (answer'.forged <=> forged # <<>>)
      /\ UNCHANGED <<deployed, callers, issued>>
  BY <1>1 DEF Limit
<1>4. "" \notin Proxies /\ <<host>> # <<>>
  BY HostsAssumption
<1>5. \/ Source(id, remote, lines, Proxies) =
           CASE id # NoName -> <<"id:">> \o id
             [] id = NoName /\ remote \in Proxies -> <<host>>
             [] OTHER -> <<remote>>
      \/ ~joined /\ forged # <<>> /\ id = NoName /\ remote \in Proxies
  <2>1. CASE id # NoName
    BY <2>1 DEF Source
  <2>2. CASE id = NoName /\ remote \in Proxies
    <3>1. remote # ""
      BY <1>4, <2>2
    <3>2. CASE joined \/ forged = <<>>
      BY <1>2, <1>4, <2>2, <3>1, <3>2 DEF Source
    <3>3. CASE ~(joined \/ forged = <<>>)
      BY <2>2, <3>3
    <3>4. QED
      BY <3>2, <3>3
  <2>3. CASE id = NoName /\ remote \notin Proxies
    BY <2>3 DEF Source
  <2>4. QED
    BY <2>1, <2>2, <2>3
<1>6. SourceCannotBeForged'
  BY <1>3, <1>5 DEF SourceCannotBeForged, ProperSource
<1>7. answer'.op # "front" /\ answer'.op # "open" /\ answer'.op # "decapsulate"
  BY <1>3
<1>8. Guarded'
  BY <1>7, Zenon DEF Guarded
<1>9. OpensOnlyWhatWasSealed' /\ HonestRoundTrip' /\ KeysAreSeparated'
  BY <1>7, Zenon DEF OpensOnlyWhatWasSealed, HonestRoundTrip, KeysAreSeparated
<1>10. EInv'
  BY <1>3, FrameFacts
<1>11. QED
  BY <1>6, <1>8, <1>9, <1>10 DEF Safe

-----------------------------------------------------------------------------
(* Sealing *)

\* A new envelope is one of its payload, its context and its client.
LEMMA IssueFacts ==
  ASSUME EInv, NEW id \in Names, NEW rcpt \in Recipients, NEW usage \in Usages,
         NEW payload \in Payloads, NEW ctx \in Seq(Characters),
         UsagePayloadError(payload, usage) = "ok", ContextError(id, ctx) = "ok",
         deployed' = deployed, callers' = callers,
         issued' = [kind |-> "envelope", owner |-> Owner(id), usage |-> usage, ctx |-> ctx,
                    payload |-> payload, rcpt |-> rcpt,
                    envelope |-> Sealed(rcpt, usage, payload, EffectiveContext(id, ctx))]
  PROVE  EInv'
<1>1. /\ Owner(id)' = Owner(id) /\ EffectiveContext(id, ctx)' = EffectiveContext(id, ctx)
      /\ ContextError(id, ctx)' = "ok"
  BY DeployedFrame
<1>2. IsEnvelope'
  BY <1>1, Zenon DEF IsEnvelope
<1>3. QED
  BY <1>2, Zenon DEF EInv

LEMMA SealStep ==
  ASSUME EInv, NEW op, op \in {"seal", "generate"}, NEW id \in callers, NEW format \in Formats,
         NEW rcpt \in Recipients, NEW usage \in Usages, NEW payload \in Payloads,
         NEW context \in Contexts, Seal(op, id, format, rcpt, usage, payload, context)
  PROVE  EInv' /\ Safe'
<1>1. PICK ctx \in Seq(Characters) : ctx = Received(format, context)
  <2>1. context \in Seq(Characters)
    BY ContextAssumption
  <2>2. QED
    BY <2>1, ReceivedIsContext
<1>2. id \in Names
  BY DEF EInv
<1>3. PICK error : error = FirstError(<<UsagePayloadError(payload, usage), ContextError(id, ctx),
                                        EncapsulateError(rcpt)>>)
  OBVIOUS
<1>4. error = "ok" => UsagePayloadError(payload, usage) = "ok" /\ ContextError(id, ctx) = "ok"
  BY <1>3, FirstOfThree
<1>5. /\ answer' = [op |-> op, status |-> StatusOf(error)]
      /\ deployed' = deployed /\ callers' = callers
      /\ issued' = IF error # "ok" THEN issued ELSE
           [kind |-> "envelope", owner |-> Owner(id), usage |-> usage, ctx |-> ctx,
            payload |-> payload, rcpt |-> rcpt,
            envelope |-> Sealed(rcpt, usage, payload, EffectiveContext(id, ctx))]
  BY <1>1, <1>3, Zenon DEF Seal
<1>6. EInv'
  <2>1. CASE error = "ok"
    <3>1. issued' = [kind |-> "envelope", owner |-> Owner(id), usage |-> usage, ctx |-> ctx,
                     payload |-> payload, rcpt |-> rcpt,
                     envelope |-> Sealed(rcpt, usage, payload, EffectiveContext(id, ctx))]
      BY <1>5, <2>1, Zenon
    <3>2. QED
      BY <1>2, <1>4, <1>5, <2>1, <3>1, IssueFacts, Zenon
  <2>2. CASE error # "ok"
    BY <1>5, <2>2, FrameFacts
  <2>3. QED
    BY <2>1, <2>2
<1>7. answer'.op \notin {"front", "limit", "open", "decapsulate"}
  <2>1. answer'.op = op
    BY <1>5, Zenon
  <2>2. QED
    BY <2>1
<1>8. QED
  BY <1>6, <1>7, SilentIsSafe

LEMMA GenerateStep ==
  ASSUME EInv, NEW id \in callers, NEW rcpt \in Recipients, NEW size \in Payloads,
         NEW context \in Contexts, GenerateDataKey(id, rcpt, size, context)
  PROVE  EInv' /\ Safe'
<1>1. PICK payload \in Payloads : payload = IF size = "empty" THEN "key" ELSE size
  BY DEF Payloads
<1>2. Seal("generate", id, "json", rcpt, "KEY_WRAPPING_DEK", payload, context)
  BY <1>1 DEF GenerateDataKey
<1>3. "json" \in Formats /\ "KEY_WRAPPING_DEK" \in Usages
  BY DEF Formats, Usages
<1>4. QED
  BY <1>2, <1>3, SealStep

LEMMA EncapsulateStep ==
  ASSUME EInv, NEW rcpt \in Recipients, Encapsulate(rcpt)
  PROVE  EInv' /\ Safe'
<1>1. PICK error : error = EncapsulateError(rcpt)
  OBVIOUS
<1>2. /\ answer' = [op |-> "encapsulate", status |-> StatusOf(error)]
      /\ deployed' = deployed /\ callers' = callers
      /\ issued' = IF error # "ok" THEN issued ELSE
           [kind |-> "agreement", rcpt |-> rcpt, encap |-> Encapsulated(rcpt),
            secret |-> DeriveSecret(SharedSecret(Encapsulated(rcpt).pk, Encapsulated(rcpt)),
                         "KEY_AGREEMENT", Encapsulated(rcpt), EffectiveKey(rcpt), <<>>)]
  BY <1>1, Zenon DEF Encapsulate
<1>3. EInv'
  <2>1. CASE error = "ok"
    <3>1. IsAgreement'
      BY <1>2, <2>1, Zenon DEF IsAgreement
    <3>2. QED
      BY <1>2, <3>1, Zenon DEF EInv
  <2>2. CASE error # "ok"
    BY <1>2, <2>2, FrameFacts
  <2>3. QED
    BY <2>1, <2>2
<1>4. answer'.op \notin {"front", "limit", "open", "decapsulate"}
  <2>1. answer'.op = "encapsulate"
    BY <1>2, Zenon
  <2>2. QED
    BY <2>1
<1>5. QED
  BY <1>3, <1>4, SilentIsSafe

-----------------------------------------------------------------------------
(* Opening *)

\* An envelope opens if it is intact and for the service, for the usage, the context and the
\* client it was sealed for, and not otherwise.
LEMMA OpenErrorFacts ==
  ASSUME NEW jd \in Names, NEW rcpt \in Recipients, NEW sealedFor, NEW payload,
         NEW sealedUnder \in Seq(Characters),
         UsagePayloadError(payload, sealedFor) = "ok", ContextError(jd, sealedUnder) = "ok",
         NEW e, e = Sealed(rcpt, sealedFor, payload, EffectiveContext(jd, sealedUnder)),
         NEW format \in Formats, NEW env, env \in Intact(e, format) \cup Damaged(e, format),
         NEW sent, sent = Parsed(env, format), NEW id \in Names, NEW usage,
         NEW ctx \in Seq(Characters), NEW error,
         error = FirstError(<<ParseError(env, format), CompleteError(sent), MetaError(sent),
                              ContextError(id, ctx), KidError(sent), DecapsulateError(sent.encap),
                              DataError(sent, usage, EffectiveContext(id, ctx))>>)
  PROVE  /\ error = "ok" <=> /\ env \in Intact(e, format) /\ rcpt = "none" /\ usage = sealedFor
                             /\ ctx = sealedUnder /\ Owner(id) = Owner(jd)
         /\ env \in Intact(e, format) => env.data.plain = payload
<1>1. PICK under, wanted : under = EffectiveContext(jd, sealedUnder) /\ wanted = EffectiveContext(id, ctx)
  OBVIOUS
<1>2. error = "ok" <=>
        /\ ParseError(env, format) = "ok" /\ CompleteError(sent) = "ok"
        /\ MetaError(sent) = "ok" /\ ContextError(id, ctx) = "ok" /\ KidError(sent) = "ok"
        /\ DecapsulateError(sent.encap) = "ok" /\ DataError(sent, usage, wanted) = "ok"
  <2>1. error = "ok" <=>
          /\ ParseError(env, format) = "ok" /\ CompleteError(sent) = "ok"
          /\ MetaError(sent) = "ok" /\ ContextError(id, ctx) = "ok" /\ KidError(sent) = "ok"
          /\ DecapsulateError(sent.encap) = "ok"
          /\ DataError(sent, usage, EffectiveContext(id, ctx)) = "ok"
    BY FirstOfSeven
  <2>2. QED
    BY <1>1, <2>1
<1>3. e = Sealed(rcpt, sealedFor, payload, under)
  BY <1>1, Zenon
<1>4. CASE env \in Intact(e, format)
  <2>1. /\ ParseError(env, format) = "ok" /\ CompleteError(sent) = "ok" /\ MetaError(sent) = "ok"
        /\ DecapsulateError(sent.encap) = "ok"
        /\ rcpt = "none" => KidError(sent) = "ok"
        /\ DataError(sent, usage, wanted) = "ok" <=>
             rcpt = "none" /\ usage = sealedFor /\ wanted = under
        /\ env.data.plain = payload
    BY <1>3, <1>4, HonestOpening
  <2>2. wanted = under <=> Owner(id) = Owner(jd) /\ ctx = sealedUnder
    <3>1. EffectiveContext(id, ctx) = EffectiveContext(jd, sealedUnder)
            <=> Owner(id) = Owner(jd) /\ ctx = sealedUnder
      BY ContextInjective
    <3>2. QED
      BY <1>1, <3>1
  <2>3. wanted = under => ContextError(id, ctx) = "ok"
    BY <1>1, Zenon DEF ContextError
  <2>4. QED
    BY <1>2, <1>4, <2>1, <2>2, <2>3, Zenon
<1>5. CASE env \notin Intact(e, format)
  <2>1. env \in Damaged(e, format)
    BY <1>5
  <2>2. \/ ParseError(env, format) # "ok" \/ MetaError(sent) # "ok"
        \/ KidError(sent) # "ok" \/ DataError(sent, usage, wanted) # "ok"
    BY <1>3, <2>1, DamagedFails, Zenon
  <2>3. QED
    BY <1>2, <1>5, <2>2, Zenon
<1>6. QED
  BY <1>4, <1>5

\* What is known of the envelope that was issued.
Issue(jd, rcpt, sealedFor, payload, sealedUnder) ==
  /\ UsagePayloadError(payload, sealedFor) = "ok" /\ ContextError(jd, sealedUnder) = "ok"
  /\ issued.kind = "envelope" /\ issued.owner = Owner(jd) /\ issued.usage = sealedFor
  /\ issued.ctx = sealedUnder /\ issued.payload = payload /\ issued.rcpt = rcpt
  /\ issued.envelope = Sealed(rcpt, sealedFor, payload, EffectiveContext(jd, sealedUnder))

LEMMA IssuedFacts ==
  ASSUME EInv, issued.kind = "envelope"
  PROVE  \E jd \in Names, rcpt \in Recipients, sealedFor \in Usages, payload \in Payloads,
            sealedUnder \in Seq(Characters) : Issue(jd, rcpt, sealedFor, payload, sealedUnder)
<1>1. issued # NotIssued
  BY DEF NotIssued
<1>2. ~IsAgreement
  BY DEF IsAgreement
<1>3. IsEnvelope
  BY <1>1, <1>2 DEF EInv
<1>4. PICK jd \in Names, rcpt \in Recipients, sealedFor \in Usages, payload \in Payloads,
           sealedUnder \in Seq(Characters) :
        /\ UsagePayloadError(payload, sealedFor) = "ok" /\ ContextError(jd, sealedUnder) = "ok"
        /\ issued = [kind |-> "envelope", owner |-> Owner(jd), usage |-> sealedFor,
                     ctx |-> sealedUnder, payload |-> payload, rcpt |-> rcpt,
                     envelope |-> Sealed(rcpt, sealedFor, payload, EffectiveContext(jd, sealedUnder))]
  BY <1>3, Zenon DEF IsEnvelope
<1>5. Issue(jd, rcpt, sealedFor, payload, sealedUnder)
  BY <1>4 DEF Issue
<1>6. QED
  BY <1>5

LEMMA OpenStep ==
  ASSUME EInv, issued.kind = "envelope", NEW id \in callers, NEW format \in Formats,
         NEW usage, NEW context \in Contexts, NEW env,
         env \in Intact(issued.envelope, format) \cup Damaged(issued.envelope, format),
         Open(id, format, env, usage, context)
  PROVE  EInv' /\ Safe'
<1>1. PICK jd \in Names, rcpt \in Recipients, sealedFor \in Usages, payload \in Payloads,
           sealedUnder \in Seq(Characters) : Issue(jd, rcpt, sealedFor, payload, sealedUnder)
  BY IssuedFacts
<1>2. PICK ctx \in Seq(Characters) : ctx = Received(format, context)
  <2>1. context \in Seq(Characters)
    BY ContextAssumption
  <2>2. QED
    BY <2>1, ReceivedIsContext
<1>3. id \in Names
  BY DEF EInv
<1>4. PICK e : e = issued.envelope
  OBVIOUS
<1>5. PICK sent : sent = Parsed(env, format)
  OBVIOUS
<1>6. PICK error :
        error = FirstError(<<ParseError(env, format), CompleteError(sent), MetaError(sent),
                             ContextError(id, ctx), KidError(sent), DecapsulateError(sent.encap),
                             DataError(sent, usage, EffectiveContext(id, ctx))>>)
  OBVIOUS
<1>7. /\ error = "ok" <=> /\ env \in Intact(e, format) /\ rcpt = "none" /\ usage = sealedFor
                          /\ ctx = sealedUnder /\ Owner(id) = Owner(jd)
      /\ env \in Intact(e, format) => env.data.plain = payload
  <2>1. /\ e = Sealed(rcpt, sealedFor, payload, EffectiveContext(jd, sealedUnder))
        /\ UsagePayloadError(payload, sealedFor) = "ok" /\ ContextError(jd, sealedUnder) = "ok"
    BY <1>1, <1>4, Zenon DEF Issue
  <2>2. env \in Intact(e, format) \cup Damaged(e, format)
    BY <1>4
  <2>3. QED
    BY <1>3, <1>5, <1>6, <2>1, <2>2, OpenErrorFacts
<1>8. PICK status : status = StatusOf(error) /\ (status = 200 <=> error = "ok")
  BY StatusFacts
<1>0. PICK way : /\ way = CASE env \in Honest(e) -> "whole"
                           [] env \in Unnamed(e, format) -> "unnamed"
                           [] OTHER -> "damaged"
                 /\ way = "whole" => env \in Intact(e, format)
                 /\ env \in Intact(e, format) => way # "damaged"
  BY DEF Intact
<1>9. answer' = [op |-> "open", owner |-> Owner(id), usage |-> usage, ctx |-> ctx,
                 sent |-> way, status |-> status,
                 plain |-> IF error = "ok" THEN env.data.plain ELSE "none"]
  BY <1>0, <1>2, <1>4, <1>5, <1>6, <1>8, Zenon DEF Open
<1>10. /\ answer'.op = "open" /\ answer'.owner = Owner(id) /\ answer'.usage = usage
       /\ answer'.ctx = ctx /\ answer'.status = status
       /\ answer'.sent = way
       /\ answer'.plain = IF error = "ok" THEN env.data.plain ELSE "none"
  BY <1>9
<1>11. issued' = issued /\ UNCHANGED <<deployed, callers, issued>>
  BY DEF Open
<1>12. /\ issued'.kind = "envelope" /\ issued'.owner = Owner(jd) /\ issued'.usage = sealedFor
       /\ issued'.ctx = sealedUnder /\ issued'.payload = payload /\ issued'.rcpt = rcpt
  BY <1>1, <1>11, Zenon DEF Issue
<1>13. OpensOnlyWhatWasSealed'
  <2> SUFFICES ASSUME answer'.status = 200
               PROVE  /\ answer'.sent # "damaged" /\ issued'.rcpt = "none"
                      /\ answer'.usage = issued'.usage /\ answer'.ctx = issued'.ctx
                      /\ answer'.owner = issued'.owner /\ answer'.plain = issued'.payload
    BY Zenon DEF OpensOnlyWhatWasSealed
  <2>1. error = "ok"
    BY <1>8, <1>10
  <2>2. /\ env \in Intact(e, format) /\ rcpt = "none" /\ usage = sealedFor
        /\ ctx = sealedUnder /\ Owner(id) = Owner(jd) /\ env.data.plain = payload
    BY <1>7, <2>1, Zenon
  <2>3. answer'.sent # "damaged"
    BY <1>0, <1>10, <2>2, Zenon
  <2>4. answer'.plain = payload
    BY <1>10, <2>1, <2>2
  <2>5. answer'.usage = sealedFor /\ answer'.ctx = sealedUnder /\ answer'.owner = Owner(jd)
    BY <1>10, <2>2, Zenon
  <2>6. QED
    BY <1>12, <2>2, <2>3, <2>4, <2>5, Zenon
<1>14. answer'.op # "front" /\ answer'.op # "limit" /\ answer'.op # "decapsulate"
  BY <1>10
<1>15. HonestRoundTrip'
  BY <1>0, <1>7, <1>8, <1>10, <1>12, <1>14, Zenon DEF HonestRoundTrip
<1>16. Guarded' /\ SourceCannotBeForged' /\ KeysAreSeparated'
  BY <1>14, Zenon DEF Guarded, SourceCannotBeForged, KeysAreSeparated
<1>17. EInv'
  BY <1>11, FrameFacts
<1>18. QED
  BY <1>13, <1>15, <1>16, <1>17 DEF Safe

-----------------------------------------------------------------------------
(* Decapsulation *)

\* An agreement, with the key it was made for.
LEMMA AgreedFacts ==
  ASSUME EInv, issued.kind # "envelope", issued # NotIssued
  PROVE  \E rcpt \in Recipients :
           /\ issued.kind = "agreement" /\ issued.rcpt = rcpt
           /\ issued.encap = Whole(EffectiveKey(rcpt))
           /\ issued.secret = DeriveSecret(SharedSecret(EffectiveKey(rcpt), Whole(EffectiveKey(rcpt))),
                                "KEY_AGREEMENT", Whole(EffectiveKey(rcpt)), EffectiveKey(rcpt), <<>>)
<1>1. ~IsEnvelope
  BY DEF IsEnvelope
<1>2. IsAgreement
  BY <1>1 DEF EInv
<1>3. PICK rcpt \in Recipients :
        issued = [kind |-> "agreement", rcpt |-> rcpt, encap |-> Encapsulated(rcpt),
                  secret |-> DeriveSecret(SharedSecret(Encapsulated(rcpt).pk, Encapsulated(rcpt)),
                               "KEY_AGREEMENT", Encapsulated(rcpt), EffectiveKey(rcpt), <<>>)]
  BY <1>2, Zenon DEF IsAgreement
<1>4. PICK pk : pk = EffectiveKey(rcpt) /\ Encapsulated(rcpt) = Whole(pk)
  BY EncapsulatedFacts
<1>5. Whole(pk).pk = pk
  BY DEF Whole
<1>6. issued = [kind |-> "agreement", rcpt |-> rcpt, encap |-> Whole(pk),
                secret |-> DeriveSecret(SharedSecret(pk, Whole(pk)),
                             "KEY_AGREEMENT", Whole(pk), pk, <<>>)]
  BY <1>3, <1>4, <1>5, Zenon
<1>7. /\ issued.kind = "agreement" /\ issued.rcpt = rcpt /\ issued.encap = Whole(pk)
      /\ issued.secret = DeriveSecret(SharedSecret(pk, Whole(pk)),
                           "KEY_AGREEMENT", Whole(pk), pk, <<>>)
  BY <1>6
<1>8. QED
  BY <1>4, <1>7, Zenon

\* What an envelope is sealed with is derived for its usage.
LEMMA SealedKeyFacts ==
  ASSUME NEW rcpt \in Recipients, NEW usage, NEW payload, NEW ctx
  PROVE  \E s, e, pk : Sealed(rcpt, usage, payload, ctx).data.key = DeriveSecret(s, usage, e, pk, ctx)
<1>1. PICK pk, key, aad :
        /\ key = DeriveSecret(SharedSecret(pk, Whole(pk)), usage, Whole(pk), pk, ctx)
        /\ Shaped(Sealed(rcpt, usage, payload, ctx), pk, payload, key, aad)
  BY SealedShape
<1>2. Sealed(rcpt, usage, payload, ctx).data.key = key
  BY <1>1, ShapeFacts
<1>3. QED
  BY <1>1, <1>2, Zenon

LEMMA DecapsulateStep ==
  ASSUME EInv, issued # NotIssued, NEW encap, Decapsulate(encap)
  PROVE  EInv' /\ Safe'
<1>1. PICK error : error = FirstError(<<Check(encap.form = "empty", "ErrInvalidKey"),
                                        DecapsulateError(encap)>>)
  OBVIOUS
<1>2. PICK secret :
        secret = IF error # "ok" THEN NoSecret ELSE
          DeriveSecret(SharedSecret(LocalKey, encap), "KEY_AGREEMENT", encap, LocalKey, <<>>)
  OBVIOUS
<1>3. answer' = [op |-> "decapsulate", encap |-> encap, status |-> StatusOf(error),
                 secret |-> secret]
  BY <1>1, <1>2, Zenon DEF Decapsulate
<1>4. answer'.op = "decapsulate" /\ answer'.encap = encap /\ answer'.secret = secret
  BY <1>3
<1>5. issued' = issued /\ UNCHANGED <<deployed, callers, issued>>
  BY DEF Decapsulate
<1>6. KeysAreSeparated'
  <2> SUFFICES ASSUME issued.kind = "envelope" PROVE secret # issued.envelope.data.key
    BY <1>4, <1>5, Zenon DEF KeysAreSeparated
  <2>1. PICK jd \in Names, rcpt \in Recipients, sealedFor \in Usages, payload \in Payloads,
             sealedUnder \in Seq(Characters) : Issue(jd, rcpt, sealedFor, payload, sealedUnder)
    BY IssuedFacts
  <2>2. PICK under : issued.envelope = Sealed(rcpt, sealedFor, payload, under)
    BY <2>1, Zenon DEF Issue
  <2>3. PICK s, e, pk : issued.envelope.data.key = DeriveSecret(s, sealedFor, e, pk, under)
    BY <2>2, SealedKeyFacts
  <2>4. sealedFor # "KEY_AGREEMENT"
    BY DEF Usages
  <2>5. issued.envelope.data.key # NoSecret
    BY <2>3, SecretExists, Zenon
  <2>6. issued.envelope.data.key #
          DeriveSecret(SharedSecret(LocalKey, encap), "KEY_AGREEMENT", encap, LocalKey, <<>>)
    <3>1. ASSUME DeriveSecret(s, sealedFor, e, pk, under) =
                   DeriveSecret(SharedSecret(LocalKey, encap), "KEY_AGREEMENT", encap, LocalKey, <<>>)
          PROVE  sealedFor = "KEY_AGREEMENT"
      BY <3>1, SecretInjective
    <3>2. QED
      BY <2>3, <2>4, <3>1
  <2>7. QED
    BY <1>2, <2>5, <2>6, Zenon
<1>7. HonestRoundTrip'
  <2> SUFFICES ASSUME issued.kind = "agreement"
               PROVE  secret = issued.secret <=> issued.rcpt = "none" /\ encap = issued.encap
    BY <1>4, <1>5, Zenon DEF HonestRoundTrip
  <2>1. PICK rcpt \in Recipients :
          /\ issued.rcpt = rcpt /\ issued.encap = Whole(EffectiveKey(rcpt))
          /\ issued.secret = DeriveSecret(SharedSecret(EffectiveKey(rcpt), Whole(EffectiveKey(rcpt))),
                               "KEY_AGREEMENT", Whole(EffectiveKey(rcpt)), EffectiveKey(rcpt), <<>>)
    BY AgreedFacts
  <2>2. PICK pk, whole : /\ pk = EffectiveKey(rcpt) /\ whole = Whole(pk)
                         /\ issued.encap = whole
                         /\ issued.secret = DeriveSecret(SharedSecret(pk, whole), "KEY_AGREEMENT",
                                              whole, pk, <<>>)
    BY <2>1
  <2>3. pk = LocalKey <=> rcpt = "none"
    BY <2>2, EncapsulatedFacts
  <2>4. whole.form = "whole" /\ whole.pk = pk
    BY <2>2 DEF Whole
  <2>5. ASSUME secret = issued.secret
        PROVE  rcpt = "none" /\ encap = whole
    <3>1. issued.secret # NoSecret
      BY <2>2, SecretExists, Zenon
    <3>2. DeriveSecret(SharedSecret(LocalKey, encap), "KEY_AGREEMENT", encap, LocalKey, <<>>)
            = DeriveSecret(SharedSecret(pk, whole), "KEY_AGREEMENT", whole, pk, <<>>)
      BY <1>2, <2>2, <2>5, <3>1, Zenon
    <3>3. SharedSecret(LocalKey, encap) = SharedSecret(pk, whole)
      BY <3>2, SecretInjective
    <3>4. encap = whole /\ (encap.form = "whole" /\ encap.pk = LocalKey <=> whole.form = "whole" /\ whole.pk = pk)
      BY <3>3, SharedSecretFacts
    <3>5. QED
      BY <2>3, <2>4, <3>4
  <2>6. ASSUME rcpt = "none", encap = whole
        PROVE  secret = issued.secret
    <3>1. error = "ok"
      <4>1. encap.form = "whole"
        BY <2>4, <2>6
      <4>2. Check(encap.form = "empty", "ErrInvalidKey") = "ok" /\ DecapsulateError(encap) = "ok"
        BY <4>1 DEF DecapsulateError, Check
      <4>3. QED
        BY <1>1, <4>2, FirstOfTwo
    <3>2. QED
      BY <1>2, <2>2, <2>3, <2>6, <3>1, Zenon
  <2>7. QED
    BY <2>1, <2>2, <2>5, <2>6, Zenon
<1>8. answer'.op # "front" /\ answer'.op # "limit" /\ answer'.op # "open"
  BY <1>4
<1>9. Guarded' /\ SourceCannotBeForged' /\ OpensOnlyWhatWasSealed'
  BY <1>8, Zenon DEF Guarded, SourceCannotBeForged, OpensOnlyWhatWasSealed
<1>10. EInv'
  BY <1>5, FrameFacts
<1>11. QED
  BY <1>6, <1>7, <1>9, <1>10 DEF Safe

-----------------------------------------------------------------------------
(* The theorems *)

LEMMA NextStep ==
  ASSUME EInv, Next
  PROVE  EInv' /\ Safe'
<1>1. CASE Receive
  BY <1>1, ReceiveStep
<1>2. CASE Asked
  <2>1. CASE \E q \in Requests : Front(q)
    BY <2>1, FrontStep
  <2>2. CASE \E id \in callers, remote \in Proxies \cup Hosts \cup {""}, joined \in BOOLEAN,
                forged \in Forgeries, host \in Hosts, hops \in Routes :
               Limit(id, remote, joined, forged, host, hops)
    BY <2>2, LimitStep
  <2>3. QED
    BY <1>2, <2>1, <2>2, Zenon DEF Asked
<1>3. CASE Sent
  <2>1. CASE \E id \in callers, format \in Formats, rcpt \in Recipients, usage \in Usages,
                payload \in Payloads :
               \E ctx \in Given(format) : Seal("seal", id, format, rcpt, usage, payload, ctx)
    <3>1. PICK id \in callers, format \in Formats, rcpt \in Recipients, usage \in Usages,
               payload \in Payloads :
                 \E ctx \in Given(format) : Seal("seal", id, format, rcpt, usage, payload, ctx)
      BY <2>1, Zenon
    <3>2. PICK ctx \in Given(format) : Seal("seal", id, format, rcpt, usage, payload, ctx)
      BY <3>1, Zenon
    <3>3. ctx \in Contexts
      BY DEF Given
    <3>4. QED
      BY <3>2, <3>3, SealStep
  <2>2. CASE \E id \in callers, rcpt \in Recipients, size \in Payloads, ctx \in Contexts :
               GenerateDataKey(id, rcpt, size, ctx)
    BY <2>2, GenerateStep
  <2>3. CASE \E rcpt \in Recipients : Encapsulate(rcpt)
    BY <2>3, EncapsulateStep
  <2>4. QED
    BY <1>3, <2>1, <2>2, <2>3, Zenon DEF Sent
<1>4. CASE Returned
  <2>1. ASSUME issued.kind = "envelope", NEW id \in callers, NEW format \in Formats,
               NEW usage \in Usages, NEW ctx \in Given(format), NEW env,
               env \in Intact(issued.envelope, format) \/ env \in Damaged(issued.envelope, format),
               Open(id, format, env, usage, ctx)
        PROVE  EInv' /\ Safe'
    <3>1. ctx \in Contexts
      BY DEF Given
    <3>2. env \in Intact(issued.envelope, format) \cup Damaged(issued.envelope, format)
      BY <2>1
    <3>3. QED
      BY <2>1, <3>1, <3>2, OpenStep
  <2>2. ASSUME issued # NotIssued, NEW encap, Decapsulate(encap)
        PROVE  EInv' /\ Safe'
    BY <2>2, DecapsulateStep
  <2>3. QED
    BY <1>4, <2>1, <2>2, Zenon DEF Returned, Intact
<1>5. QED
  BY <1>1, <1>2, <1>3, <1>4 DEF Next

LEMMA StutterStep ==
  ASSUME EInv, Safe, UNCHANGED vars
  PROVE  EInv' /\ Safe'
<1>1. /\ UNCHANGED <<deployed, callers, issued>>
      /\ deployed' = deployed /\ issued' = issued /\ answer' = answer
  BY DEF vars
<1>2. EInv'
  BY <1>1, FrameFacts
<1>3. Guarded' /\ SourceCannotBeForged'
  BY <1>1, Zenon DEF Safe, Guarded, SourceCannotBeForged
<1>4. OpensOnlyWhatWasSealed' /\ KeysAreSeparated'
  BY <1>1, Zenon DEF Safe, OpensOnlyWhatWasSealed, KeysAreSeparated
<1>5. HonestRoundTrip'
  BY <1>1, Zenon DEF Safe, HonestRoundTrip
<1>6. QED
  BY <1>2, <1>3, <1>4, <1>5 DEF Safe

LEMMA InitSafe == Init => EInv /\ Safe
<1> SUFFICES ASSUME Init PROVE EInv /\ Safe
  OBVIOUS
<1>1. EInv
  BY InitEInv
<1>2. answer.op # "front" /\ answer.op # "limit" /\ answer.op # "open" /\ answer.op # "decapsulate"
  BY DEF Init, Nothing
<1>3. Guarded /\ SourceCannotBeForged
  BY <1>2, Zenon DEF Guarded, SourceCannotBeForged
<1>4. OpensOnlyWhatWasSealed /\ HonestRoundTrip /\ KeysAreSeparated
  BY <1>2, Zenon DEF OpensOnlyWhatWasSealed, HonestRoundTrip, KeysAreSeparated
<1>5. QED
  BY <1>1, <1>3, <1>4 DEF Safe

LEMMA SpecSafe == Spec => [](EInv /\ Safe)
<1>1. EInv /\ Safe /\ [Next]_vars => EInv' /\ Safe'
  BY NextStep, StutterStep
<1>2. QED
  BY <1>1, InitSafe, PTL DEF Spec

\* Under any configuration that Validate accepts, with any certificates, tokens and users, the
\* chain of NewRouter lets no request through to the engine that lacks a token, a user or an
\* identity asked for on the way it came, nor, without a limit of connections, an allowed
\* certificate; and only /health answers the unknown.
THEOREM AlwaysGuarded == Spec => []Guarded
<1>1. Safe => Guarded
  BY DEF Safe
<1>2. QED
  BY <1>1, SpecSafe, PTL

\* Whatever a client writes in X-Forwarded-For, of any length, NewClientIPResolver finds the
\* address that the first proxy saw if the proxies, however many, join it into one line; it does
\* so without condition when the client writes nothing, or has an identity, or no proxy.
THEOREM SourceNeverForged == Spec => []SourceCannotBeForged
<1>1. Safe => SourceCannotBeForged
  BY DEF Safe
<1>2. QED
  BY <1>1, SpecSafe, PTL

\* HybridEngine opens an envelope for the usage, the context and the client it was sealed for
\* and no other, whatever their characters, because boundEncryptionContext and the transcript
\* are injective: no identity and context of one client pass for those of another.
THEOREM OpensOnlySealed == Spec => []OpensOnlyWhatWasSealed
<1>1. Safe => OpensOnlyWhatWasSealed
  BY DEF Safe
<1>2. QED
  BY <1>1, SpecSafe, PTL

\* What seal and Encapsulate produced for the service, open and Decapsulate give back, to
\* every client and for every context that was accepted: none is refused on its way back.
THEOREM AlwaysRoundTrip == Spec => []HonestRoundTrip
<1>1. Safe => HonestRoundTrip
  BY DEF Safe
<1>2. QED
  BY <1>1, SpecSafe, PTL

\* The usage in the salt and the info of deriveSecret keeps KEMDecapsulate from giving away
\* the key of an envelope, for any recipient, usage and context.
THEOREM KeysAlwaysSeparated == Spec => []KeysAreSeparated
<1>1. Safe => KeysAreSeparated
  BY DEF Safe
<1>2. QED
  BY <1>1, SpecSafe, PTL
=============================================================================
