------------------------- MODULE ShloTensors_proofs -------------------------
(***************************************************************************)
(* What the graphs of stage P5 compute is not changed by the passes, and   *)
(* the types say the shapes of what is computed, for every graph of        *)
(* well-typed operators, whatever its size.                                *)
(*                                                                         *)
(* The argument.  Tensors fit a graph if they solve the equations that its *)
(* operators state.  An acyclic graph has one solution, and Meaning finds  *)
(* it.  So it is enough to say, for every rewrite, which tensors fit the   *)
(* new graph: the old ones, but for those that one operator takes over     *)
(* from another.  Settled states what the rewrites need of the types and   *)
(* the operators, pass by pass, and Ordered what the layout folds need of  *)
(* the passes before them.                                                 *)
(***************************************************************************)
EXTENDS ShloOpt_proofs

-----------------------------------------------------------------------------
(***************************************************************************)
(* Recursive functions with a range.                                       *)
(***************************************************************************)
\* f has values in T, starts with base and goes on by step.
Iterates(f, N, T, base, step) ==
    /\ f \in [0 .. N -> T]
    /\ f[0] = base
    /\ \A n \in 1 .. N : f[n] = step[<<n, f[n - 1]>>]

\* A step that does not leave T makes one.
LEMMA RecursiveFunction ==
  ASSUME NEW N \in Nat, NEW T, NEW base \in T, NEW step,
         \A n \in 1 .. N : \A x \in T : step[<<n, x>>] \in T
  PROVE  \E f : Iterates(f, N, T, base, step)
<1>1. PICK f : Recursion(f, N, base, step)
  BY RecursionExists
<1>2. /\ \E V : f \in [0 .. N -> V]
      /\ f[0] = base
      /\ \A n \in 0 .. N - 1 : f[n + 1] = step[<<n + 1, f[n]>>]
  BY <1>1 DEF Recursion
<1> DEFINE P == {n \in 0 .. N : f[n] \in T}
<1>3. 0 \in P
  BY <1>2
<1>4. ASSUME NEW n \in Nat, n < N, n \in P PROVE n + 1 \in P
  <2>1. n \in 0 .. N - 1 /\ n + 1 \in 0 .. N /\ n + 1 \in 1 .. N /\ f[n] \in T
    BY <1>4
  <2>2. step[<<n + 1, f[n]>>] \in T
    BY <2>1
  <2>3. f[n + 1] \in T
    BY <1>2, <2>1, <2>2
  <2>4. QED
    BY <2>1, <2>3
<1>5. 0 .. N \subseteq P
  <2> HIDE DEF P
  <2>1. QED
    BY <1>3, <1>4, UpTo
<1>6. f \in [0 .. N -> T]
  <2>1. \A n \in 0 .. N : f[n] \in T
    BY <1>5
  <2>2. QED
    BY <1>2, <2>1
<1>7. ASSUME NEW n \in 1 .. N PROVE f[n] = step[<<n, f[n - 1]>>]
  <2>1. n - 1 \in 0 .. N - 1 /\ n - 1 + 1 = n
    OBVIOUS
  <2>2. QED
    BY <1>2, <2>1
<1>8. QED
  BY <1>2, <1>6, <1>7 DEF Iterates

(***************************************************************************)
(* Tensors.                                                                *)
(***************************************************************************)
Residues == 0 .. Modulus - 1

Entries == Residues \X Residues \X Residues

Tensors == [dims : Rotations, at : Entries]

\* Also those an operator whose operands do not fit computes.
Outcomes == [dims : {Dynamic} \cup Rotations, at : Entries]

\* Residues.
LEMMA ResidueFacts ==
  /\ \A z \in Int : z % Modulus \in Residues
  /\ \A z \in Residues : z \in Int /\ z % Modulus = z
BY DEF Modulus, Residues

\* Three residues, and nothing else, are the entries of a tensor.
LEMMA EntryFacts ==
  /\ \A a, b, c \in Residues : <<a, b, c>> \in Entries
  /\ \A e \in Entries : e[1] \in Residues /\ e[2] \in Residues /\ e[3] \in Residues
  /\ \A e, f \in Entries : e[1] = f[1] /\ e[2] = f[2] /\ e[3] = f[3] => e = f
<1> HIDE DEF Residues
<1>1. QED
  BY DEF Entries

\* A tensor has a shape and entries.
LEMMA TensorFacts ==
  /\ Tensors \subseteq Outcomes
  /\ \A x \in Outcomes : /\ x.dims \in {Dynamic} \cup Rotations /\ x.at \in Entries
                         /\ IsDefined(x) <=> x \in Tensors
                         /\ x = [dims |-> x.dims, at |-> x.at]
  /\ \A x \in Tensors : x.dims \in Rotations /\ x.at \in Entries
  /\ \A x, y \in Outcomes : x.dims = y.dims /\ x.at = y.at => x = y
  /\ \A d \in Rotations : \A e \in Entries : [dims |-> d, at |-> e] \in Tensors
<1> HIDE DEF Entries
<1>1. \A d \in Rotations : d # Dynamic
  BY DEF Rotations, Dynamic
<1> HIDE DEF Rotations, Dynamic
<1>2. QED
  BY <1>1 DEF Tensors, Outcomes, IsDefined

\* What has no tensor counts as a tensor without a shape.
LEMMA UndefinedFacts == Undefined \in Outcomes /\ Undefined \notin Tensors /\ ~IsDefined(Undefined)
<1>1. 0 \in Residues
  BY DEF Residues, Modulus
<1>2. <<0, 0, 0>> \in Entries
  BY <1>1, EntryFacts
<1>3. Undefined.dims = Dynamic /\ Undefined \in Outcomes
  <2> DEFINE e == <<0, 0, 0>>
  <2>1. e \in Entries /\ Undefined = [dims |-> Dynamic, at |-> e]
    BY <1>2 DEF Undefined
  <2> HIDE DEF e, Entries
  <2>2. QED
    BY <2>1 DEF Outcomes
<1>4. QED
  BY <1>3, TensorFacts DEF IsDefined

Integral(e) == e[1] \in Int /\ e[2] \in Int /\ e[3] \in Int

\* Sums, products and differences are entries, position by position.
LEMMA EntrywiseFacts ==
  ASSUME NEW mn \in {"add", "multiply", "subtract"}, NEW a, Integral(a), NEW b, Integral(b)
  PROVE  /\ Entrywise(mn, a, b) \in Entries
         /\ \A i \in 1 .. 3 : Entrywise(mn, a, b)[i] = Calc(mn, a[i], b[i])
<1>1. \A x, y \in Int : Calc(mn, x, y) \in Residues
  <2>1. \A x, y \in Int : x + y \in Int /\ x - y \in Int /\ x * y \in Int
    OBVIOUS
  <2>2. \A x, y \in Int : Calc(mn, x, y) \in {(x + y) % Modulus, (x * y) % Modulus, (x - y) % Modulus}
    BY DEF Calc
  <2>3. QED
    BY <2>1, <2>2, ResidueFacts
<1> DEFINE p == Calc(mn, a[1], b[1])
           q == Calc(mn, a[2], b[2])
           r == Calc(mn, a[3], b[3])
<1>2. p \in Residues /\ q \in Residues /\ r \in Residues
  BY <1>1 DEF Integral
<1>3. Entrywise(mn, a, b) = <<p, q, r>>
  BY DEF Entrywise
<1> HIDE DEF p, q, r, Residues
<1>4. <<p, q, r>> \in Entries
  BY <1>2, EntryFacts
<1>5. \A i \in 1 .. 3 : i = 1 \/ i = 2 \/ i = 3
  OBVIOUS
<1>6. <<p, q, r>>[1] = p /\ <<p, q, r>>[2] = q /\ <<p, q, r>>[3] = r
  OBVIOUS
<1>7. QED
  BY <1>3, <1>4, <1>5, <1>6 DEF p, q, r

\* Entries are integers.
LEMMA EntriesAreIntegral ==
  ASSUME NEW e \in Entries
  PROVE  Integral(e)
<1>1. e[1] \in Residues /\ e[2] \in Residues /\ e[3] \in Residues
  BY EntryFacts
<1>2. QED
  BY <1>1, ResidueFacts DEF Integral

\* Hence operators make entries of entries.
LEMMA EntrywiseOfEntries ==
  ASSUME NEW mn \in {"add", "multiply", "subtract"}, NEW a \in Entries, NEW b \in Entries
  PROVE  /\ Entrywise(mn, a, b) \in Entries
         /\ \A i \in 1 .. 3 : Entrywise(mn, a, b)[i] = Calc(mn, a[i], b[i])
<1>1. Integral(a) /\ Integral(b)
  BY EntriesAreIntegral
<1>2. QED
  BY <1>1, EntrywiseFacts

\* A constant has its number, as a residue, everywhere.
LEMMA SplatFacts ==
  ASSUME NEW d, NEW n \in Int
  PROVE  /\ Splat(d, n).dims = d
         /\ Splat(d, n).at \in Entries
         /\ \A i \in 1 .. 3 : Splat(d, n).at[i] = n % Modulus
         /\ Splat(d, n) = [dims |-> d, at |-> Splat(d, n).at]
         /\ d \in Rotations => Splat(d, n) \in Tensors
<1> DEFINE m == n % Modulus
           e == <<m, m, m>>
<1>1. m \in Residues
  BY ResidueFacts
<1>2. Splat(d, n) = [dims |-> d, at |-> e]
  BY DEF Splat
<1> HIDE DEF m
<1>3. e \in Entries
  BY <1>1, EntryFacts
<1>4. \A i \in 1 .. 3 : e[i] = m
  OBVIOUS
<1> HIDE DEF e
<1>5. Splat(d, n).dims = d /\ Splat(d, n).at = e
  BY <1>2
<1>6. d \in Rotations => Splat(d, n) \in Tensors
  BY <1>2, <1>3, TensorFacts
<1>7. QED
  BY <1>2, <1>3, <1>4, <1>5, <1>6 DEF m

\* A transposed tensor has rotated entries and a rotated shape.
LEMMA TransposedFacts ==
  ASSUME NEW x \in Tensors, NEW p \in Rotations
  PROVE  /\ Transposed(x, p) \in Tensors
         /\ Transposed(x, p).dims = (x.dims + p) % 3
         /\ p = 0 => Transposed(x, p) = x
         /\ p = 1 => Transposed(x, p).at = <<x.at[2], x.at[3], x.at[1]>>
         /\ p = 2 => Transposed(x, p).at = <<x.at[3], x.at[1], x.at[2]>>
<1> DEFINE a == x.at[1]
           b == x.at[2]
           c == x.at[3]
           e == CASE p = 0 -> x.at [] p = 1 -> <<b, c, a>> [] p = 2 -> <<c, a, b>>
           d == (x.dims + p) % 3
<1>1. x.dims \in Rotations /\ x.at \in Entries /\ x = [dims |-> x.dims, at |-> x.at]
  BY TensorFacts
<1>2. a \in Residues /\ b \in Residues /\ c \in Residues
  BY <1>1, EntryFacts
<1>3. d \in Rotations /\ (p = 0 => d = x.dims) /\ p \in {0, 1, 2}
  BY <1>1 DEF Rotations
<1>4. Transposed(x, p) = [dims |-> d, at |-> e]
  BY DEF Transposed
<1> HIDE DEF a, b, c
<1>5. <<b, c, a>> \in Entries /\ <<c, a, b>> \in Entries
  BY <1>2, EntryFacts
<1>6. /\ p = 0 => e = x.at
      /\ p = 1 => e = <<b, c, a>>
      /\ p = 2 => e = <<c, a, b>>
  OBVIOUS
<1> HIDE DEF e
<1>7. e \in Entries
  BY <1>1, <1>3, <1>5, <1>6
<1> HIDE DEF d
<1>8. Transposed(x, p) \in Tensors
  BY <1>3, <1>4, <1>7, TensorFacts
<1>9. Transposed(x, p).dims = d /\ Transposed(x, p).at = e
  BY <1>4
<1>10. p = 0 => Transposed(x, p) = x
  BY <1>1, <1>3, <1>4, <1>6
<1>11. QED
  BY <1>6, <1>8, <1>9, <1>10 DEF a, b, c, d
\* Two transposes in a row are one by the composed permutation.
LEMMA TwoRotations ==
  ASSUME NEW x \in Tensors, NEW p \in Rotations, NEW q \in Rotations
  PROVE  Transposed(Transposed(x, p), q) = Transposed(x, (p + q) % 3)
<1> DEFINE y == Transposed(x, p)
           z == Transposed(y, q)
           r == (p + q) % 3
           w == Transposed(x, r)
<1>1. /\ p \in {0, 1, 2} /\ q \in {0, 1, 2} /\ r \in Rotations
      /\ x.dims \in Rotations
  BY TensorFacts DEF Rotations
<1>2. /\ y \in Tensors
      /\ y.dims = (x.dims + p) % 3
      /\ p = 0 => y = x
      /\ p = 1 => y.at = <<x.at[2], x.at[3], x.at[1]>>
      /\ p = 2 => y.at = <<x.at[3], x.at[1], x.at[2]>>
  BY TransposedFacts
<1> HIDE DEF y
<1>3. /\ z \in Tensors
      /\ z.dims = (y.dims + q) % 3
      /\ q = 0 => z = y
      /\ q = 1 => z.at = <<y.at[2], y.at[3], y.at[1]>>
      /\ q = 2 => z.at = <<y.at[3], y.at[1], y.at[2]>>
  BY <1>2, TransposedFacts
<1>4. /\ w \in Tensors
      /\ w.dims = (x.dims + r) % 3
      /\ r = 0 => w = x
      /\ r = 1 => w.at = <<x.at[2], x.at[3], x.at[1]>>
      /\ r = 2 => w.at = <<x.at[3], x.at[1], x.at[2]>>
  BY <1>1, TransposedFacts
<1>5. z.dims = w.dims
  <2> DEFINE d == x.dims
  <2>1. d \in 0 .. 2 /\ y.dims = (d + p) % 3 /\ z.dims = (y.dims + q) % 3 /\ w.dims = (d + r) % 3
    BY <1>1, <1>2, <1>3, <1>4 DEF Rotations
  <2>2. (((d + p) % 3) + q) % 3 = (d + ((p + q) % 3)) % 3
    <3> HIDE DEF d
    <3>1. QED
      BY <1>1, <2>1
  <2>3. QED
    BY <2>1, <2>2
<1>6. /\ r = IF p + q < 3 THEN p + q ELSE p + q - 3
  BY <1>1
<1> HIDE DEF r, z, w
<1>7. z.at = w.at
  <2>0. x.at \in Entries /\ z.at \in Entries /\ w.at \in Entries
    BY <1>3, <1>4, TensorFacts
  <2>1. z.at[1] = w.at[1] /\ z.at[2] = w.at[2] /\ z.at[3] = w.at[3]
    <3>1. CASE p = 0
      BY <1>1, <1>2, <1>3, <1>4, <1>6, <3>1
    <3>2. CASE p = 1
      BY <1>1, <1>2, <1>3, <1>4, <1>6, <3>2
    <3>3. CASE p = 2
      BY <1>1, <1>2, <1>3, <1>4, <1>6, <3>3
    <3>4. QED
      BY <1>1, <3>1, <3>2, <3>3
  <2>2. QED
    BY <2>0, <2>1, EntryFacts
<1>8. QED
  BY <1>3, <1>4, <1>5, <1>7, TensorFacts DEF r, z, w, y

\* Operators work position by position, before or after both operands are turned.
LEMMA TransposedOperands ==
  ASSUME NEW mn \in {"add", "multiply", "subtract"}, NEW x \in Tensors, NEW y \in Tensors,
         NEW p \in Rotations, x.dims = y.dims
  PROVE  LET z == [dims |-> x.dims, at |-> Entrywise(mn, x.at, y.at)]
             u == Transposed(x, p)
             v == Transposed(y, p)
         IN  /\ z \in Tensors /\ u \in Tensors /\ v \in Tensors
             /\ u.dims = v.dims
             /\ Transposed(z, p) = [dims |-> u.dims, at |-> Entrywise(mn, u.at, v.at)]
<1> DEFINE E == Entrywise(mn, x.at, y.at)
           z == [dims |-> x.dims, at |-> E]
           u == Transposed(x, p)
           v == Transposed(y, p)
           F == Entrywise(mn, u.at, v.at)
           w == Transposed(z, p)
<1>1. x.at \in Entries /\ y.at \in Entries /\ x.dims \in Rotations /\ p \in {0, 1, 2}
  BY TensorFacts DEF Rotations
<1>2. E \in Entries /\ \A i \in 1 .. 3 : E[i] = Calc(mn, x.at[i], y.at[i])
  BY <1>1, EntrywiseOfEntries
<1> HIDE DEF E
<1>3. z \in Tensors /\ z.dims = x.dims /\ z.at = E
  BY <1>1, <1>2, TensorFacts
<1> HIDE DEF z
<1>4. /\ u \in Tensors /\ u.dims = (x.dims + p) % 3
      /\ p = 0 => u = x
      /\ p = 1 => u.at = <<x.at[2], x.at[3], x.at[1]>>
      /\ p = 2 => u.at = <<x.at[3], x.at[1], x.at[2]>>
  BY TransposedFacts
<1>5. /\ v \in Tensors /\ v.dims = (y.dims + p) % 3
      /\ p = 0 => v = y
      /\ p = 1 => v.at = <<y.at[2], y.at[3], y.at[1]>>
      /\ p = 2 => v.at = <<y.at[3], y.at[1], y.at[2]>>
  BY TransposedFacts
<1>6. /\ w \in Tensors /\ w.dims = (z.dims + p) % 3
      /\ p = 0 => w = z
      /\ p = 1 => w.at = <<z.at[2], z.at[3], z.at[1]>>
      /\ p = 2 => w.at = <<z.at[3], z.at[1], z.at[2]>>
  BY <1>3, TransposedFacts
<1> HIDE DEF u, v, w
<1>7. u.at \in Entries /\ v.at \in Entries /\ w.at \in Entries
  BY <1>4, <1>5, <1>6, TensorFacts
<1>8. F \in Entries /\ \A i \in 1 .. 3 : F[i] = Calc(mn, u.at[i], v.at[i])
  BY <1>7, EntrywiseOfEntries
<1> HIDE DEF F
<1>9. w.at = F
  <2>1. w.at[1] = F[1] /\ w.at[2] = F[2] /\ w.at[3] = F[3]
    <3>0. 1 \in 1 .. 3 /\ 2 \in 1 .. 3 /\ 3 \in 1 .. 3
      OBVIOUS
    <3>1. CASE p = 0
      BY <1>2, <1>3, <1>4, <1>5, <1>6, <1>8, <3>0, <3>1
    <3>2. CASE p = 1
      BY <1>2, <1>3, <1>4, <1>5, <1>6, <1>8, <3>0, <3>2
    <3>3. CASE p = 2
      BY <1>2, <1>3, <1>4, <1>5, <1>6, <1>8, <3>0, <3>3
    <3>4. QED
      BY <1>1, <3>1, <3>2, <3>3
  <2>2. QED
    BY <1>7, <1>8, <2>1, EntryFacts
<1>10. w.dims = u.dims /\ u.dims = v.dims
  BY <1>3, <1>4, <1>5, <1>6
<1>11. w = [dims |-> u.dims, at |-> F]
  BY <1>6, <1>9, <1>10, TensorFacts
<1>12. QED
  BY <1>3, <1>4, <1>5, <1>10, <1>11 DEF E, F, u, v, w, z

\* The entries of a convolution before they are written in its layout.
Filtered(op, x, w) ==
  LET in == IF op.attrs.input_layout = "NHWC" THEN Transposed(x, 2).at ELSE x.at
      y  == <<in[1] + 2 * in[2], in[2] + 3 * in[3], in[1] - in[3]>>
  IN Entrywise("multiply", y, w.at)

OutputRotation(op) == IF op.attrs.layout = "NHWC" THEN 1 ELSE 0

InputDims(op) == IF op.attrs.input_layout = "NHWC" THEN 1 ELSE 0

\* They are written in the layout the attribute says.
LEMMA ConvolvedIs ==
  ASSUME NEW op, NEW x, NEW w
  PROVE  Convolved(op, x, w)
           = Transposed([dims |-> 0, at |-> Filtered(op, x, w)], OutputRotation(op))
BY Zenon DEF Convolved, Filtered, OutputRotation

\* What the filter and the numbers are multiplied to.
LEMMA FilterProduct ==
  ASSUME NEW e \in Entries, NEW w \in Tensors
  PROVE  Entrywise("multiply", <<e[1] + 2 * e[2], e[2] + 3 * e[3], e[1] - e[3]>>, w.at)
           \in Entries
<1> DEFINE a == e[1] + 2 * e[2]
           b == e[2] + 3 * e[3]
           c == e[1] - e[3]
           y == <<a, b, c>>
<1>1. a \in Int /\ b \in Int /\ c \in Int
  BY EntriesAreIntegral DEF Integral
<1> HIDE DEF a, b, c
<1>2. Integral(y)
  BY <1>1 DEF Integral
<1>3. Integral(w.at)
  BY TensorFacts, EntriesAreIntegral
<1> HIDE DEF y
<1>4. Entrywise("multiply", y, w.at) \in Entries
  BY <1>2, <1>3, EntrywiseFacts
<1>5. QED
  BY <1>4 DEF y, a, b, c

\* A convolution computes entries, ...
LEMMA FilteredFacts ==
  ASSUME NEW op, NEW x \in Tensors, NEW w \in Tensors
  PROVE  /\ Filtered(op, x, w) \in Entries
         /\ Convolved(op, x, w) \in Tensors
         /\ Convolved(op, x, w).dims = OutputRotation(op)
<1> DEFINE in == IF op.attrs.input_layout = "NHWC" THEN Transposed(x, 2).at ELSE x.at
           m == Entrywise("multiply", <<in[1] + 2 * in[2], in[2] + 3 * in[3], in[1] - in[3]>>,
                          w.at)
           z == [dims |-> 0, at |-> Filtered(op, x, w)]
           r == OutputRotation(op)
<1>1. 2 \in Rotations /\ 0 \in Rotations /\ r \in Rotations /\ (0 + r) % 3 = r
  BY DEF Rotations, OutputRotation
<1>2. in \in Entries
  <2>1. Transposed(x, 2) \in Tensors
    BY <1>1, TransposedFacts
  <2>2. QED
    BY <2>1, TensorFacts
<1> HIDE DEF in
<1>3. m \in Entries
  BY <1>2, FilterProduct
<1>4. Filtered(op, x, w) = m
  BY Zenon DEF Filtered, m, in
<1> HIDE DEF m, r
<1>5. Filtered(op, x, w) \in Entries
  BY <1>3, <1>4
<1>6. z \in Tensors /\ z.dims = 0
  BY <1>1, <1>5, TensorFacts
<1> HIDE DEF z
<1>7. Transposed(z, r) \in Tensors /\ Transposed(z, r).dims = r
  BY <1>1, <1>6, TransposedFacts
<1>8. Convolved(op, x, w) = Transposed(z, r)
  BY ConvolvedIs DEF z, r
<1>9. QED
  BY <1>5, <1>7, <1>8 DEF r

\* ... which it can write turned, ...
LEMMA ConvolvedTurned ==
  ASSUME NEW op, op.attrs.layout # "NHWC",
         NEW q, q.attrs.layout = "NHWC",
         q.attrs.input_layout = op.attrs.input_layout,
         NEW x \in Tensors, NEW w \in Tensors
  PROVE  Convolved(q, x, w) = Transposed(Convolved(op, x, w), 1)
<1> DEFINE z == [dims |-> 0, at |-> Filtered(op, x, w)]
<1>1. Filtered(q, x, w) = Filtered(op, x, w)
  BY Zenon DEF Filtered
<1>2. 0 \in Rotations
  BY DEF Rotations
<1>3. z \in Tensors
  BY <1>2, FilteredFacts, TensorFacts
<1> HIDE DEF z
<1>4. Transposed(z, 0) = z
  BY <1>2, <1>3, TransposedFacts
<1>5. Convolved(op, x, w) = z
  BY <1>4, ConvolvedIs DEF z, OutputRotation
<1>6. Convolved(q, x, w) = Transposed(z, 1)
  BY <1>1, ConvolvedIs DEF z, OutputRotation
<1>7. QED
  BY <1>5, <1>6

\* ... and read turned.
LEMMA ConvolvedFromTurned ==
  ASSUME NEW op, op.attrs.input_layout # "NHWC",
         NEW q, q.attrs.layout = op.attrs.layout,
         q.attrs.input_layout = "NHWC",
         NEW x, NEW w
  PROVE  Convolved(q, x, w) = Convolved(op, Transposed(x, 2), w)
<1>1. Filtered(q, x, w) = Filtered(op, Transposed(x, 2), w)
  BY Zenon DEF Filtered
<1>2. OutputRotation(q) = OutputRotation(op)
  BY DEF OutputRotation
<1>3. QED
  BY <1>1, <1>2, ConvolvedIs

\* What Apply computes, one operator after the other.
LEMMA ApplyBinary ==
  ASSUME NEW op, op.mnemonic \in {"add", "multiply", "subtract"}, NEW in,
         in[1] \in Tensors, in[2] \in Tensors
  PROVE  Apply(op, in) = IF in[1].dims = in[2].dims
                         THEN [dims |-> in[1].dims,
                               at   |-> Entrywise(op.mnemonic, in[1].at, in[2].at)]
                         ELSE Undefined
<1> DEFINE x == in[1]
           e == Entrywise(op.mnemonic, in[1].at, in[2].at)
           z == [x EXCEPT !.at = e]
<1>1. Apply(op, in) = IF in[1].dims = in[2].dims THEN z ELSE Undefined
  BY DEF Apply, Binary
<1> HIDE DEF e
<1>2. x = [dims |-> x.dims, at |-> x.at]
  BY TensorFacts
<1>3. z = [dims |-> x.dims, at |-> e]
  <2> HIDE DEF x
  <2>1. QED
    BY <1>2
<1> HIDE DEF z
<1>4. QED
  BY <1>1, <1>3 DEF e

\* A negation is the difference from zero.
LEMMA ApplyNegate ==
  ASSUME NEW op, op.mnemonic = "negate", NEW in, in[1] \in Tensors
  PROVE  Apply(op, in) = [dims |-> in[1].dims,
                          at   |-> Entrywise("subtract", <<0, 0, 0>>, in[1].at)]
<1> DEFINE x == in[1]
           z == [x EXCEPT !.at = Entrywise("subtract", <<0, 0, 0>>, @)]
           e == Entrywise("subtract", <<0, 0, 0>>, in[1].at)
<1>1. Apply(op, in) = z
  BY DEF Apply, Binary
<1>2. x = [dims |-> x.dims, at |-> x.at]
  BY TensorFacts
<1>3. z = [x EXCEPT !.at = e]
  BY Zenon
<1> HIDE DEF e, z
<1>4. z = [dims |-> x.dims, at |-> e]
  <2> HIDE DEF x
  <2>1. QED
    BY <1>2, <1>3
<1>5. QED
  BY <1>1, <1>4 DEF e

\* A reshape keeps the entries.
LEMMA ApplyReshape ==
  ASSUME NEW op, op.mnemonic = "reshape", NEW in, in[1] \in Tensors
  PROVE  Apply(op, in) = [dims |-> op.type.dims, at |-> in[1].at]
<1> DEFINE x == in[1]
           d == op.type.dims
           z == [x EXCEPT !.dims = d]
<1>1. Apply(op, in) = z
  BY DEF Apply, Binary
<1>2. x = [dims |-> x.dims, at |-> x.at]
  BY TensorFacts
<1> HIDE DEF d
<1>3. z = [dims |-> d, at |-> x.at]
  <2> HIDE DEF x
  <2>1. QED
    BY <1>2
<1> HIDE DEF z
<1>4. QED
  BY <1>1, <1>3 DEF d

\* What Apply makes of the other operators.
LEMMA ApplyOthers ==
  ASSUME NEW op, NEW in
  PROVE  /\ op.mnemonic = "constant" => Apply(op, in) = Splat(op.type.dims, op.data)
         /\ op.mnemonic = "transpose" =>
              Apply(op, in) = Transposed(in[1], op.attrs.permutation)
         /\ op.mnemonic = "broadcast_in_dim" => Apply(op, in) = in[1]
         /\ op.mnemonic = "get_dimension_size" =>
              Apply(op, in) = Splat(0, Extent(in[1].dims))
         /\ op.mnemonic = "convolution" =>
              Apply(op, in) = IF in[1].dims = InputDims(op) THEN Convolved(op, in[1], in[2])
                              ELSE Undefined
<1>1. op.mnemonic = "constant" => Apply(op, in) = Splat(op.type.dims, op.data)
  BY DEF Apply, Binary
<1>2. op.mnemonic = "transpose" =>
              Apply(op, in) = Transposed(in[1], op.attrs.permutation)
  BY DEF Apply, Binary
<1>3. op.mnemonic = "broadcast_in_dim" => Apply(op, in) = in[1]
  BY DEF Apply, Binary
<1>4. op.mnemonic = "get_dimension_size" =>
              Apply(op, in) = Splat(0, Extent(in[1].dims))
  BY DEF Apply, Binary
<1>5. op.mnemonic = "convolution" =>
              Apply(op, in) = IF in[1].dims = InputDims(op) THEN Convolved(op, in[1], in[2])
                              ELSE Undefined
  BY DEF Apply, Binary, InputDims
<1>6. QED
  BY <1>1, <1>2, <1>3, <1>4, <1>5

\* Apply computes what the tensors know of an operator.
Alike(p, q) ==
  /\ p.mnemonic = q.mnemonic
  /\ p.attrs.permutation = q.attrs.permutation
  /\ p.attrs.layout = q.attrs.layout
  /\ p.attrs.input_layout = q.attrs.input_layout
  /\ p.mnemonic = "constant" => p.data = q.data
  /\ p.mnemonic \in {"constant", "reshape"} => p.type.dims = q.type.dims

Workable(op) ==
  /\ Formed(op)
  /\ op.mnemonic \in Computed
  /\ op.data \in Int

\* The operators, by what they take.
LEMMA ComputedFacts ==
  ASSUME NEW mn \in Computed
  PROVE  /\ mn \in Binary => mn \in {"add", "multiply", "subtract"}
         /\ Arity(mn) \in 0 .. 2
         /\ mn \in {"add", "multiply", "subtract", "convolution"} => Arity(mn) = 2
         /\ mn \in {"negate", "transpose", "reshape", "broadcast_in_dim", "get_dimension_size"}
              => Arity(mn) = 1
         /\ mn = "constant" => Arity(mn) = 0
         /\ mn \in Elementwise => mn \in {"add", "multiply", "subtract", "negate"}
         /\ mn # "arg"
BY DEF Computed, Binary, Arity, Elementwise

\* Operators that look alike to Apply compute the same from the same tensors.
LEMMA AlikeApply ==
  ASSUME NEW p, NEW q, Alike(p, q), NEW in, p.mnemonic \in Computed,
         \A k \in 1 .. Arity(p.mnemonic) : in[k] \in Tensors
  PROVE  Apply(p, in) = Apply(q, in)
<1>1. /\ p.mnemonic = q.mnemonic
      /\ p.attrs.permutation = q.attrs.permutation
      /\ p.attrs.layout = q.attrs.layout
      /\ p.attrs.input_layout = q.attrs.input_layout
      /\ p.mnemonic = "constant" => p.data = q.data
      /\ p.mnemonic \in {"constant", "reshape"} => p.type.dims = q.type.dims
  BY DEF Alike
<1>2. CASE p.mnemonic \in {"add", "multiply", "subtract"}
  <2>1. in[1] \in Tensors /\ in[2] \in Tensors
    BY <1>2, ComputedFacts
  <2>2. QED
    BY <1>1, <1>2, <2>1, ApplyBinary
<1>3. CASE p.mnemonic = "negate"
  <2>1. in[1] \in Tensors
    BY <1>3, ComputedFacts
  <2>2. QED
    BY <1>1, <1>3, <2>1, ApplyNegate
<1>4. CASE p.mnemonic = "reshape"
  <2>1. in[1] \in Tensors
    BY <1>4, ComputedFacts
  <2>2. QED
    BY <1>1, <1>4, <2>1, ApplyReshape
<1>5. CASE p.mnemonic = "convolution"
  <2>1. Filtered(p, in[1], in[2]) = Filtered(q, in[1], in[2])
    BY Zenon, <1>1 DEF Filtered
  <2>2. OutputRotation(p) = OutputRotation(q) /\ InputDims(p) = InputDims(q)
    BY <1>1 DEF OutputRotation, InputDims
  <2>3. Convolved(p, in[1], in[2]) = Convolved(q, in[1], in[2])
    BY <2>1, <2>2, ConvolvedIs
  <2>4. QED
    BY <1>1, <1>5, <2>2, <2>3, ApplyOthers
<1>6. CASE p.mnemonic \in {"constant", "transpose", "broadcast_in_dim", "get_dimension_size"}
  BY <1>1, <1>6, ApplyOthers
<1>7. QED
  BY <1>2, <1>3, <1>4, <1>5, <1>6 DEF Computed

\* Operators make tensors of tensors, or something without a shape.
LEMMA ApplyIsOutcome ==
  ASSUME NEW op, Workable(op), NEW in,
         \A k \in 1 .. Arity(op.mnemonic) : in[k] \in Tensors
  PROVE  Apply(op, in) \in Outcomes
<1>1. /\ op.mnemonic \in Computed /\ op.data \in Int
      /\ op.type.dims \in {Dynamic} \cup Rotations
      /\ op.attrs.permutation \in Rotations
  <2>1. op.type \in Types /\ WellAttributed(op.attrs)
    BY DEF Workable, Formed
  <2>2. QED
    BY <2>1 DEF Workable, Types, WellAttributed
<1>2. CASE op.mnemonic \in {"add", "multiply", "subtract"}
  <2>1. in[1] \in Tensors /\ in[2] \in Tensors
    BY <1>1, <1>2, ComputedFacts
  <2>2. Entrywise(op.mnemonic, in[1].at, in[2].at) \in Entries
    BY <1>2, <2>1, TensorFacts, EntrywiseOfEntries
  <2>3. [dims |-> in[1].dims, at |-> Entrywise(op.mnemonic, in[1].at, in[2].at)] \in Tensors
    BY <2>1, <2>2, TensorFacts
  <2>4. QED
    BY <1>2, <2>1, <2>3, ApplyBinary, TensorFacts, UndefinedFacts
<1>3. CASE op.mnemonic = "negate"
  <2>1. in[1] \in Tensors
    BY <1>1, <1>3, ComputedFacts
  <2>2. Integral(<<0, 0, 0>>) /\ Integral(in[1].at)
    BY <2>1, TensorFacts, EntriesAreIntegral DEF Integral
  <2> DEFINE e == Entrywise("subtract", <<0, 0, 0>>, in[1].at)
  <2>3. e \in Entries
    <3> DEFINE z == <<0, 0, 0>>
    <3>1. Integral(z)
      BY <2>2
    <3> HIDE DEF z
    <3>2. Entrywise("subtract", z, in[1].at) \in Entries
      BY <2>2, <3>1, EntrywiseFacts
    <3>3. QED
      BY <3>2 DEF z
  <2> HIDE DEF e
  <2>4. [dims |-> in[1].dims, at |-> e] \in Tensors
    BY <2>1, <2>3, TensorFacts
  <2>5. QED
    BY <1>3, <2>1, <2>4, ApplyNegate, TensorFacts DEF e
<1>4. CASE op.mnemonic = "reshape"
  <2>1. in[1] \in Tensors
    BY <1>1, <1>4, ComputedFacts
  <2>2. in[1].at \in Entries
    BY <2>1, TensorFacts
  <2> HIDE DEF Entries
  <2>3. [dims |-> op.type.dims, at |-> in[1].at] \in Outcomes
    BY <1>1, <2>2 DEF Outcomes
  <2>4. QED
    BY <1>4, <2>1, <2>3, ApplyReshape
<1>5. CASE op.mnemonic = "convolution"
  <2>1. in[1] \in Tensors /\ in[2] \in Tensors
    BY <1>1, <1>5, ComputedFacts
  <2>2. Convolved(op, in[1], in[2]) \in Tensors
    BY <1>1, <2>1, FilteredFacts
  <2>3. QED
    BY <1>5, <2>2, ApplyOthers, TensorFacts, UndefinedFacts
<1>6. CASE op.mnemonic = "constant"
  <2> DEFINE d == op.type.dims
             e == Splat(d, op.data).at
  <2>1. e \in Entries /\ Splat(d, op.data) = [dims |-> d, at |-> e]
    BY <1>1, SplatFacts
  <2> HIDE DEF e, Entries
  <2>2. Splat(d, op.data) \in Outcomes
    BY <1>1, <2>1 DEF Outcomes
  <2>3. QED
    BY <1>6, <2>2, ApplyOthers
<1>7. CASE op.mnemonic = "transpose"
  <2>1. in[1] \in Tensors
    BY <1>1, <1>7, ComputedFacts
  <2>2. Transposed(in[1], op.attrs.permutation) \in Tensors
    BY <1>1, <2>1, TransposedFacts
  <2>3. QED
    BY <1>7, <2>2, ApplyOthers, TensorFacts
<1>8. CASE op.mnemonic = "broadcast_in_dim"
  <2>1. in[1] \in Tensors
    BY <1>1, <1>8, ComputedFacts
  <2>2. QED
    BY <1>8, <2>1, ApplyOthers, TensorFacts
<1>9. CASE op.mnemonic = "get_dimension_size"
  <2>1. in[1] \in Tensors
    BY <1>1, <1>9, ComputedFacts
  <2>2. in[1].dims \in Rotations
    BY <2>1, TensorFacts
  <2> DEFINE n == Extent(in[1].dims)
  <2>3. n \in Int /\ 0 \in Rotations
    BY <2>2 DEF Extent, Rotations
  <2> HIDE DEF n
  <2>4. Splat(0, n) \in Tensors
    BY <2>3, SplatFacts
  <2>5. QED
    BY <1>9, <2>4, ApplyOthers, TensorFacts DEF n
<1>10. QED
  BY <1>1, <1>2, <1>3, <1>4, <1>5, <1>6, <1>7, <1>8, <1>9 DEF Computed

\* The shape of what an operator makes depends on the shapes it takes only.
LEMMA ApplyDims ==
  ASSUME NEW op, Workable(op), NEW in, NEW jn,
         \A k \in 1 .. Arity(op.mnemonic) :
           in[k] \in Tensors /\ jn[k] \in Tensors /\ in[k].dims = jn[k].dims
  PROVE  Apply(op, in).dims = Apply(op, jn).dims
<1>1. /\ op.mnemonic \in Computed /\ op.data \in Int
      /\ op.type.dims \in {Dynamic} \cup Rotations
      /\ op.attrs.permutation \in Rotations
  <2>1. op.type \in Types /\ WellAttributed(op.attrs)
    BY DEF Workable, Formed
  <2>2. QED
    BY <2>1 DEF Workable, Types, WellAttributed
<1>2. CASE op.mnemonic \in {"add", "multiply", "subtract"}
  <2>1. /\ in[1] \in Tensors /\ in[2] \in Tensors /\ jn[1] \in Tensors /\ jn[2] \in Tensors
        /\ in[1].dims = jn[1].dims /\ in[2].dims = jn[2].dims
    BY <1>1, <1>2, ComputedFacts
  <2>2. QED
    BY <1>2, <2>1, ApplyBinary
<1>3. CASE op.mnemonic \in {"negate", "reshape", "transpose", "broadcast_in_dim",
                            "get_dimension_size"}
  <2>1. in[1] \in Tensors /\ jn[1] \in Tensors /\ in[1].dims = jn[1].dims
    BY <1>1, <1>3, ComputedFacts
  <2>2. op.mnemonic = "transpose" =>
          /\ Transposed(in[1], op.attrs.permutation).dims
               = (in[1].dims + op.attrs.permutation) % 3
          /\ Transposed(jn[1], op.attrs.permutation).dims
               = (jn[1].dims + op.attrs.permutation) % 3
    BY DEF Transposed
  <2>3. QED
    BY <1>3, <2>1, <2>2, ApplyNegate, ApplyReshape, ApplyOthers
<1>4. CASE op.mnemonic = "convolution"
  <2>1. /\ in[1] \in Tensors /\ in[2] \in Tensors /\ jn[1] \in Tensors /\ jn[2] \in Tensors
        /\ in[1].dims = jn[1].dims
    BY <1>1, <1>4, ComputedFacts
  <2>2. /\ Convolved(op, in[1], in[2]).dims = OutputRotation(op)
        /\ Convolved(op, jn[1], jn[2]).dims = OutputRotation(op)
    BY <2>1, FilteredFacts
  <2>3. QED
    BY <1>4, <2>1, <2>2, ApplyOthers
<1>5. CASE op.mnemonic = "constant"
  BY <1>5, ApplyOthers
<1>6. QED
  BY <1>1, <1>2, <1>3, <1>4, <1>5 DEF Computed

(***************************************************************************)
(* What a graph computes.                                                  *)
(***************************************************************************)
\* A round evaluates the operators in the order of the list.
LEMMA RoundRuns ==
  ASSUME NEW g, DOMAIN g.ops = 1 .. Len(g.ops), Len(g.ops) \in Nat,
         NEW T, NEW u \in T, \A t \in T : \A o \in Live(g) : Evaluated(g, t, o) \in T
  PROVE  \E f \in [0 .. Len(g.ops) -> T] :
            /\ f[0] = u
            /\ \A n \in 1 .. Len(g.ops) : f[n] = Evaluated(g, f[n - 1], g.ops[n])
            /\ Round(g, u) = f[Len(g.ops)]
<1> DEFINE N == Len(g.ops)
           step == [p \in (1 .. N) \X T |-> Evaluated(g, p[2], g.ops[p[1]])]
           Unfolds(f) == f = [k \in 0 .. Len(g.ops) |->
                               IF k = 0 THEN u ELSE Evaluated(g, f[k - 1], g.ops[k])]
           F == CHOOSE f : Unfolds(f)
<1>1. N \in Nat /\ \A n \in 1 .. N : g.ops[n] \in Live(g)
  BY DEF Live, ToSet
<1>2. \A n \in 1 .. N : \A t \in T : Evaluated(g, t, g.ops[n]) \in T
  BY <1>1
<1>3. Round(g, u) = F[N]
  BY Zenon DEF Round
<1> HIDE DEF N
<1>4. /\ \A n \in 1 .. N : \A t \in T : step[<<n, t>>] = Evaluated(g, t, g.ops[n])
      /\ \A n \in 1 .. N : \A t \in T : step[<<n, t>>] \in T
  BY <1>2
<1>5. PICK f \in [0 .. N -> T] :
        /\ f[0] = u
        /\ \A n \in 1 .. N : f[n] = step[<<n, f[n - 1]>>]
  <2> HIDE DEF step
  <2>1. PICK f : Iterates(f, N, T, u, step)
    BY <1>1, <1>4, RecursiveFunction
  <2>2. QED
    BY <2>1 DEF Iterates
<1>6. \A n \in 1 .. N : f[n] = Evaluated(g, f[n - 1], g.ops[n])
  <2>1. ASSUME NEW n \in 1 .. N PROVE f[n] = Evaluated(g, f[n - 1], g.ops[n])
    <3>1. n - 1 \in 0 .. N
      BY <1>1
    <3>2. f[n - 1] \in T
      BY <3>1
    <3> HIDE DEF step
    <3>3. QED
      BY <1>4, <1>5, <3>2
  <2>2. QED
    BY <2>1
<1> HIDE DEF step
<1>7. f = [n \in 0 .. N |-> IF n = 0 THEN u ELSE Evaluated(g, f[n - 1], g.ops[n])]
  <2>1. ASSUME NEW n \in 0 .. N
        PROVE  f[n] = IF n = 0 THEN u ELSE Evaluated(g, f[n - 1], g.ops[n])
    BY <1>1, <1>5, <1>6
  <2>2. QED
    BY <2>1
<1>8. Unfolds(f)
  BY Zenon, <1>7 DEF N
<1>9. Unfolds(F)
  <2> HIDE DEF Unfolds
  <2>1. QED
    BY <1>8
<1>10. F = [n \in 0 .. N |-> IF n = 0 THEN u ELSE Evaluated(g, F[n - 1], g.ops[n])]
  <2> HIDE DEF F
  <2>1. QED
    BY Zenon, <1>9 DEF N
<1> HIDE DEF F, Unfolds
<1>11. F[0] = u /\ \A n \in 1 .. N : F[n] = Evaluated(g, F[n - 1], g.ops[n])
  BY <1>1, <1>10
<1> DEFINE P == {n \in 0 .. N : F[n] \in T}
<1>12. 0 \in P
  BY <1>1, <1>11
<1>13. ASSUME NEW n \in Nat, n < N, n \in P PROVE n + 1 \in P
  <2>1. n + 1 \in 1 .. N /\ n + 1 \in 0 .. N /\ n + 1 - 1 = n
    BY <1>1, <1>13
  <2>2. QED
    BY <1>2, <1>11, <1>13, <2>1
<1>14. 0 .. N \subseteq P
  <2> HIDE DEF P
  <2>1. QED
    BY <1>1, <1>12, <1>13, UpTo
<1>15. F \in [0 .. N -> T]
  BY <1>10, <1>14
<1>16. QED
  BY <1>3, <1>11, <1>15 DEF N

\* The meaning is found by rounds.
LEMMA MeaningRuns ==
  ASSUME NEW g, DOMAIN g.ops = 1 .. Len(g.ops), Len(g.ops) \in Nat,
         NEW T, Given(g) \in T, \A t \in T : Round(g, t) \in T
  PROVE  \E f \in [0 .. Len(g.ops) -> T] :
            /\ f[0] = Given(g)
            /\ \A n \in 1 .. Len(g.ops) : f[n] = Round(g, f[n - 1])
            /\ Meaning(g) = f[Len(g.ops)]
<1> DEFINE N == Len(g.ops)
           u == Given(g)
           step == [p \in (1 .. N) \X T |-> Round(g, p[2])]
           Unfolds(f) == f = [k \in 0 .. Len(g.ops) |->
                               IF k = 0 THEN Given(g) ELSE Round(g, f[k - 1])]
           F == CHOOSE f : Unfolds(f)
<1>1. N \in Nat /\ u \in T
  OBVIOUS
<1>3. Meaning(g) = F[N]
  BY Zenon DEF Meaning
<1> HIDE DEF N, u
<1>4. /\ \A n \in 1 .. N : \A t \in T : step[<<n, t>>] = Round(g, t)
      /\ \A n \in 1 .. N : \A t \in T : step[<<n, t>>] \in T
  OBVIOUS
<1>5. PICK f \in [0 .. N -> T] :
        /\ f[0] = u
        /\ \A n \in 1 .. N : f[n] = step[<<n, f[n - 1]>>]
  <2> HIDE DEF step
  <2>1. PICK f : Iterates(f, N, T, u, step)
    BY <1>1, <1>4, RecursiveFunction
  <2>2. QED
    BY <2>1 DEF Iterates
<1>6. \A n \in 1 .. N : f[n] = Round(g, f[n - 1])
  <2>1. ASSUME NEW n \in 1 .. N PROVE f[n] = Round(g, f[n - 1])
    <3>1. n - 1 \in 0 .. N
      BY <1>1
    <3>2. f[n - 1] \in T
      BY <3>1
    <3> HIDE DEF step
    <3>3. QED
      BY <1>4, <1>5, <3>2
  <2>2. QED
    BY <2>1
<1> HIDE DEF step
<1>7. f = [n \in 0 .. N |-> IF n = 0 THEN u ELSE Round(g, f[n - 1])]
  <2>1. ASSUME NEW n \in 0 .. N
        PROVE  f[n] = IF n = 0 THEN u ELSE Round(g, f[n - 1])
    BY <1>1, <1>5, <1>6
  <2>2. QED
    BY <2>1
<1>8. Unfolds(f)
  BY Zenon, <1>7 DEF N, u
<1>9. Unfolds(F)
  <2> HIDE DEF Unfolds
  <2>1. QED
    BY <1>8
<1>10. F = [n \in 0 .. N |-> IF n = 0 THEN u ELSE Round(g, F[n - 1])]
  <2> HIDE DEF F
  <2>1. QED
    BY Zenon, <1>9 DEF N, u
<1> HIDE DEF F, Unfolds
<1>11. F[0] = u /\ \A n \in 1 .. N : F[n] = Round(g, F[n - 1])
  BY <1>1, <1>10
<1> DEFINE P == {n \in 0 .. N : F[n] \in T}
<1>12. 0 \in P
  BY <1>1, <1>11
<1>13. ASSUME NEW n \in Nat, n < N, n \in P PROVE n + 1 \in P
  <2>1. n + 1 \in 1 .. N /\ n + 1 \in 0 .. N /\ n + 1 - 1 = n
    BY <1>1, <1>13
  <2>2. QED
    BY <1>11, <1>13, <2>1
<1>14. 0 .. N \subseteq P
  <2> HIDE DEF P
  <2>1. QED
    BY <1>1, <1>12, <1>13, UpTo
<1>15. F \in [0 .. N -> T]
  BY <1>10, <1>14
<1>16. QED
  BY <1>3, <1>11, <1>15 DEF N, u

\* What one evaluation does.
LEMMA EvaluatedIs ==
  ASSUME NEW g, NEW t, NEW o
  PROVE  Evaluated(g, t, o)
           = IF IsDefined(t[o]) \/ \E k \in DOMAIN In(g, t, o) : ~IsDefined(In(g, t, o)[k])
             THEN t ELSE [t EXCEPT ![o] = Apply(g.value[o], In(g, t, o))]
BY Zenon DEF Evaluated, In

\* In with domains.
LEMMA InFacts ==
  ASSUME NEW g, Sound(g), NEW t, NEW o \in Live(g)
  PROVE  /\ DOMAIN In(g, t, o) = 1 .. Arity(g.value[o].mnemonic)
         /\ \A k \in 1 .. Arity(g.value[o].mnemonic) :
              In(g, t, o)[k] = t[g.value[o].operands[k]]
BY OperandFacts DEF In

\* Arguments of a declared shape have a tensor.
LEMMA ArgTensorFacts ==
  ASSUME NEW k \in Nat, NEW d \in Rotations
  PROVE  ArgTensor(k, d) \in Tensors /\ ArgTensor(k, d).dims = d
<1> DEFINE a == (7 * k) % Modulus
           b == (7 * k + 2) % Modulus
           c == (7 * k + 5) % Modulus
           e == <<a, b, c>>
<1>1. a \in Residues /\ b \in Residues /\ c \in Residues
  BY ResidueFacts, 7 * k \in Int, 7 * k + 2 \in Int, 7 * k + 5 \in Int
<1>2. ArgTensor(k, d) = [dims |-> d, at |-> e]
  BY DEF ArgTensor
<1> HIDE DEF a, b, c
<1>3. e \in Entries
  BY <1>1, EntryFacts
<1> HIDE DEF e
<1>4. QED
  BY <1>2, <1>3, TensorFacts

\* The tensors t solve the equations that the operators state.
Fits(g, t) ==
  /\ t \in [DOMAIN g.value -> Outcomes]
  /\ \A v \in Sources(g) : t[v] \in Tensors
  /\ \A v \in DOMAIN g.value : v \notin Sources(g) => t[v] = Undefined
  /\ \A v \in Arguments(g) : t[v] = ArgTensor(v, g.value[v].type.dims)
  /\ \A o \in Live(g) : t[o] = Apply(g.value[o], In(g, t, o))

\* The shapes of the tensors t do.
ShapesFit(g, t) ==
  /\ t \in [DOMAIN g.value -> Outcomes]
  /\ \A v \in Sources(g) : t[v] \in Tensors
  /\ \A v \in DOMAIN g.value : v \notin Sources(g) => t[v] = Undefined
  /\ \A v \in Arguments(g) : t[v] = ArgTensor(v, g.value[v].type.dims)
  /\ \A o \in Live(g) : t[o].dims = Apply(g.value[o], In(g, t, o)).dims

\* They do but for the equation of c, of which they have the shape.
FitsBut(g, t, c) ==
  /\ t \in [DOMAIN g.value -> Outcomes]
  /\ \A v \in Sources(g) : t[v] \in Tensors
  /\ \A v \in DOMAIN g.value : v \notin Sources(g) => t[v] = Undefined
  /\ \A v \in Arguments(g) : t[v] = ArgTensor(v, g.value[v].type.dims)
  /\ SolvesBut(g, t, c)
  /\ c \in Live(g) => t[c].dims = Apply(g.value[c], In(g, t, c)).dims

\* They do as far as they are defined.
Partial(g, t) ==
  /\ t \in [DOMAIN g.value -> Outcomes]
  /\ \A v \in DOMAIN g.value : v \notin Sources(g) => t[v] = Undefined
  /\ \A v \in Arguments(g) : t[v] = ArgTensor(v, g.value[v].type.dims) /\ t[v] \in Tensors
  /\ \A o \in Live(g) : t[o] \in Tensors =>
       /\ \A v \in Operands(g, o) : t[v] \in Tensors
       /\ t[o] = Apply(g.value[o], In(g, t, o))

\* All operators are such as Apply computes.
AllWorkable(g) == \A o \in Live(g) : Workable(g.value[o])

\* An evaluation adds a solution.
LEMMA EvaluatedPartial ==
  ASSUME NEW g, Sound(g), AllWorkable(g), NEW t, Partial(g, t), NEW o \in Live(g)
  PROVE  Partial(g, Evaluated(g, t, o))
<1> DEFINE in == In(g, t, o)
           x == Apply(g.value[o], in)
           u == [t EXCEPT ![o] = x]
           N == Arity(g.value[o].mnemonic)
<1>1. /\ t \in [DOMAIN g.value -> Outcomes]
      /\ \A v \in DOMAIN g.value : v \notin Sources(g) => t[v] = Undefined
      /\ \A v \in Arguments(g) : t[v] = ArgTensor(v, g.value[v].type.dims) /\ t[v] \in Tensors
      /\ \A p \in Live(g) : t[p] \in Tensors =>
           /\ \A v \in Operands(g, p) : t[v] \in Tensors
           /\ t[p] = Apply(g.value[p], In(g, t, p))
  BY DEF Partial
<1>2. /\ \A p \in Live(g) : Operands(g, p) \subseteq DOMAIN g.value /\ p \in DOMAIN g.value
      /\ Live(g) \cap Arguments(g) = {}
      /\ o \in Sources(g)
  BY SoundDomains DEF Sound, ReadsSources, Listed, Sources
<1>3. /\ DOMAIN in = 1 .. N
      /\ \A k \in 1 .. N : in[k] = t[g.value[o].operands[k]]
  BY InFacts
<1>4. \A v \in Operands(g, o) : \E k \in 1 .. N : v = g.value[o].operands[k]
  BY OperandFacts DEF Operands, ToSet
<1>5. \A k \in 1 .. N : g.value[o].operands[k] \in Operands(g, o)
  BY OperandFacts
<1> HIDE DEF in, N
<1>6. CASE t[o] \in Tensors \/ \E k \in 1 .. N : in[k] \notin Tensors
  <2>1. \A k \in 1 .. N : in[k] \in Outcomes
    BY <1>1, <1>2, <1>3, <1>5
  <2>2. t[o] \in Outcomes
    BY <1>1, <1>2
  <2>3. IsDefined(t[o]) \/ \E k \in DOMAIN in : ~IsDefined(in[k])
    BY <1>3, <1>6, <2>1, <2>2, TensorFacts
  <2>4. Evaluated(g, t, o) = t
    BY <2>3, EvaluatedIs DEF in
  <2>5. QED
    BY <2>4
<1>7. CASE t[o] \notin Tensors /\ \A k \in 1 .. N : in[k] \in Tensors
  <2>1. t[o] \in Outcomes
    BY <1>1, <1>2
  <2>2. ~(IsDefined(t[o]) \/ \E k \in DOMAIN in : ~IsDefined(in[k]))
    BY <1>3, <1>7, <2>1, TensorFacts
  <2>3. Evaluated(g, t, o) = u
    BY <2>2, EvaluatedIs DEF in
  <2>4. x \in Outcomes
    BY <1>7, ApplyIsOutcome DEF AllWorkable, N
  <2> HIDE DEF x
  <2>5. /\ u \in [DOMAIN g.value -> Outcomes]
        /\ u[o] = x
        /\ \A v \in DOMAIN g.value : v # o => u[v] = t[v]
    BY <1>1, <1>2, <2>4
  <2> HIDE DEF u
  <2>6. \A v \in Operands(g, o) : t[v] \in Tensors
    BY <1>3, <1>4, <1>7
  <2>7. ASSUME NEW p \in Live(g), o \notin Operands(g, p)
        PROVE  In(g, u, p) = In(g, t, p)
    <3>1. \A k \in DOMAIN g.value[p].operands : g.value[p].operands[k] \in Operands(g, p)
      BY DEF Operands, ToSet
    <3>2. \A k \in DOMAIN g.value[p].operands :
            u[g.value[p].operands[k]] = t[g.value[p].operands[k]]
      BY <1>2, <2>5, <2>7, <3>1
    <3>3. QED
      BY <3>2 DEF In
  <2>8. ASSUME NEW p \in Live(g), u[p] \in Tensors
        PROVE  /\ \A v \in Operands(g, p) : u[v] \in Tensors
               /\ u[p] = Apply(g.value[p], In(g, u, p))
    <3>1. CASE p = o
      <4>1. o \notin Operands(g, o)
        BY <1>7, <2>6
      <4>2. In(g, u, o) = in
        BY <2>7, <4>1 DEF in
      <4>3. QED
        BY <1>2, <2>5, <2>6, <3>1, <4>1, <4>2 DEF x
    <3>2. CASE p # o
      <4>1. t[p] \in Tensors /\ u[p] = t[p]
        BY <1>2, <2>5, <2>8, <3>2
      <4>2. /\ \A v \in Operands(g, p) : t[v] \in Tensors
            /\ t[p] = Apply(g.value[p], In(g, t, p))
        BY <1>1, <4>1
      <4>3. o \notin Operands(g, p)
        BY <1>7, <4>2
      <4>4. In(g, u, p) = In(g, t, p)
        BY <2>7, <4>3
      <4>5. QED
        BY <1>2, <2>5, <4>1, <4>2, <4>3, <4>4
    <3>3. QED
      BY <3>1, <3>2
  <2>9. \A v \in Arguments(g) : u[v] = t[v]
    BY <1>2, <2>5 DEF Arguments
  <2>10. \A v \in DOMAIN g.value : v \notin Sources(g) => u[v] = Undefined
    BY <1>1, <1>2, <2>5
  <2>11. Partial(g, u)
    BY <1>1, <2>5, <2>8, <2>9, <2>10 DEF Partial
  <2>12. QED
    BY <2>3, <2>11
<1>8. QED
  BY <1>6, <1>7

\* The meaning is a solution as far as it is defined ...
LEMMA MeaningPartial ==
  ASSUME NEW g, Sound(g), AllWorkable(g),
         \A v \in Arguments(g) : g.value[v].type.dims \in Rotations
  PROVE  Partial(g, Meaning(g))
<1> DEFINE T == {t \in [DOMAIN g.value -> Outcomes] : Partial(g, t)}
           u == Given(g)
<1>1. /\ DOMAIN g.ops = 1 .. Len(g.ops) /\ Len(g.ops) \in Nat
      /\ Arguments(g) \subseteq DOMAIN g.value
      /\ Live(g) \cap Arguments(g) = {}
      /\ Live(g) \subseteq DOMAIN g.value
      /\ \A v \in Arguments(g) : v \in Nat
  BY SoundDomains DEF Arguments, Sources, Sound, Listed
<1>2. /\ DOMAIN u = DOMAIN g.value
      /\ \A v \in DOMAIN g.value : v \notin Arguments(g) => u[v] = Undefined
      /\ \A v \in Arguments(g) : u[v] = ArgTensor(v, g.value[v].type.dims)
      /\ u = [v \in DOMAIN g.value |-> u[v]]
  BY DEF Given, Arguments
<1>3. \A v \in Arguments(g) : u[v] \in Tensors
  BY <1>1, <1>2, ArgTensorFacts
<1> HIDE DEF u
<1>4. u \in [DOMAIN g.value -> Outcomes]
  BY <1>2, <1>3, UndefinedFacts, TensorFacts
<1>5. \A o \in Live(g) : u[o] \notin Tensors
  BY <1>1, <1>2, UndefinedFacts
<1>6. u \in T
  <2>1. Partial(g, u)
    BY <1>1, <1>2, <1>3, <1>4, <1>5 DEF Partial, Sources
  <2>2. QED
    BY <1>4, <2>1
<1>7. \A t \in T : \A o \in Live(g) : Evaluated(g, t, o) \in T
  <2>1. ASSUME NEW t \in T, NEW o \in Live(g) PROVE Evaluated(g, t, o) \in T
    <3>1. Partial(g, Evaluated(g, t, o))
      BY EvaluatedPartial
    <3>2. Evaluated(g, t, o) \in [DOMAIN g.value -> Outcomes]
      BY <3>1 DEF Partial
    <3>3. QED
      BY <3>1, <3>2
  <2>2. QED
    BY <2>1
<1> HIDE DEF T
<1>8. \A t \in T : Round(g, t) \in T
  <2>1. ASSUME NEW t \in T PROVE Round(g, t) \in T
    <3>1. PICK f \in [0 .. Len(g.ops) -> T] :
            /\ f[0] = t
            /\ \A n \in 1 .. Len(g.ops) : f[n] = Evaluated(g, f[n - 1], g.ops[n])
            /\ Round(g, t) = f[Len(g.ops)]
      BY <1>1, <1>7, RoundRuns
    <3>2. Len(g.ops) \in 0 .. Len(g.ops)
      BY <1>1
    <3>3. QED
      BY <3>1, <3>2
  <2>2. QED
    BY <2>1
<1>9. PICK f \in [0 .. Len(g.ops) -> T] :
        /\ f[0] = Given(g)
        /\ \A n \in 1 .. Len(g.ops) : f[n] = Round(g, f[n - 1])
        /\ Meaning(g) = f[Len(g.ops)]
  <2>1. Given(g) \in T
    BY <1>6 DEF u
  <2>2. QED
    BY <1>1, <1>8, <2>1, MeaningRuns
<1>10. Meaning(g) \in T
  <2>1. Len(g.ops) \in 0 .. Len(g.ops)
    BY <1>1
  <2>2. QED
    BY <1>9, <2>1
<1>11. QED
  BY <1>10 DEF T

\* ... and a whole one if it is everywhere.
LEMMA MeaningSolves ==
  ASSUME NEW g, Sound(g), AllWorkable(g),
         \A v \in Arguments(g) : g.value[v].type.dims \in Rotations,
         \A o \in Live(g) : IsDefined(Meaning(g)[o])
  PROVE  Fits(g, Meaning(g))
<1> DEFINE t == Meaning(g)
<1>1. Partial(g, t)
  BY MeaningPartial
<1> HIDE DEF t
<1>2. /\ t \in [DOMAIN g.value -> Outcomes]
      /\ \A v \in DOMAIN g.value : v \notin Sources(g) => t[v] = Undefined
      /\ \A v \in Arguments(g) : t[v] = ArgTensor(v, g.value[v].type.dims) /\ t[v] \in Tensors
      /\ \A p \in Live(g) : t[p] \in Tensors => t[p] = Apply(g.value[p], In(g, t, p))
  BY <1>1 DEF Partial
<1>3. \A o \in Live(g) : t[o] \in Tensors
  <2>1. \A o \in Live(g) : o \in DOMAIN g.value
    BY DEF Sound, Listed
  <2>2. \A o \in Live(g) : IsDefined(t[o])
    BY DEF t
  <2>3. QED
    BY <1>2, <2>1, <2>2, TensorFacts
<1>4. Fits(g, t)
  BY <1>2, <1>3 DEF Fits, Sources
<1>5. QED
  BY <1>4 DEF t

\* u has tensors of the shapes of t already.
Approximates(g, t, u) ==
  /\ u \in [DOMAIN g.value -> Outcomes]
  /\ \A v \in DOMAIN g.value : u[v].dims = t[v].dims \/ (v \in Live(g) /\ u[v] = Undefined)

\* w has them, too, and one for each operator of S for whose operands u has them.
Advances(g, t, u, w, S) ==
  /\ Approximates(g, t, w)
  /\ \A v \in DOMAIN g.value : u[v].dims = t[v].dims => w[v].dims = t[v].dims
  /\ \A o \in S : (\A v \in Operands(g, o) : u[v].dims = t[v].dims) => w[o].dims = t[o].dims

\* An evaluation keeps what is known and finds the operator's tensor.
LEMMA EvaluatedAdvances ==
  ASSUME NEW g, Sound(g), AllWorkable(g), NEW t, ShapesFit(g, t),
         NEW u, Approximates(g, t, u), NEW o \in Live(g)
  PROVE  Advances(g, t, u, Evaluated(g, u, o), {o})
<1> DEFINE in == In(g, u, o)
           x == Apply(g.value[o], in)
           w == [u EXCEPT ![o] = x]
           N == Arity(g.value[o].mnemonic)
           E == Evaluated(g, u, o)
<1>1. /\ u \in [DOMAIN g.value -> Outcomes]
      /\ \A v \in DOMAIN g.value : u[v].dims = t[v].dims \/ (v \in Live(g) /\ u[v] = Undefined)
  BY DEF Approximates
<1>2. /\ \A v \in Sources(g) : t[v] \in Tensors
      /\ t[o].dims = Apply(g.value[o], In(g, t, o)).dims
      /\ t \in [DOMAIN g.value -> Outcomes]
  BY DEF ShapesFit
<1>3. /\ Operands(g, o) \subseteq DOMAIN g.value /\ o \in DOMAIN g.value
      /\ Operands(g, o) \subseteq Sources(g)
      /\ o \in Sources(g)
      /\ \A k \in 1 .. N : g.value[o].operands[k] \in Operands(g, o)
      /\ \A v \in Operands(g, o) : \E k \in 1 .. N : v = g.value[o].operands[k]
  <2>1. Operands(g, o) \subseteq Sources(g) /\ Sources(g) \subseteq DOMAIN g.value /\ o \in Sources(g)
    BY SoundDomains DEF Sound, ReadsSources, Sources
  <2>2. /\ \A k \in 1 .. N : g.value[o].operands[k] \in Operands(g, o)
        /\ \A v \in Operands(g, o) : \E k \in 1 .. N : v = g.value[o].operands[k]
    BY OperandFacts DEF Operands, ToSet
  <2>3. QED
    BY <2>1, <2>2
<1>4. /\ DOMAIN in = 1 .. N
      /\ \A k \in 1 .. N : in[k] = u[g.value[o].operands[k]]
  BY InFacts
<1>5. \A v \in Sources(g) : v \in DOMAIN g.value => (IsDefined(u[v]) => u[v].dims = t[v].dims)
                                                    /\ (u[v].dims = t[v].dims => IsDefined(u[v]))
  BY <1>1, <1>2, UndefinedFacts, TensorFacts
<1> HIDE DEF in, N
<1>6. CASE IsDefined(u[o]) \/ \E k \in DOMAIN in : ~IsDefined(in[k])
  <2>1. E = u
    BY <1>6, EvaluatedIs DEF in
  <2>2. CASE IsDefined(u[o])
    <3>1. u[o].dims = t[o].dims
      BY <1>3, <1>5, <2>2
    <3>2. QED
      BY <2>1, <3>1 DEF Advances
  <2>3. CASE ~IsDefined(u[o])
    <3>1. PICK k \in 1 .. N : ~IsDefined(in[k])
      BY <1>4, <1>6, <2>3
    <3> DEFINE v == g.value[o].operands[k]
    <3>2. v \in Operands(g, o) /\ ~IsDefined(u[v])
      BY <1>3, <1>4, <3>1
    <3> HIDE DEF v
    <3>3. u[v].dims # t[v].dims
      BY <1>3, <1>5, <3>2
    <3>4. QED
      BY <2>1, <3>2, <3>3 DEF Advances
  <2>4. QED
    BY <2>2, <2>3
<1>7. CASE ~(IsDefined(u[o]) \/ \E k \in DOMAIN in : ~IsDefined(in[k]))
  <2>1. E = w
    BY <1>7, EvaluatedIs DEF in
  <2>2. \A k \in 1 .. N : u[g.value[o].operands[k]].dims = t[g.value[o].operands[k]].dims
    BY <1>3, <1>4, <1>5, <1>7
  <2>3. \A k \in 1 .. N : /\ in[k] \in Tensors /\ In(g, t, o)[k] \in Tensors
                           /\ in[k].dims = In(g, t, o)[k].dims
    <3>1. \A k \in 1 .. N : In(g, t, o)[k] = t[g.value[o].operands[k]]
      BY InFacts DEF N
    <3>2. \A k \in 1 .. N : in[k] \in Outcomes /\ IsDefined(in[k])
      BY <1>1, <1>3, <1>4, <1>7
    <3>3. QED
      BY <1>2, <1>3, <1>4, <2>2, <3>1, <3>2, TensorFacts
  <2>4. x \in Outcomes /\ x.dims = t[o].dims
    <3>1. Workable(g.value[o])
      BY DEF AllWorkable
    <3>2. x \in Outcomes
      BY <2>3, <3>1, ApplyIsOutcome DEF N
    <3>3. x.dims = Apply(g.value[o], In(g, t, o)).dims
      BY <2>3, <3>1, ApplyDims DEF N
    <3>4. QED
      BY <1>2, <3>2, <3>3
  <2> HIDE DEF x
  <2>5. /\ w \in [DOMAIN g.value -> Outcomes]
        /\ w[o].dims = t[o].dims
        /\ \A v \in DOMAIN g.value : v # o => w[v] = u[v]
    BY <1>1, <1>2, <1>3, <2>4
  <2> HIDE DEF w, E
  <2>6. Approximates(g, t, w)
    BY <1>1, <2>5 DEF Approximates
  <2>7. Advances(g, t, u, w, {o})
    BY <2>5, <2>6 DEF Advances
  <2>8. QED
    BY <2>1, <2>7 DEF E
<1>8. QED
  BY <1>6, <1>7

\* A round does so with all operators.
LEMMA RoundAdvances ==
  ASSUME NEW g, Sound(g), AllWorkable(g), NEW t, ShapesFit(g, t),
         NEW u, Approximates(g, t, u)
  PROVE  Advances(g, t, u, Round(g, u), Live(g))
<1> DEFINE T == {w \in [DOMAIN g.value -> Outcomes] : Approximates(g, t, w)}
           N == Len(g.ops)
<1>1. /\ DOMAIN g.ops = 1 .. N /\ N \in Nat
      /\ \A n \in 1 .. N : g.ops[n] \in Live(g)
      /\ \A o \in Live(g) : \E n \in 1 .. N : o = g.ops[n]
      /\ \A o \in Live(g) : o \in DOMAIN g.value /\ Operands(g, o) \subseteq DOMAIN g.value
  BY SoundDomains DEF Live, ToSet, Sound, Listed, ReadsSources
<1>2. u \in T
  BY DEF Approximates
<1>3. \A w \in T : \A o \in Live(g) : Evaluated(g, w, o) \in T
  <2>1. ASSUME NEW w \in T, NEW o \in Live(g) PROVE Evaluated(g, w, o) \in T
    <3>1. Advances(g, t, w, Evaluated(g, w, o), {o})
      BY EvaluatedAdvances
    <3>2. Approximates(g, t, Evaluated(g, w, o))
      BY <3>1 DEF Advances
    <3>3. QED
      BY <3>2 DEF Approximates
  <2>2. QED
    BY <2>1
<1>4. PICK f \in [0 .. N -> T] :
        /\ f[0] = u
        /\ \A n \in 1 .. N : f[n] = Evaluated(g, f[n - 1], g.ops[n])
        /\ Round(g, u) = f[N]
  <2> HIDE DEF T
  <2>1. QED
    BY <1>1, <1>2, <1>3, RoundRuns
<1>5. \A n \in 0 .. N : Approximates(g, t, f[n])
  BY <1>4
<1> HIDE DEF T, N
<1>6. ASSUME NEW n \in 1 .. N
      PROVE  /\ n - 1 \in 0 .. N /\ n \in 0 .. N
             /\ Advances(g, t, f[n - 1], f[n], {g.ops[n]})
  <2>1. n - 1 \in 0 .. N /\ n \in 0 .. N
    BY <1>1
  <2>2. Advances(g, t, f[n - 1], Evaluated(g, f[n - 1], g.ops[n]), {g.ops[n]})
    BY <1>1, <1>5, <2>1, EvaluatedAdvances
  <2>3. QED
    BY <1>4, <2>1, <2>2
<1> DEFINE P == {n \in 0 .. N :
                   /\ \A v \in DOMAIN g.value : u[v].dims = t[v].dims => f[n][v].dims = t[v].dims
                   /\ \A k \in 1 .. n : (\A v \in Operands(g, g.ops[k]) : u[v].dims = t[v].dims)
                                        => f[n][g.ops[k]].dims = t[g.ops[k]].dims}
<1>7. 0 \in P
  BY <1>1, <1>4
<1>8. ASSUME NEW n \in Nat, n < N, n \in P PROVE n + 1 \in P
  <2>1. n + 1 \in 1 .. N /\ n + 1 \in 0 .. N /\ n + 1 - 1 = n
    BY <1>1, <1>8
  <2>2. /\ \A v \in DOMAIN g.value : f[n][v].dims = t[v].dims => f[n + 1][v].dims = t[v].dims
        /\ (\A v \in Operands(g, g.ops[n + 1]) : f[n][v].dims = t[v].dims)
             => f[n + 1][g.ops[n + 1]].dims = t[g.ops[n + 1]].dims
    <3> DEFINE a == f[n]
               b == f[n + 1]
               S == {g.ops[n + 1]}
    <3>1. Advances(g, t, a, b, S)
      <4> DEFINE m == n + 1
      <4>1. m \in 1 .. N /\ m - 1 = n
        BY <2>1
      <4> HIDE DEF m
      <4>2. Advances(g, t, f[m - 1], f[m], {g.ops[m]})
        BY <1>6, <4>1
      <4>3. Advances(g, t, f[n], f[m], {g.ops[m]})
        BY Zenon, <4>1, <4>2
      <4>4. QED
        BY Zenon, <4>3 DEF m
    <3>2. g.ops[n + 1] \in S
      OBVIOUS
    <3> HIDE DEF a, b, S
    <3>3. /\ \A v \in DOMAIN g.value : a[v].dims = t[v].dims => b[v].dims = t[v].dims
          /\ \A o \in S : (\A v \in Operands(g, o) : a[v].dims = t[v].dims)
                        => b[o].dims = t[o].dims
      BY <3>1 DEF Advances
    <3>4. QED
      BY Zenon, <3>2, <3>3 DEF a, b
  <2>3. /\ \A v \in DOMAIN g.value : u[v].dims = t[v].dims => f[n][v].dims = t[v].dims
        /\ \A k \in 1 .. n : (\A v \in Operands(g, g.ops[k]) : u[v].dims = t[v].dims)
                             => f[n][g.ops[k]].dims = t[g.ops[k]].dims
    BY <1>8
  <2>4. \A v \in DOMAIN g.value : u[v].dims = t[v].dims => f[n + 1][v].dims = t[v].dims
    BY <2>2, <2>3
  <2>5. ASSUME NEW k \in 1 .. n + 1, \A v \in Operands(g, g.ops[k]) : u[v].dims = t[v].dims
        PROVE  f[n + 1][g.ops[k]].dims = t[g.ops[k]].dims
    <3>1. k \in 1 .. N /\ g.ops[k] \in DOMAIN g.value
          /\ Operands(g, g.ops[k]) \subseteq DOMAIN g.value
      BY <1>1, <2>1
    <3>2. CASE k = n + 1
      BY <2>2, <2>3, <2>5, <3>1, <3>2
    <3>3. CASE k # n + 1
      <4>1. k \in 1 .. n
        BY <3>3
      <4>2. QED
        BY <2>2, <2>3, <2>5, <3>1, <4>1
    <3>4. QED
      BY <3>2, <3>3
  <2>6. QED
    BY <2>1, <2>4, <2>5
<1>9. 0 .. N \subseteq P
  <2> HIDE DEF P
  <2>1. QED
    BY <1>1, <1>7, <1>8, UpTo
<1>10. N \in 0 .. N
  BY <1>1
<1>11. Advances(g, t, u, f[N], Live(g))
  <2>1. /\ \A v \in DOMAIN g.value : u[v].dims = t[v].dims => f[N][v].dims = t[v].dims
        /\ \A k \in 1 .. N : (\A v \in Operands(g, g.ops[k]) : u[v].dims = t[v].dims)
                                        => f[N][g.ops[k]].dims = t[g.ops[k]].dims
    BY <1>9, <1>10
  <2>2. \A o \in Live(g) : (\A v \in Operands(g, o) : u[v].dims = t[v].dims) => f[N][o].dims = t[o].dims
    BY <1>1, <2>1
  <2>3. Approximates(g, t, f[N])
    BY <1>5, <1>10
  <2>4. QED
    BY <2>1, <2>2, <2>3 DEF Advances
<1>12. QED
  BY <1>4, <1>11

\* There are no more live operators than positions in the list.
LEMMA LiveCount ==
  ASSUME NEW g, Sound(g)
  PROVE  /\ IsFiniteSet(Live(g))
         /\ Cardinality(Live(g)) \in Nat
         /\ Cardinality(Live(g)) <= Len(g.ops)
<1> DEFINE D == DOMAIN g.ops
           os == g.ops
           f == [i \in D |-> os[i]]
           T == {os[i] : i \in D}
<1>1. Len(g.ops) \in Nat /\ D = 1 .. Len(g.ops)
  BY SoundDomains
<1>2. IsFiniteSet(D) /\ Cardinality(D) = Len(g.ops)
  BY <1>1, FS_Interval, 1 \in Int, Len(g.ops) \in Int
<1>3. f \in Surjection(D, T)
  BY DEF Surjection
<1> HIDE DEF D, f, T
<1>4. IsFiniteSet(T) /\ Cardinality(T) <= Cardinality(D)
  BY <1>2, <1>3, FS_Surjection
<1>5. T = Live(g)
  BY DEF T, D, Live, ToSet
<1>6. Cardinality(T) \in Nat
  BY <1>4, FS_CardinalityType
<1>7. QED
  BY <1>2, <1>4, <1>5, <1>6

\* The operators whose tensors u has.
Known(g, t, u) == {o \in Live(g) : u[o].dims = t[o].dims}

\* A round finds one more, if any are missing: one of least rank among them.
LEMMA RoundFindsMore ==
  ASSUME NEW g, Sound(g), AllWorkable(g), Acyclic(g), NEW t, ShapesFit(g, t),
         NEW u, Approximates(g, t, u)
  PROVE  /\ Approximates(g, t, Round(g, u))
         /\ Known(g, t, u) \subseteq Known(g, t, Round(g, u))
         /\ Known(g, t, u) # Live(g) => Known(g, t, u) # Known(g, t, Round(g, u))
<1> DEFINE w == Round(g, u)
<1>1. Advances(g, t, u, w, Live(g))
  BY RoundAdvances
<1> HIDE DEF w
<1>2. /\ Approximates(g, t, w)
      /\ \A v \in DOMAIN g.value : u[v].dims = t[v].dims => w[v].dims = t[v].dims
      /\ \A o \in Live(g) : (\A v \in Operands(g, o) : u[v].dims = t[v].dims) => w[o].dims = t[o].dims
  BY <1>1 DEF Advances
<1>3. /\ \A v \in DOMAIN g.value : u[v].dims = t[v].dims \/ (v \in Live(g) /\ u[v] = Undefined)
  BY DEF Approximates
<1>4. /\ Live(g) \subseteq DOMAIN g.value
      /\ \A o \in Live(g) : Operands(g, o) \subseteq DOMAIN g.value
  BY SoundDomains DEF Sound, Listed, ReadsSources
<1>5. Known(g, t, u) \subseteq Known(g, t, w)
  BY <1>2, <1>4 DEF Known
<1>6. ASSUME Known(g, t, u) # Live(g) PROVE Known(g, t, u) # Known(g, t, w)
  <2>1. PICK rank : Ranks(g, rank)
    BY DEF Acyclic
  <2>2. /\ rank \in [DOMAIN g.value -> Nat]
        /\ \A o \in Live(g) : \A v \in Operands(g, o) : rank[v] < rank[o]
    BY <2>1 DEF Ranks
  <2> DEFINE M == {o \in Live(g) : u[o].dims # t[o].dims}
             R == {n \in Nat : \E o \in M : n = rank[o]}
  <2>3. PICK m \in M : TRUE
    BY <1>6 DEF Known
  <2>4. rank[m] \in R
    BY <1>4, <2>2, <2>3
  <2>5. PICK n \in R : \A k \in R : n <= k
    BY <2>4, LeastNat
  <2>6. PICK o \in M : n = rank[o]
    BY <2>5
  <2>7. \A x \in M : rank[o] <= rank[x]
    <3>1. ASSUME NEW x \in M PROVE rank[x] \in R
      BY <1>4, <2>2
    <3>2. QED
      BY <2>5, <2>6, <3>1
  <2>8. ASSUME NEW v \in Operands(g, o) PROVE u[v].dims = t[v].dims
    <3>1. v \in DOMAIN g.value /\ o \in DOMAIN g.value /\ rank[v] < rank[o]
      BY <1>4, <2>2, <2>6
    <3>2. v \notin M
      BY <2>2, <2>7, <3>1
    <3>3. QED
      BY <1>3, <3>1, <3>2
  <2>9. w[o].dims = t[o].dims /\ u[o].dims # t[o].dims /\ o \in Live(g)
    BY <1>2, <2>6, <2>8
  <2>10. QED
    BY <2>9 DEF Known
<1>7. QED
  BY <1>2, <1>5, <1>6 DEF w

\* The meaning has all tensors, of the shapes that fit.
LEMMA MeaningHasShapes ==
  ASSUME NEW g, Sound(g), AllWorkable(g), Acyclic(g), NEW t, ShapesFit(g, t)
  PROVE  \A v \in DOMAIN g.value : Meaning(g)[v].dims = t[v].dims
<1> DEFINE T == {w \in [DOMAIN g.value -> Outcomes] : Approximates(g, t, w)}
           N == Len(g.ops)
           L == Live(g)
           K(w) == Known(g, t, w)
<1>1. /\ DOMAIN g.ops = 1 .. N /\ N \in Nat
      /\ Live(g) \subseteq DOMAIN g.value
      /\ Arguments(g) \subseteq DOMAIN g.value
  BY SoundDomains DEF Sound, Listed, Arguments
<1>2. /\ t \in [DOMAIN g.value -> Outcomes]
      /\ \A v \in Sources(g) : t[v] \in Tensors
      /\ \A v \in DOMAIN g.value : v \notin Sources(g) => t[v] = Undefined
      /\ \A v \in Arguments(g) : t[v] = ArgTensor(v, g.value[v].type.dims)
  BY DEF ShapesFit
<1>3. Given(g) \in T
  <2> DEFINE u == Given(g)
  <2>1. /\ u = [v \in DOMAIN g.value |-> u[v]]
        /\ \A v \in DOMAIN g.value : v \notin Arguments(g) => u[v] = Undefined
        /\ \A v \in Arguments(g) : u[v] = ArgTensor(v, g.value[v].type.dims)
    BY DEF Given, Arguments
  <2> HIDE DEF u
  <2>2. ASSUME NEW v \in DOMAIN g.value
        PROVE  u[v] \in Outcomes /\ (u[v].dims = t[v].dims \/ (v \in Live(g) /\ u[v] = Undefined))
    <3>1. CASE v \in Arguments(g)
      BY <1>2, <2>1, <3>1
    <3>2. CASE v \notin Arguments(g)
      BY <1>2, <2>1, <3>2, UndefinedFacts DEF Sources
    <3>3. QED
      BY <3>1, <3>2
  <2>3. u \in [DOMAIN g.value -> Outcomes]
    BY <2>1, <2>2
  <2>4. Approximates(g, t, u)
    BY <2>2, <2>3 DEF Approximates
  <2>5. QED
    BY <2>3, <2>4 DEF u
<1>4. ASSUME NEW w \in T
      PROVE  /\ Round(g, w) \in T
             /\ K(w) \subseteq K(Round(g, w))
             /\ K(w) # L => K(w) # K(Round(g, w))
  <2>1. Approximates(g, t, Round(g, w))
    BY RoundFindsMore
  <2>2. Round(g, w) \in T
    BY <2>1 DEF Approximates
  <2>3. QED
    BY <2>2, RoundFindsMore
<1>5. PICK f \in [0 .. N -> T] :
        /\ f[0] = Given(g)
        /\ \A n \in 1 .. N : f[n] = Round(g, f[n - 1])
        /\ Meaning(g) = f[N]
  <2> HIDE DEF T, K
  <2>1. \A w \in T : Round(g, w) \in T
    BY <1>4
  <2>2. QED
    BY <1>1, <1>3, <2>1, MeaningRuns
<1>6. IsFiniteSet(L) /\ Cardinality(L) \in Nat /\ Cardinality(L) <= N
  BY LiveCount
<1>7. \A w : K(w) \subseteq L
  BY DEF Known
<1>8. \A w : IsFiniteSet(K(w)) /\ Cardinality(K(w)) \in Nat /\ Cardinality(K(w)) <= Cardinality(L)
             /\ (Cardinality(L) = Cardinality(K(w)) => L = K(w))
  <2> HIDE DEF K, L
  <2>1. QED
    BY <1>6, <1>7, FS_Subset, FS_CardinalityType
<1> DEFINE P == {n \in 0 .. N : K(f[n]) = L \/ n <= Cardinality(K(f[n]))}
<1>9. 0 \in P
  BY <1>1, <1>8
<1>10. ASSUME NEW n \in Nat, n < N, n \in P PROVE n + 1 \in P
  <2>1. n + 1 \in 1 .. N /\ n + 1 \in 0 .. N /\ n + 1 - 1 = n /\ n \in 0 .. N
    BY <1>1, <1>10
  <2>2. f[n + 1] = Round(g, f[n]) /\ f[n] \in T
    <3> HIDE DEF T
    <3>1. QED
      BY <1>5, <2>1
  <2> DEFINE A == K(f[n])
             B == K(f[n + 1])
  <2>3. A \subseteq B /\ (A # L => A # B)
    <3> HIDE DEF T, K
    <3>1. QED
      BY <1>4, <2>2
  <2>4. A = L \/ n <= Cardinality(A)
    BY <1>10
  <2>5. /\ A \subseteq L /\ B \subseteq L
        /\ IsFiniteSet(B) /\ Cardinality(A) \in Nat /\ Cardinality(B) \in Nat
    BY <1>7, <1>8
  <2> HIDE DEF A, B, L
  <2>6. B = L \/ n + 1 <= Cardinality(B)
    <3>1. CASE A = L
      BY <2>3, <2>5, <3>1
    <3>2. CASE A # L
      <4>1. Cardinality(A) <= Cardinality(B) /\ Cardinality(B) # Cardinality(A)
        BY <2>3, <2>5, <3>2, FS_Subset
      <4>2. QED
        BY <2>4, <2>5, <3>2, <4>1
    <3>3. QED
      BY <3>1, <3>2
  <2>7. QED
    BY <2>1, <2>6 DEF B, L
<1>11. 0 .. N \subseteq P
  <2> HIDE DEF P
  <2>1. QED
    BY <1>1, <1>9, <1>10, UpTo
<1>12. K(f[N]) = L
  <2>1. N \in 0 .. N
    BY <1>1
  <2>2. K(f[N]) = L \/ N <= Cardinality(K(f[N]))
    BY <1>11, <2>1
  <2> DEFINE A == K(f[N])
  <2>3. /\ Cardinality(A) \in Nat /\ Cardinality(A) <= Cardinality(L)
        /\ (Cardinality(L) = Cardinality(A) => L = A)
    BY <1>8
  <2> HIDE DEF A, L, K
  <2>4. A = L \/ N <= Cardinality(A)
    BY <2>2 DEF A
  <2>5. A = L
    BY <1>1, <1>6, <2>3, <2>4
  <2>6. QED
    BY <2>5 DEF A
<1>13. Approximates(g, t, f[N]) /\ f[N] \in [DOMAIN g.value -> Outcomes]
  <2>1. N \in 0 .. N
    BY <1>1
  <2>2. QED
    BY <1>5, <2>1
<1>14. \A v \in DOMAIN g.value : f[N][v].dims = t[v].dims
  BY <1>12, <1>13 DEF Known, Approximates
<1>15. QED
  BY <1>5, <1>14

\* So it is a solution.
LEMMA MeaningFits ==
  ASSUME NEW g, Sound(g), AllWorkable(g), Acyclic(g), NEW t, ShapesFit(g, t)
  PROVE  /\ Fits(g, Meaning(g))
         /\ \A v \in DOMAIN g.value : Meaning(g)[v].dims = t[v].dims
<1>1. \A v \in DOMAIN g.value : Meaning(g)[v].dims = t[v].dims
  BY MeaningHasShapes
<1>2. /\ t \in [DOMAIN g.value -> Outcomes]
      /\ \A v \in Sources(g) : t[v] \in Tensors
      /\ Live(g) \subseteq DOMAIN g.value /\ Live(g) \subseteq Sources(g)
  BY DEF ShapesFit, Sources, Sound, Listed
<1>3. \A o \in Live(g) : IsDefined(Meaning(g)[o])
  <2>1. \A o \in Live(g) : IsDefined(t[o])
    BY <1>2, TensorFacts
  <2>2. QED
    BY <1>1, <1>2, <2>1 DEF IsDefined
<1>4. \A v \in Arguments(g) : g.value[v].type.dims \in Rotations
  <2>1. \A v \in Arguments(g) : /\ t[v] = ArgTensor(v, g.value[v].type.dims)
                                /\ t[v] \in Tensors
    BY <1>2 DEF ShapesFit, Sources
  <2>2. \A v \in Arguments(g) : t[v].dims = g.value[v].type.dims
    <3>1. \A k, d : ArgTensor(k, d).dims = d
      BY DEF ArgTensor
    <3>2. QED
      BY <2>1, <3>1
  <2>3. QED
    BY <2>1, <2>2, TensorFacts
<1>5. QED
  BY <1>1, <1>3, <1>4, MeaningSolves

\* There is only one: an operator of least rank among those with two tensors would
\* have one tensor for each of its operands.
LEMMA OneSolution ==
  ASSUME NEW g, Sound(g), Acyclic(g), NEW t, Fits(g, t), NEW u, Fits(g, u)
  PROVE  u = t
<1>1. /\ t \in [DOMAIN g.value -> Outcomes] /\ u \in [DOMAIN g.value -> Outcomes]
      /\ \A v \in DOMAIN g.value : v \notin Live(g) => t[v] = u[v]
      /\ \A o \in Live(g) : /\ t[o] = Apply(g.value[o], In(g, t, o))
                            /\ u[o] = Apply(g.value[o], In(g, u, o))
  BY DEF Fits, Sources
<1>2. /\ Live(g) \subseteq DOMAIN g.value
      /\ \A o \in Live(g) : Operands(g, o) \subseteq DOMAIN g.value
  BY SoundDomains DEF Sound, Listed, ReadsSources
<1> DEFINE M == {o \in Live(g) : u[o] # t[o]}
<1>3. M = {}
  <2>1. SUFFICES ASSUME NEW m \in M PROVE FALSE
    OBVIOUS
  <2>2. PICK rank : Ranks(g, rank)
    BY DEF Acyclic
  <2>3. /\ rank \in [DOMAIN g.value -> Nat]
        /\ \A o \in Live(g) : \A v \in Operands(g, o) : rank[v] < rank[o]
    BY <2>2 DEF Ranks
  <2> DEFINE R == {n \in Nat : \E o \in M : n = rank[o]}
  <2>4. rank[m] \in R
    BY <1>2, <2>3
  <2>5. PICK n \in R : \A k \in R : n <= k
    BY <2>4, LeastNat
  <2>6. PICK o \in M : n = rank[o]
    BY <2>5
  <2>7. \A x \in M : rank[o] <= rank[x]
    <3>1. ASSUME NEW x \in M PROVE rank[x] \in R
      BY <1>2, <2>3
    <3>2. QED
      BY <2>5, <2>6, <3>1
  <2>8. ASSUME NEW v \in Operands(g, o) PROVE u[v] = t[v]
    <3>1. v \in DOMAIN g.value /\ o \in DOMAIN g.value /\ rank[v] < rank[o]
      BY <1>2, <2>3, <2>6
    <3>2. v \notin M
      BY <2>3, <2>7, <3>1
    <3>3. QED
      BY <1>1, <3>1, <3>2
  <2>9. In(g, u, o) = In(g, t, o)
    <3>1. \A k \in DOMAIN g.value[o].operands : g.value[o].operands[k] \in Operands(g, o)
      BY DEF Operands, ToSet
    <3>2. \A k \in DOMAIN g.value[o].operands :
            u[g.value[o].operands[k]] = t[g.value[o].operands[k]]
      BY <2>8, <3>1
    <3>3. QED
      BY <3>2 DEF In
  <2>10. QED
    BY <1>1, <2>6, <2>9
<1>4. QED
  <2>1. \A v \in DOMAIN g.value : u[v] = t[v]
    BY <1>1, <1>3
  <2> DEFINE D == DOMAIN g.value
  <2>2. u \in [D -> Outcomes] /\ t \in [D -> Outcomes] /\ \A v \in D : u[v] = t[v]
    BY <1>1, <2>1
  <2> HIDE DEF D
  <2>3. QED
    BY <2>2

\* The solution is the meaning.
LEMMA MeaningIs ==
  ASSUME NEW g, Sound(g), AllWorkable(g), Acyclic(g), NEW t, Fits(g, t)
  PROVE  Meaning(g) = t
<1>1. ShapesFit(g, t)
  BY DEF Fits, ShapesFit
<1>2. Fits(g, Meaning(g))
  BY <1>1, MeaningFits
<1>3. QED
  BY <1>2, OneSolution

(***************************************************************************)
(* What the edits do to the graph's returns and to the operators' fields.  *)
(***************************************************************************)
\* The fields of an edited graph.
LEMMA EditedReturns ==
  ASSUME NEW g, Sound(g)
  PROVE  /\ \A op : AddOp(g, op).returns = g.returns
         /\ \A o : EraseOp(g, o).returns = g.returns
         /\ \A old, new : old # new =>
              ReplaceAllUses(g, old, new).returns = Renamed(g.returns, old, new)
         /\ \A vs : [g EXCEPT !.value = vs].returns = g.returns
         /\ \A vs : [g EXCEPT !.value = vs].ops = g.ops
         /\ \A o : EraseOp(g, o).ops = RemoveAt(g.ops, Position(g, o))
<1>1. g = [value |-> g.value, ops |-> g.ops, users |-> g.users, returns |-> g.returns]
  BY DEF Sound, Tables
<1>2. \A vs, os, us : /\ [g EXCEPT !.value = vs, !.ops = os, !.users = us].returns = g.returns
                      /\ [g EXCEPT !.ops = os, !.users = us].returns = g.returns
                      /\ [g EXCEPT !.ops = os, !.users = us].ops = os
                      /\ [g EXCEPT !.value = vs].returns = g.returns
                      /\ [g EXCEPT !.value = vs].ops = g.ops
  BY <1>1
<1>3. \A vs, us, rs : [g EXCEPT !.value = vs, !.users = us, !.returns = rs].returns = rs
  BY <1>1
<1>4. ASSUME NEW op PROVE AddOp(g, op).returns = g.returns
  <2> DEFINE o == Len(g.value) + 1
             vs == Append(g.value, op)
             os == Append(g.ops, o)
             us == Append([v \in DOMAIN g.users |->
                     IF v \in ToSet(op.operands) THEN g.users[v] \cup {o} ELSE g.users[v]], {})
  <2>1. AddOp(g, op) = [g EXCEPT !.value = vs, !.ops = os, !.users = us]
    BY Zenon DEF AddOp
  <2> HIDE DEF vs, os, us
  <2>2. QED
    BY <1>2, <2>1
<1>5. ASSUME NEW o PROVE /\ EraseOp(g, o).returns = g.returns
                         /\ EraseOp(g, o).ops = RemoveAt(g.ops, Position(g, o))
  <2> DEFINE os == RemoveAt(g.ops, Position(g, o))
             us == [v \in DOMAIN g.users |->
                     IF v \in Operands(g, o) THEN g.users[v] \ {o} ELSE g.users[v]]
  <2>1. EraseOp(g, o) = [g EXCEPT !.ops = os, !.users = us]
    BY Zenon DEF EraseOp
  <2> HIDE DEF os, us
  <2>2. EraseOp(g, o).returns = g.returns /\ EraseOp(g, o).ops = os
    BY <1>2, <2>1
  <2>3. QED
    BY <2>2 DEF os
<1>6. ASSUME NEW old, NEW new, old # new
      PROVE  ReplaceAllUses(g, old, new).returns = Renamed(g.returns, old, new)
  <2> DEFINE readers == {o \in Live(g) : old \in Operands(g, o)}
             vs == [v \in DOMAIN g.value |->
                     IF v \in readers THEN WithOperand(g.value[v], old, new) ELSE g.value[v]]
             us == [g.users EXCEPT ![old] = @ \ readers, ![new] = @ \cup readers]
             rs == Renamed(g.returns, old, new)
             k == [g EXCEPT !.value = vs, !.users = us, !.returns = rs]
  <2>1. ReplaceAllUses(g, old, new) = IF old = new THEN g ELSE k
    BY Zenon DEF ReplaceAllUses
  <2> HIDE DEF vs, us, rs
  <2>2. k.returns = rs
    BY <1>3
  <2> HIDE DEF k
  <2>3. QED
    BY <1>6, <2>1, <2>2 DEF rs
<1>7. QED
  BY <1>2, <1>4, <1>5, <1>6

\* q is p with an operand renamed.
Rerouted(p, q, old, new) ==
  /\ q.operands = Renamed(p.operands, old, new)
  /\ q.mnemonic = p.mnemonic /\ q.type = p.type /\ q.data = p.data
  /\ q.attrs = p.attrs

\* So is what WithOperand makes, ...
LEMMA WithOperandReroutes ==
  ASSUME NEW p, Formed(p), NEW old, NEW new
  PROVE  Rerouted(p, WithOperand(p, old, new), old, new)
<1> DEFINE q == WithOperand(p, old, new)
           s == Renamed(p.operands, old, new)
<1>1. p = [mnemonic |-> p.mnemonic, operands |-> p.operands, type |-> p.type,
           data |-> p.data, attrs |-> p.attrs, legal |-> p.legal]
  BY DEF Formed
<1>2. q = [p EXCEPT !.operands = s]
  BY Zenon DEF WithOperand
<1> HIDE DEF q, s
<1>3. /\ q.operands = s
      /\ q.mnemonic = p.mnemonic /\ q.type = p.type /\ q.data = p.data
      /\ q.attrs = p.attrs
  BY <1>1, <1>2
<1>4. QED
  BY <1>3 DEF Rerouted, q, s

\* ... and what does not have the operand.
LEMMA UnreadReroutes ==
  ASSUME NEW p, Formed(p), NEW old, NEW new, old \notin ToSet(p.operands)
  PROVE  Rerouted(p, p, old, new)
<1> DEFINE s == p.operands
<1>1. s \in Seq(Nat) /\ \A k \in DOMAIN s : s[k] # old
  BY DEF Formed, ToSet
<1> HIDE DEF s
<1>2. s = [k \in DOMAIN s |-> s[k]]
  BY <1>1
<1>3. Renamed(s, old, new) = s
  BY <1>1, <1>2 DEF Renamed
<1>4. QED
  BY <1>3 DEF Rerouted, s

\* After replace_all_uses and erase_op the rest reads the new value.
LEMMA RewiredFields ==
  ASSUME NEW g, Sound(g), NEW old \in Sources(g), NEW new \in Sources(g), old # new
  PROVE  LET h == ReplaceAllUses(g, old, new) IN
         /\ DOMAIN h.value = DOMAIN g.value
         /\ h.returns = Renamed(g.returns, old, new)
         /\ \A v \in Live(g) : Rerouted(g.value[v], h.value[v], old, new)
         /\ \A v \in DOMAIN g.value : v \notin Live(g) => h.value[v] = g.value[v]
<1> DEFINE h == ReplaceAllUses(g, old, new)
<1>1. Rewired(g, old, new, h)
  BY RewiredEntries
<1>2. h.returns = Renamed(g.returns, old, new)
  BY EditedReturns
<1> HIDE DEF h
<1>3. /\ DOMAIN h.value = DOMAIN g.value
      /\ \A v \in DOMAIN g.value :
           h.value[v] = IF v \in Live(g) /\ old \in Operands(g, v)
                        THEN WithOperand(g.value[v], old, new)
                        ELSE g.value[v]
  BY <1>1 DEF Rewired
<1>4. ASSUME NEW v \in Live(g) PROVE Rerouted(g.value[v], h.value[v], old, new)
  <2>1. v \in DOMAIN g.value /\ Formed(g.value[v])
    BY OperandFacts
  <2>2. CASE old \in Operands(g, v)
    BY <1>3, <2>1, <2>2, WithOperandReroutes
  <2>3. CASE old \notin Operands(g, v)
    BY <1>3, <2>1, <2>3, UnreadReroutes DEF Operands
  <2>4. QED
    BY <2>2, <2>3
<1>5. QED
  BY <1>2, <1>3, <1>4 DEF h

\* The same for the pair.
LEMMA ReplacedFields ==
  ASSUME NEW g, Sound(g), NEW o \in Live(g), NEW new \in Sources(g), new # o
  PROVE  LET h == Replaced(g, o, new) IN
         /\ Sound(h)
         /\ Live(h) = Live(g) \ {o}
         /\ DOMAIN h.value = DOMAIN g.value
         /\ h.returns = Renamed(g.returns, o, new)
         /\ \A v \in Live(g) : Rerouted(g.value[v], h.value[v], o, new)
         /\ \A v \in DOMAIN g.value : v \notin Live(g) => h.value[v] = g.value[v]
<1> DEFINE k == ReplaceAllUses(g, o, new)
           h == EraseOp(k, o)
<1>1. /\ DOMAIN k.value = DOMAIN g.value
      /\ k.returns = Renamed(g.returns, o, new)
      /\ \A v \in Live(g) : Rerouted(g.value[v], k.value[v], o, new)
      /\ \A v \in DOMAIN g.value : v \notin Live(g) => k.value[v] = g.value[v]
  BY RewiredFields DEF Sources
<1>2. Sound(k) /\ Live(k) = Live(g) /\ o \in Live(k)
  BY RewiredSound DEF Sources
<1>3. Replaced(g, o, new) = h
  BY Zenon DEF Replaced
<1>4. Sound(Replaced(g, o, new)) /\ Live(Replaced(g, o, new)) = Live(g) \ {o}
  BY ReplacedSound
<1> HIDE DEF k
<1>5. h.value = k.value
  <2>1. Erased(k, o, h)
    BY <1>2, EraseOpEntries
  <2> HIDE DEF h
  <2>2. QED
    BY <2>1 DEF Erased
<1>6. h.returns = k.returns
  BY <1>2, EditedReturns
<1> HIDE DEF h
<1>7. QED
  BY <1>1, <1>3, <1>4, <1>5, <1>6

(***************************************************************************)
(* What holds of the tensors t of the graph g while pass p runs.           *)
(***************************************************************************)
Flexible == Elementwise \cup {"transpose"}

\* Operators as the passes before have left them.
At(p, op) ==
  /\ op.mnemonic \in Computed /\ op.data \in Int
  /\ IsStatic(op.type) \/ (p <= 3 /\ op.mnemonic \in Flexible)
  /\ p < 13 => op.attrs.layout = "NCHW"
  /\ p < 14 => op.attrs.input_layout = "NCHW"

AllAt(p, g) == \A o \in Live(g) : At(p, g.value[o])

Typed(g, t) ==
  \A v \in Sources(g) : IsStatic(g.value[v].type) => t[v].dims = g.value[v].type.dims

Filters(g) ==
  \A o \in Live(g) : g.value[o].mnemonic = "convolution" => IsWeight(g, g.value[o].operands[2])

Returning(g) == \A k \in DOMAIN g.returns : g.returns[k] \in DOMAIN g.value

Settled(p, g, t) ==
  Fits(g, t) /\ Typed(g, t) /\ AllAt(p, g) /\ Filters(g) /\ Returning(g)

\* So it is but for what c computes.
SettledBut(p, g, t, c) ==
  FitsBut(g, t, c) /\ Typed(g, t) /\ AllAt(p, g) /\ Filters(g) /\ Returning(g)

\* The returned values of g have the same tensors in t as those of h in u.
Kept(g, t, h, u) == \A k \in DOMAIN g.returns : u[h.returns[k]] = t[g.returns[k]]

\* The tensors after c has taken over from o: nothing else in gone is left.
Handover(g, t, o, c, gone) ==
  [v \in DOMAIN g.value |-> IF v \in gone THEN Undefined ELSE IF v = c THEN t[o] ELSE t[v]]

\* The operators in gone, o among them, have left the graph h, and c stands for o.
\* If it computed something else, nobody else read c, and it has the shape of o.
TakesOver(g, t, h, o, c, gone) ==
  /\ Sound(h)
  /\ DOMAIN h.value = DOMAIN g.value
  /\ gone \subseteq Live(g) /\ o \in gone
  /\ Live(h) = Live(g) \ gone
  /\ c \in Sources(h)
  /\ Arguments(h) = Arguments(g) /\ \A v \in Arguments(g) : h.value[v] = g.value[v]
  /\ \A q \in Live(h) : q # c => Rerouted(g.value[q], h.value[q], o, c)
  /\ \/ /\ t[c] = t[o]
        /\ c \in Live(h) => Rerouted(g.value[c], h.value[c], o, c)
     \/ /\ c \in Live(h)
        /\ \A q \in Live(h) : c \notin Operands(g, q)
        /\ c \notin Operands(h, c)
        /\ Apply(h.value[c], In(h, t, c)).dims = t[o].dims

\* c computes what o computed.
Computes(g, t, h, o, c) ==
  \/ t[c] = t[o] /\ (c \in Live(h) => Rerouted(g.value[c], h.value[c], o, c))
  \/ Apply(h.value[c], In(h, t, c)) = t[o]

\* Rerouted operators look alike to Apply and read the same tensors.
LEMMA ReroutedIsAlike ==
  ASSUME NEW p, Formed(p), NEW q, NEW old, NEW new, Rerouted(p, q, old, new)
  PROVE  /\ Alike(p, q)
         /\ DOMAIN q.operands = DOMAIN p.operands
         /\ \A k \in DOMAIN p.operands :
              q.operands[k] = IF p.operands[k] = old THEN new ELSE p.operands[k]
<1>1. Alike(p, q) /\ q.operands = Renamed(p.operands, old, new)
  BY DEF Rerouted, Alike
<1>2. DOMAIN q.operands = DOMAIN p.operands
      /\ \A k \in DOMAIN p.operands :
           q.operands[k] = IF p.operands[k] = old THEN new ELSE p.operands[k]
  BY <1>1 DEF Renamed
<1>3. QED
  BY <1>1, <1>2

\* Then there are tensors that fit again, wholly if c computes what o did.
LEMMA HandoverFits ==
  ASSUME NEW g, Sound(g), NEW t, Fits(g, t), AllWorkable(g), NEW h, NEW o, NEW c, NEW gone,
         TakesOver(g, t, h, o, c, gone)
  PROVE  /\ FitsBut(h, Handover(g, t, o, c, gone), c)
         /\ Computes(g, t, h, o, c) => Fits(h, Handover(g, t, o, c, gone))
<1> DEFINE u == Handover(g, t, o, c, gone)
<1>1. /\ Sound(h)
      /\ DOMAIN h.value = DOMAIN g.value
      /\ gone \subseteq Live(g) /\ o \in gone
      /\ Live(h) = Live(g) \ gone
      /\ c \in Sources(h)
      /\ Arguments(h) = Arguments(g) /\ \A v \in Arguments(g) : h.value[v] = g.value[v]
      /\ \A q \in Live(h) : q # c => Rerouted(g.value[q], h.value[q], o, c)
      /\ \/ /\ t[c] = t[o]
            /\ c \in Live(h) => Rerouted(g.value[c], h.value[c], o, c)
         \/ /\ c \in Live(h)
            /\ \A q \in Live(h) : c \notin Operands(g, q)
            /\ c \notin Operands(h, c)
            /\ Apply(h.value[c], In(h, t, c)).dims = t[o].dims
  BY DEF TakesOver
<1>2. /\ t \in [DOMAIN g.value -> Outcomes]
      /\ \A v \in Sources(g) : t[v] \in Tensors
      /\ \A v \in DOMAIN g.value : v \notin Sources(g) => t[v] = Undefined
      /\ \A v \in Arguments(g) : t[v] = ArgTensor(v, g.value[v].type.dims)
      /\ \A q \in Live(g) : t[q] = Apply(g.value[q], In(g, t, q))
  BY DEF Fits
<1>3. /\ Live(g) \subseteq DOMAIN g.value
      /\ Live(g) \cap Arguments(g) = {} /\ Arguments(g) \subseteq DOMAIN g.value
      /\ Sources(g) = Live(g) \cup Arguments(g)
  BY DEF Sound, Listed, Sources, Arguments
<1>4. /\ Sources(h) = Live(h) \cup Arguments(g)
      /\ Live(h) \subseteq DOMAIN h.value
      /\ \A q \in Live(h) : Operands(h, q) \subseteq Sources(h)
      /\ c \notin gone /\ o # c /\ c \in Sources(g) /\ c \in DOMAIN g.value
  BY <1>1, <1>3 DEF Sound, Listed, Sources, ReadsSources
<1>5. /\ DOMAIN u = DOMAIN g.value
      /\ u = [v \in DOMAIN u |-> u[v]]
      /\ u[c] = t[o]
      /\ \A v \in gone : u[v] = Undefined
      /\ \A v \in DOMAIN g.value : v \notin gone /\ v # c => u[v] = t[v]
  BY <1>1, <1>3, <1>4 DEF Handover
<1> HIDE DEF u
<1>6. o \in Sources(g) /\ t[o] \in Tensors
  BY <1>1, <1>2, <1>3
<1>7. \A v \in Sources(h) : u[v] \in Tensors /\ v \in DOMAIN g.value /\ v \notin gone
  BY <1>1, <1>2, <1>3, <1>4, <1>5, <1>6
<1>8. \A v \in DOMAIN g.value : v \notin Sources(h) => u[v] = Undefined
  <2>1. \A v \in DOMAIN g.value : v \notin Sources(h) => v \in gone \/ v \notin Sources(g)
    BY <1>1, <1>3, <1>4
  <2>2. QED
    BY <1>2, <1>4, <1>5, <2>1
<1>9. u \in [DOMAIN g.value -> Outcomes]
  <2>1. \A v \in DOMAIN g.value : u[v] \in Outcomes
    BY <1>7, <1>8, TensorFacts, UndefinedFacts
  <2>2. QED
    BY <1>5, <2>1
<1>10. \A v \in Arguments(g) : u[v] = t[v]
  <2>1. \A v \in Arguments(g) : v \notin gone /\ v \notin Live(h) /\ v \in DOMAIN g.value
    BY <1>1, <1>3
  <2>2. QED
    BY <1>1, <1>5, <2>1
<1>11. ASSUME NEW q \in Live(h), Rerouted(g.value[q], h.value[q], o, c),
              t[c] = t[o] \/ c \notin Operands(g, q)
       PROVE  Apply(h.value[q], In(h, u, q)) = t[q]
  <2>1. q \in Live(g) /\ q \in DOMAIN g.value
    BY <1>1, <1>3
  <2> DEFINE p == g.value[q]
             r == h.value[q]
             N == Arity(p.mnemonic)
  <2>2. /\ Formed(p) /\ DOMAIN p.operands = 1 .. N
        /\ \A k \in 1 .. N : p.operands[k] \in Operands(g, q) /\ p.operands[k] \in Sources(g)
    BY <2>1, OperandFacts
  <2>3. /\ Alike(p, r)
        /\ DOMAIN r.operands = 1 .. N
        /\ \A k \in 1 .. N : r.operands[k] = IF p.operands[k] = o THEN c ELSE p.operands[k]
    <3>1. Rerouted(p, r, o, c) /\ Formed(p)
      BY <1>11, <2>2
    <3> HIDE DEF p, r, N
    <3>2. /\ Alike(p, r)
          /\ DOMAIN r.operands = DOMAIN p.operands
          /\ \A k \in DOMAIN p.operands :
               r.operands[k] = IF p.operands[k] = o THEN c ELSE p.operands[k]
      BY <3>1, ReroutedIsAlike
    <3>3. QED
      BY <2>2, <3>2
  <2>4. \A k \in 1 .. N : r.operands[k] \in Sources(h)
    BY <1>4, <2>3 DEF Operands, ToSet
  <2> HIDE DEF p, r, N
  <2>5. ASSUME NEW k \in 1 .. N PROVE u[r.operands[k]] = t[p.operands[k]]
    <3>1. CASE p.operands[k] = o
      BY <1>5, <2>3, <3>1
    <3>2. CASE p.operands[k] # o
      <4>1. r.operands[k] = p.operands[k] /\ p.operands[k] \in Sources(h)
        BY <2>3, <2>4, <3>2
      <4>2. CASE p.operands[k] = c
        <5>1. t[c] = t[o]
          BY <1>11, <2>2, <4>2
        <5>2. QED
          BY <1>5, <4>1, <4>2, <5>1
      <4>3. CASE p.operands[k] # c
        BY <1>5, <1>7, <4>1, <4>3
      <4>4. QED
        BY <4>2, <4>3
    <3>3. QED
      BY <3>1, <3>2
  <2>6. In(h, u, q) = In(g, t, q)
    <3>1. In(h, u, q) = [k \in 1 .. N |-> u[r.operands[k]]]
      BY <2>3 DEF In, r
    <3>2. In(g, t, q) = [k \in 1 .. N |-> t[p.operands[k]]]
      BY <2>2 DEF In, p
    <3>3. QED
      BY <2>5, <3>1, <3>2
  <2>7. \A k \in 1 .. N : In(g, t, q)[k] \in Tensors
    <3>1. \A k \in 1 .. N : In(g, t, q)[k] = t[p.operands[k]]
      BY <2>1, InFacts DEF p, N
    <3>2. QED
      BY <1>2, <2>2, <3>1
  <2>8. p.mnemonic \in Computed
    BY <2>1 DEF AllWorkable, Workable, p
  <2>9. Apply(p, In(g, t, q)) = Apply(r, In(g, t, q))
    BY <2>3, <2>7, <2>8, AlikeApply DEF N
  <2>10. t[q] = Apply(p, In(g, t, q))
    BY <1>2, <2>1 DEF p
  <2>11. QED
    BY <2>6, <2>9, <2>10 DEF r
<1>12. ASSUME NEW q \in Live(h), q # c PROVE u[q] = Apply(h.value[q], In(h, u, q))
  <2>1. Rerouted(g.value[q], h.value[q], o, c) /\ (t[c] = t[o] \/ c \notin Operands(g, q))
    BY <1>1, <1>12
  <2>2. Apply(h.value[q], In(h, u, q)) = t[q]
    BY <1>11, <2>1
  <2>3. u[q] = t[q]
    BY <1>1, <1>3, <1>5, <1>12
  <2>4. QED
    BY <2>2, <2>3
<1>13. ASSUME c \in Live(h)
       PROVE  /\ u[c].dims = Apply(h.value[c], In(h, u, c)).dims
              /\ Computes(g, t, h, o, c) => u[c] = Apply(h.value[c], In(h, u, c))
  <2>1. CASE t[c] = t[o] /\ Rerouted(g.value[c], h.value[c], o, c)
    <3>1. Apply(h.value[c], In(h, u, c)) = t[c]
      BY <1>11, <1>13, <2>1
    <3>2. QED
      BY <1>5, <2>1, <3>1
  <2>2. CASE /\ ~(t[c] = t[o] /\ Rerouted(g.value[c], h.value[c], o, c))
             /\ c \notin Operands(h, c)
             /\ Apply(h.value[c], In(h, t, c)).dims = t[o].dims
    <3>1. \A k \in DOMAIN h.value[c].operands :
            /\ h.value[c].operands[k] \in Sources(h)
            /\ h.value[c].operands[k] # c
      BY <1>4, <1>13, <2>2 DEF Operands, ToSet
    <3>2. \A k \in DOMAIN h.value[c].operands :
            u[h.value[c].operands[k]] = t[h.value[c].operands[k]]
      BY <1>5, <1>7, <3>1
    <3>3. In(h, u, c) = In(h, t, c)
      BY <3>2 DEF In
    <3>4. Computes(g, t, h, o, c) => Apply(h.value[c], In(h, t, c)) = t[o]
      BY <1>13, <2>2 DEF Computes
    <3>5. QED
      BY <1>5, <2>2, <3>3, <3>4
  <2>3. QED
    BY <1>1, <1>13, <2>1, <2>2
<1>14. \A v \in Arguments(h) : u[v] = ArgTensor(v, h.value[v].type.dims)
  BY <1>1, <1>2, <1>10
<1>15. u \in [DOMAIN h.value -> Outcomes]
  BY <1>1, <1>9
<1>16. \A v \in Sources(h) : u[v] \in Tensors
  BY <1>7
<1>17. \A v \in DOMAIN h.value : v \notin Sources(h) => u[v] = Undefined
  BY <1>1, <1>8
<1>18. FitsBut(h, u, c)
  BY <1>12, <1>13, <1>14, <1>15, <1>16, <1>17 DEF FitsBut, SolvesBut
<1>19. Computes(g, t, h, o, c) => Fits(h, u)
  BY <1>12, <1>13, <1>14, <1>15, <1>16, <1>17 DEF Fits
<1>20. QED
  BY <1>18, <1>19 DEF u

\* What settled graphs are for the lemmas above.
LEMMA SettledFacts ==
  ASSUME NEW g, Sound(g), NEW p, NEW t, Settled(p, g, t)
  PROVE  /\ AllWorkable(g) /\ Fits(g, t)
         /\ t \in [DOMAIN g.value -> Outcomes]
         /\ \A v \in Sources(g) : t[v] \in Tensors
         /\ \A v \in Sources(g) : v \in DOMAIN g.value
         /\ \A o \in Live(g) : At(p, g.value[o])
         /\ \A o \in Live(g) : t[o] = Apply(g.value[o], In(g, t, o))
         /\ \A v \in Arguments(g) : IsStatic(g.value[v].type)
<1>1. Fits(g, t) /\ Typed(g, t) /\ AllAt(p, g)
  BY DEF Settled
<1>2. /\ t \in [DOMAIN g.value -> Outcomes]
      /\ \A v \in Sources(g) : t[v] \in Tensors
      /\ \A v \in Arguments(g) : t[v] = ArgTensor(v, g.value[v].type.dims)
      /\ \A o \in Live(g) : t[o] = Apply(g.value[o], In(g, t, o))
  BY <1>1 DEF Fits
<1>3. AllWorkable(g)
  <2>1. ASSUME NEW o \in Live(g) PROVE Workable(g.value[o])
    <3>1. Formed(g.value[o]) /\ At(p, g.value[o])
      BY <1>1, OperandFacts DEF AllAt
    <3>2. QED
      BY <3>1 DEF Workable, At
  <2>2. QED
    BY <2>1 DEF AllWorkable
<1>4. ASSUME NEW v \in Arguments(g) PROVE IsStatic(g.value[v].type)
  <2> DEFINE d == g.value[v].type.dims
  <2>1. ArgTensor(v, d) \in Tensors
    BY <1>2 DEF Sources
  <2>2. ArgTensor(v, d).dims \in Rotations
    BY <2>1, TensorFacts
  <2> HIDE DEF d
  <2>3. ArgTensor(v, d).dims = d
    BY DEF ArgTensor
  <2>4. d # Dynamic
    BY <2>2, <2>3 DEF Rotations, Dynamic
  <2>5. QED
    BY <2>4 DEF IsStatic, d
<1>5. \A v \in Sources(g) : v \in DOMAIN g.value
  BY SoundDomains
<1>6. \A o \in Live(g) : At(p, g.value[o])
  BY <1>1 DEF AllAt
<1>7. QED
  BY <1>1, <1>2, <1>3, <1>4, <1>5, <1>6

\* After a handover all is settled again but c, which is if it computes what o did,
\* and the returned values are as before
\* unless they were of c or of operators that went with o.
LEMMA HandoverSettled ==
  ASSUME NEW g, Sound(g), NEW p, NEW t, Settled(p, g, t), NEW h, NEW o, NEW c, NEW gone,
         TakesOver(g, t, h, o, c, gone),
         h.returns = Renamed(g.returns, o, c),
         c \in Live(h) => At(p, h.value[c]),
         IsStatic(h.value[c].type) => t[o].dims = h.value[c].type.dims,
         g.value[o].mnemonic # "constant" \/ IsWeight(h, c),
         \A q \in Live(h) : \/ h.value[q].mnemonic # "convolution"
                            \/ Rerouted(g.value[q], h.value[q], o, c)
                            \/ IsWeight(h, h.value[q].operands[2])
  PROVE  LET u == Handover(g, t, o, c, gone) IN
         /\ SettledBut(p, h, u, c)
         /\ Computes(g, t, h, o, c) => Settled(p, h, u)
         /\ DOMAIN h.returns = DOMAIN g.returns
         /\ \A k \in DOMAIN g.returns :
              \/ g.returns[k] \in gone \ {o}
              \/ g.returns[k] = c /\ t[c] # t[o]
              \/ u[h.returns[k]] = t[g.returns[k]]
<1> DEFINE u == Handover(g, t, o, c, gone)
<1>1. /\ Sound(h)
      /\ DOMAIN h.value = DOMAIN g.value
      /\ gone \subseteq Live(g) /\ o \in gone
      /\ Live(h) = Live(g) \ gone
      /\ c \in Sources(h)
      /\ Arguments(h) = Arguments(g) /\ \A v \in Arguments(g) : h.value[v] = g.value[v]
      /\ \A q \in Live(h) : q # c => Rerouted(g.value[q], h.value[q], o, c)
      /\ \/ /\ t[c] = t[o]
            /\ c \in Live(h) => Rerouted(g.value[c], h.value[c], o, c)
         \/ /\ c \in Live(h)
            /\ \A q \in Live(h) : c \notin Operands(g, q)
            /\ c \notin Operands(h, c)
            /\ Apply(h.value[c], In(h, t, c)).dims = t[o].dims
  BY DEF TakesOver
<1>2. Fits(g, t) /\ Typed(g, t) /\ AllAt(p, g) /\ Filters(g) /\ Returning(g)
  BY DEF Settled
<1>3. FitsBut(h, u, c) /\ (Computes(g, t, h, o, c) => Fits(h, u))
  BY SettledFacts, HandoverFits
<1>4. /\ Live(g) \subseteq DOMAIN g.value
      /\ Live(g) \cap Arguments(g) = {} /\ Arguments(g) \subseteq DOMAIN g.value
      /\ Sources(g) = Live(g) \cup Arguments(g)
      /\ Sources(h) = Live(h) \cup Arguments(g)
      /\ \A q \in Live(h) : Operands(h, q) \subseteq Sources(h)
  BY <1>1 DEF Sound, Listed, Sources, Arguments, ReadsSources
<1>5. /\ u[c] = t[o]
      /\ \A v \in gone : u[v] = Undefined
      /\ \A v \in DOMAIN g.value : v \notin gone /\ v # c => u[v] = t[v]
      /\ c \notin gone
  BY <1>1, <1>4 DEF Handover
<1> HIDE DEF u
<1>6. Typed(h, u)
  <2>1. ASSUME NEW v \in Sources(h), IsStatic(h.value[v].type)
        PROVE  u[v].dims = h.value[v].type.dims
    <3>1. CASE v = c
      BY <1>5, <2>1, <3>1
    <3>2. CASE v # c
      <4>1. v \in Sources(g) /\ u[v] = t[v]
        BY <1>1, <1>4, <1>5, <3>2
      <4>2. h.value[v].type = g.value[v].type
        BY <1>1, <1>4, <3>2 DEF Rerouted
      <4>3. QED
        BY <1>2, <2>1, <4>1, <4>2 DEF Typed
    <3>3. QED
      BY <3>1, <3>2
  <2>2. QED
    BY <2>1 DEF Typed
<1>7. AllAt(p, h)
  <2>1. ASSUME NEW q \in Live(h) PROVE At(p, h.value[q])
    <3>1. CASE q = c
      BY <3>1
    <3>2. CASE q # c
      <4>1. At(p, g.value[q]) /\ Rerouted(g.value[q], h.value[q], o, c)
        BY <1>1, <1>2, <3>2 DEF AllAt
      <4>2. QED
        BY <4>1 DEF At, Rerouted
    <3>3. QED
      BY <3>1, <3>2
  <2>2. QED
    BY <2>1 DEF AllAt
<1>8. Filters(h)
  <2>1. ASSUME NEW q \in Live(h), h.value[q].mnemonic = "convolution",
               Rerouted(g.value[q], h.value[q], o, c)
        PROVE  IsWeight(h, h.value[q].operands[2])
    <3> DEFINE v == g.value[q].operands[2]
               w == h.value[q].operands[2]
    <3>1. q \in Live(g) /\ g.value[q].mnemonic = "convolution"
      BY <1>1, <2>1 DEF Rerouted
    <3>2. IsWeight(g, v)
      BY <1>2, <3>1 DEF Filters
    <3>3. Arity("convolution") = 2
      BY DEF Arity, Binary
    <3>4. 2 \in DOMAIN g.value[q].operands /\ v \in Operands(g, q)
          /\ Formed(g.value[q])
      BY <3>1, <3>3, OperandFacts
    <3>5. w = IF v = o THEN c ELSE v
      BY <2>1, <3>4, ReroutedIsAlike
    <3>6. w \in Operands(h, q)
      BY <2>1, <1>1, <3>3, OperandFacts
    <3>7. w \in Sources(h)
      BY <1>4, <3>6
    <3>8. v \in DOMAIN g.value
      BY <3>1, <3>4, SoundDomains, OperandFacts
    <3> HIDE DEF v, w
    <3>9. CASE v = o
      <4>1. g.value[o].mnemonic = "constant"
        BY <1>1, <1>4, <3>2, <3>8, <3>9 DEF IsWeight, Is, Arguments
      <4>2. QED
        BY <3>5, <3>9, <4>1 DEF w
    <3>10. CASE v # o
      <4>1. w = v
        BY <3>5, <3>10
      <4>2. CASE g.value[v].mnemonic = "arg"
        <5>1. v \in Arguments(g)
          BY <3>8, <4>2 DEF Arguments
        <5>2. h.value[w].mnemonic = "arg"
          BY <1>1, <4>1, <4>2, <5>1
        <5>3. QED
          BY <5>2 DEF IsWeight, w
      <4>3. CASE Is(g, v, "constant")
        <5>1. v \in Live(g) /\ v \notin Arguments(g) /\ g.value[v].mnemonic = "constant"
          BY <1>4, <4>3 DEF Is
        <5>2. v \in Live(h)
          BY <1>4, <3>7, <4>1, <5>1
        <5>3. Rerouted(g.value[v], h.value[v], o, c)
          BY <1>1, <3>4, <5>2
        <5>4. h.value[w].mnemonic = "constant" /\ w \in Live(h)
          BY <4>1, <5>1, <5>2, <5>3 DEF Rerouted
        <5>5. QED
          BY <5>4 DEF IsWeight, Is, w
      <4>4. QED
        BY <3>2, <4>2, <4>3 DEF IsWeight
    <3>11. QED
      BY <3>9, <3>10
  <2>2. QED
    BY <2>1 DEF Filters
<1>9. /\ DOMAIN h.returns = DOMAIN g.returns
      /\ \A k \in DOMAIN g.returns :
           /\ g.returns[k] \in DOMAIN g.value
           /\ h.returns[k] = IF g.returns[k] = o THEN c ELSE g.returns[k]
  BY <1>2 DEF Renamed, Returning
<1>10. c \in DOMAIN g.value
  BY <1>1, SoundDomains
<1>11. Returning(h)
  BY <1>1, <1>9, <1>10 DEF Returning
<1>12. ASSUME NEW k \in DOMAIN g.returns, g.returns[k] \notin gone \ {o},
              g.returns[k] # c \/ t[c] = t[o]
       PROVE  u[h.returns[k]] = t[g.returns[k]]
  <2>1. CASE g.returns[k] = o
    BY <1>5, <1>9, <2>1
  <2>2. CASE g.returns[k] # o /\ g.returns[k] = c
    BY <1>5, <1>9, <1>12, <2>2
  <2>3. CASE g.returns[k] # o /\ g.returns[k] # c
    BY <1>5, <1>9, <1>12, <2>3
  <2>4. QED
    BY <2>1, <2>2, <2>3
<1>13. SettledBut(p, h, u, c) /\ (Computes(g, t, h, o, c) => Settled(p, h, u))
  BY <1>3, <1>6, <1>7, <1>8, <1>11 DEF Settled, SettledBut
<1>14. QED
  BY <1>9, <1>12, <1>13 DEF u

\* There are tensors for h that leave all of the returned ones as they are in t.
Carries(p, g, t, h) == \E u : Settled(p, h, u) /\ Kept(g, t, h, u)

\* A result gives way to a value with the same tensor.
LEMMA ReplacedSettled ==
  ASSUME NEW g, Sound(g), NEW p, NEW t, Settled(p, g, t), NEW o \in Live(g),
         NEW c \in Sources(g), c # o, t[c] = t[o],
         g.value[o].mnemonic # "constant" \/ IsWeight(g, c)
  PROVE  Carries(p, g, t, Replaced(g, o, c))
<1> DEFINE h == Replaced(g, o, c)
           u == Handover(g, t, o, c, {o})
<1>1. /\ Sound(h)
      /\ Live(h) = Live(g) \ {o}
      /\ DOMAIN h.value = DOMAIN g.value
      /\ h.returns = Renamed(g.returns, o, c)
      /\ \A v \in Live(g) : Rerouted(g.value[v], h.value[v], o, c)
      /\ \A v \in DOMAIN g.value : v \notin Live(g) => h.value[v] = g.value[v]
  BY ReplacedFields
<1> HIDE DEF h
<1>2. /\ Live(g) \subseteq DOMAIN g.value
      /\ Live(g) \cap Arguments(g) = {} /\ Arguments(g) \subseteq DOMAIN g.value
      /\ Sources(g) = Live(g) \cup Arguments(g)
  BY DEF Sound, Listed, Sources, Arguments
<1>3. \A v \in DOMAIN g.value : /\ h.value[v].mnemonic = g.value[v].mnemonic
                                /\ h.value[v].type = g.value[v].type
  BY <1>1 DEF Rerouted
<1>4. /\ Arguments(h) = Arguments(g)
      /\ \A v \in Arguments(g) : h.value[v] = g.value[v]
  BY <1>1, <1>2, <1>3 DEF Arguments
<1>5. c \in Sources(h)
  BY <1>1, <1>2, <1>4 DEF Sources
<1>6. TakesOver(g, t, h, o, c, {o})
  BY <1>1, <1>4, <1>5 DEF TakesOver
<1>7. c \in Live(h) => At(p, h.value[c])
  <2>1. ASSUME c \in Live(h) PROVE At(p, h.value[c])
    <3>1. At(p, g.value[c]) /\ Rerouted(g.value[c], h.value[c], o, c)
      BY <1>1, <2>1, SettledFacts
    <3>2. QED
      BY <3>1 DEF At, Rerouted
  <2>2. QED
    BY <2>1
<1>8. IsStatic(h.value[c].type) => t[o].dims = h.value[c].type.dims
  <2>1. h.value[c].type = g.value[c].type
    BY <1>2, <1>3
  <2>2. QED
    BY <2>1 DEF Settled, Typed
<1>9. g.value[o].mnemonic # "constant" \/ IsWeight(h, c)
  <2>1. IsWeight(g, c) => IsWeight(h, c)
    BY <1>1, <1>2, <1>3 DEF IsWeight, Is
  <2>2. QED
    BY <2>1
<1>10. /\ Settled(p, h, u)
       /\ \A k \in DOMAIN g.returns :
            \/ g.returns[k] \in {o} \ {o}
            \/ g.returns[k] = c /\ t[c] # t[o]
            \/ u[h.returns[k]] = t[g.returns[k]]
  <2>1. Computes(g, t, h, o, c)
    BY <1>1 DEF Computes
  <2>2. /\ h.returns = Renamed(g.returns, o, c)
        /\ \A q \in Live(h) : Rerouted(g.value[q], h.value[q], o, c)
    BY <1>1
  <2> HIDE DEF u
  <2>3. /\ Computes(g, t, h, o, c) => Settled(p, h, u)
        /\ \A k \in DOMAIN g.returns :
             \/ g.returns[k] \in {o} \ {o}
             \/ g.returns[k] = c /\ t[c] # t[o]
             \/ u[h.returns[k]] = t[g.returns[k]]
    BY SMTT(30), <1>6, <1>7, <1>8, <1>9, <2>2, HandoverSettled DEF u
  <2>4. QED
    BY <2>1, <2>3
<1>11. Kept(g, t, h, u)
  BY <1>10 DEF Kept
<1>12. QED
  BY <1>10, <1>11 DEF Carries, h

\* The tensors with that of the operator that is added.
WithTensor(g, t, x) ==
  [v \in (DOMAIN g.value) \cup {Len(g.value) + 1} |->
     IF v = Len(g.value) + 1 THEN x ELSE t[v]]

\* An operator more.
LEMMA AddedSettled ==
  ASSUME NEW g, Sound(g), NEW p, NEW t, Settled(p, g, t),
         NEW op, Formed(op), op.mnemonic # "arg", op.mnemonic # "convolution",
         ToSet(op.operands) \subseteq Sources(g), At(p, op),
         NEW x \in Tensors, x = Apply(op, [k \in DOMAIN op.operands |-> t[op.operands[k]]]),
         IsStatic(op.type) => x.dims = op.type.dims
  PROVE  /\ Settled(p, AddOp(g, op), WithTensor(g, t, x))
         /\ Kept(g, t, AddOp(g, op), WithTensor(g, t, x))
         /\ WithTensor(g, t, x)[Len(g.value) + 1] = x
         /\ \A v \in DOMAIN g.value : WithTensor(g, t, x)[v] = t[v]
<1> DEFINE h == AddOp(g, op)
           new == Len(g.value) + 1
           u == WithTensor(g, t, x)
<1>1. /\ Sound(h)
      /\ Arguments(h) = Arguments(g)
      /\ Sources(h) = Sources(g) \cup {new}
      /\ h.returns = g.returns
  BY AddOpSound, EditedReturns
<1>2. /\ new \notin DOMAIN g.value
      /\ DOMAIN h.value = (DOMAIN g.value) \cup {new}
      /\ \A v \in DOMAIN g.value : h.value[v] = g.value[v]
      /\ h.value[new] = op
      /\ Live(h) = Live(g) \cup {new}
  <2>1. Added(g, op, h, new)
    BY AddOpEntries
  <2> HIDE DEF h, new
  <2>2. QED
    BY <2>1 DEF Added
<1> HIDE DEF h, new
<1>3. /\ DOMAIN u = DOMAIN h.value
      /\ u = [v \in DOMAIN h.value |-> u[v]]
      /\ u[new] = x /\ \A v \in DOMAIN g.value : u[v] = t[v]
  <2>1. u = [v \in (DOMAIN g.value) \cup {new} |-> IF v = new THEN x ELSE t[v]]
    BY Zenon DEF WithTensor, new
  <2>2. QED
    BY <1>2, <2>1
<1> HIDE DEF u
<1>4. Fits(g, t) /\ Typed(g, t) /\ AllAt(p, g) /\ Filters(g) /\ Returning(g)
  BY DEF Settled
<1>5. /\ t \in [DOMAIN g.value -> Outcomes]
      /\ \A v \in Sources(g) : t[v] \in Tensors
      /\ \A v \in DOMAIN g.value : v \notin Sources(g) => t[v] = Undefined
      /\ \A v \in Arguments(g) : t[v] = ArgTensor(v, g.value[v].type.dims)
      /\ \A q \in Live(g) : t[q] = Apply(g.value[q], In(g, t, q))
  BY <1>4 DEF Fits
<1>6. /\ Sources(g) \subseteq DOMAIN g.value
      /\ Live(g) \subseteq DOMAIN g.value /\ Arguments(g) \subseteq DOMAIN g.value
      /\ \A q \in Live(g) : Operands(g, q) \subseteq DOMAIN g.value
  BY SoundDomains DEF Sound, Listed, Arguments, ReadsSources
<1>7. \A v \in Sources(h) : u[v] \in Tensors
  BY <1>1, <1>3, <1>5, <1>6
<1>8. \A v \in DOMAIN h.value : v \notin Sources(h) => u[v] = Undefined
  BY <1>1, <1>2, <1>3, <1>5
<1>9. u \in [DOMAIN h.value -> Outcomes]
  <2>1. \A v \in DOMAIN h.value : u[v] \in Outcomes
    BY <1>7, <1>8, TensorFacts, UndefinedFacts
  <2>2. QED
    BY <1>3, <2>1
<1>10. \A v \in Arguments(h) : u[v] = ArgTensor(v, h.value[v].type.dims)
  BY <1>1, <1>2, <1>3, <1>5, <1>6
<1>11. ASSUME NEW q \in Live(h) PROVE u[q] = Apply(h.value[q], In(h, u, q))
  <2>1. CASE q = new
    <3>1. \A k \in DOMAIN op.operands : op.operands[k] \in DOMAIN g.value
      BY <1>6 DEF ToSet
    <3>2. In(h, u, q) = [k \in DOMAIN op.operands |-> t[op.operands[k]]]
      BY <1>2, <1>3, <2>1, <3>1 DEF In
    <3>3. QED
      BY <1>2, <1>3, <2>1, <3>2
  <2>2. CASE q # new
    <3>1. q \in Live(g) /\ h.value[q] = g.value[q] /\ u[q] = t[q]
      BY <1>2, <1>3, <1>6, <2>2
    <3>2. \A k \in DOMAIN g.value[q].operands :
            u[g.value[q].operands[k]] = t[g.value[q].operands[k]]
      BY <1>3, <1>6, <3>1 DEF Operands, ToSet
    <3>3. In(h, u, q) = In(g, t, q)
      BY <3>1, <3>2 DEF In
    <3>4. QED
      BY <1>5, <3>1, <3>3
  <2>3. QED
    BY <2>1, <2>2
<1>12. Fits(h, u)
  BY <1>7, <1>8, <1>9, <1>10, <1>11 DEF Fits
<1>13. Typed(h, u)
  BY <1>1, <1>2, <1>3, <1>4, <1>6 DEF Typed
<1>14. AllAt(p, h)
  BY <1>2, <1>4, <1>6 DEF AllAt
<1>15. Filters(h)
  <2>1. ASSUME NEW q \in Live(h), h.value[q].mnemonic = "convolution"
        PROVE  IsWeight(h, h.value[q].operands[2])
    <3>1. q \in Live(g) /\ h.value[q] = g.value[q]
      BY <1>2, <1>6, <2>1
    <3> DEFINE v == g.value[q].operands[2]
    <3>2. IsWeight(g, v)
      BY <1>4, <2>1, <3>1 DEF Filters
    <3>3. v \in DOMAIN g.value
      <4>1. Arity("convolution") = 2
        BY DEF Arity, Binary
      <4>2. v \in Operands(g, q)
        BY <2>1, <3>1, <4>1, OperandFacts
      <4>3. QED
        BY <1>6, <3>1, <4>2
    <3> HIDE DEF v
    <3>4. IsWeight(h, v)
      BY <1>2, <3>2, <3>3 DEF IsWeight, Is
    <3>5. QED
      BY <3>1, <3>4 DEF v
  <2>2. QED
    BY <2>1 DEF Filters
<1>16. Returning(h)
  BY <1>1, <1>2, <1>4 DEF Returning
<1>17. Kept(g, t, h, u)
  BY <1>1, <1>3, <1>4 DEF Kept, Returning
<1>18. Settled(p, h, u)
  BY <1>12, <1>13, <1>14, <1>15, <1>16 DEF Settled
<1>19. QED
  BY <1>3, <1>17, <1>18 DEF h, new, u

\* A new operator takes the place of one that computed the same.
LEMMA AddThenReplaceSettled ==
  ASSUME NEW g, Sound(g), NEW p, NEW t, Settled(p, g, t), NEW o \in Live(g),
         g.value[o].mnemonic # "constant",
         NEW op, Formed(op), op.mnemonic # "arg", op.mnemonic # "convolution",
         ToSet(op.operands) \subseteq Sources(g), At(p, op),
         t[o] = Apply(op, [k \in DOMAIN op.operands |-> t[op.operands[k]]]),
         IsStatic(op.type) => t[o].dims = op.type.dims
  PROVE  Carries(p, g, t, Replaced(AddOp(g, op), o, Newest(AddOp(g, op))))
<1> DEFINE k == AddOp(g, op)
           new == Len(g.value) + 1
           x == t[o]
           u == WithTensor(g, t, x)
<1>1. t[o] \in Tensors
  BY SettledFacts DEF Sources
<1>2. Settled(p, k, u) /\ Kept(g, t, k, u) /\ u[new] = x
      /\ \A v \in DOMAIN g.value : u[v] = t[v]
  <2>1. /\ x \in Tensors /\ x = Apply(op, [i \in DOMAIN op.operands |-> t[op.operands[i]]])
        /\ IsStatic(op.type) => x.dims = op.type.dims
    BY <1>1
  <2> HIDE DEF x
  <2>2. QED
    BY <2>1, AddedSettled
<1>3. /\ Sound(k)
      /\ Sources(k) = Sources(g) \cup {new}
      /\ k.returns = g.returns
  BY AddOpSound, EditedReturns
<1>4. /\ new \notin DOMAIN g.value
      /\ \A v \in DOMAIN g.value : k.value[v] = g.value[v]
      /\ Live(k) = Live(g) \cup {new}
      /\ Newest(k) = new
  <2>1. Added(g, op, k, new)
    BY AddOpEntries
  <2> HIDE DEF k, new
  <2>2. QED
    BY <2>1 DEF Added
<1> HIDE DEF k, new, u
<1>5. o \in DOMAIN g.value
  BY OperandFacts
<1>6. /\ o \in Live(k) /\ new \in Sources(k) /\ new # o /\ u[new] = u[o]
      /\ k.value[o].mnemonic # "constant"
  BY <1>2, <1>3, <1>4, <1>5
<1>7. Carries(p, k, u, Replaced(k, o, new))
  BY <1>2, <1>3, <1>6, ReplacedSettled
<1>8. PICK w : Settled(p, Replaced(k, o, new), w) /\ Kept(k, u, Replaced(k, o, new), w)
  BY <1>7 DEF Carries
<1>9. Kept(g, t, Replaced(k, o, new), w)
  BY <1>2, <1>3, <1>8 DEF Kept
<1>10. Carries(p, g, t, Replaced(k, o, new))
  BY <1>8, <1>9 DEF Carries
<1>11. QED
  BY <1>4, <1>10 DEF k

\* An operator that nobody reads and that is not returned is erased.
LEMMA ErasedSettled ==
  ASSUME NEW g, Sound(g), NEW p, NEW t, Settled(p, g, t), NEW o \in Live(g), IsDead(g, o)
  PROVE  Carries(p, g, t, EraseOp(g, o))
<1> DEFINE h == EraseOp(g, o)
           u == [v \in DOMAIN g.value |-> IF v = o THEN Undefined ELSE t[v]]
<1>1. \A q \in Live(g) : o \notin Operands(g, q)
  BY OperandFacts DEF Sound, UsersMirror, IsDead
<1>2. /\ Live(h) = Live(g) \ {o}
      /\ h.value = g.value
      /\ h.returns = g.returns
  BY <1>1, EraseOpSound, EditedReturns
<1> HIDE DEF h
<1>3. /\ DOMAIN u = DOMAIN g.value
      /\ u = [v \in DOMAIN g.value |-> u[v]]
      /\ \A v \in DOMAIN g.value : u[v] = IF v = o THEN Undefined ELSE t[v]
  OBVIOUS
<1> HIDE DEF u
<1>4. Fits(g, t) /\ Typed(g, t) /\ AllAt(p, g) /\ Filters(g) /\ Returning(g)
  BY DEF Settled
<1>5. /\ t \in [DOMAIN g.value -> Outcomes]
      /\ \A v \in Sources(g) : t[v] \in Tensors
      /\ \A v \in DOMAIN g.value : v \notin Sources(g) => t[v] = Undefined
      /\ \A v \in Arguments(g) : t[v] = ArgTensor(v, g.value[v].type.dims)
      /\ \A q \in Live(g) : t[q] = Apply(g.value[q], In(g, t, q))
  BY <1>4 DEF Fits
<1>6. /\ Sources(g) \subseteq DOMAIN g.value
      /\ Live(g) \subseteq DOMAIN g.value /\ Arguments(g) \subseteq DOMAIN g.value
      /\ Live(g) \cap Arguments(g) = {}
      /\ \A q \in Live(g) : Operands(g, q) \subseteq DOMAIN g.value
  BY SoundDomains DEF Sound, Listed, Arguments, ReadsSources
<1>7. Arguments(h) = Arguments(g) /\ Sources(h) = Sources(g) \ {o}
  BY <1>2, <1>6 DEF Sources, Arguments
<1>8. \A v \in Sources(h) : u[v] \in Tensors
  BY <1>3, <1>5, <1>6, <1>7
<1>9. \A v \in DOMAIN h.value : v \notin Sources(h) => u[v] = Undefined
  BY <1>2, <1>3, <1>5, <1>7
<1>10. u \in [DOMAIN h.value -> Outcomes]
  <2>1. \A v \in DOMAIN h.value : u[v] \in Outcomes
    BY <1>8, <1>9, TensorFacts, UndefinedFacts
  <2>2. QED
    BY <1>2, <1>3, <2>1
<1>11. \A v \in Arguments(h) : u[v] = ArgTensor(v, h.value[v].type.dims)
  BY <1>2, <1>3, <1>5, <1>6, <1>7
<1>12. ASSUME NEW q \in Live(h) PROVE u[q] = Apply(h.value[q], In(h, u, q))
  <2>1. q \in Live(g) /\ q # o /\ u[q] = t[q]
    BY <1>2, <1>3, <1>6
  <2>2. \A k \in DOMAIN g.value[q].operands :
          u[g.value[q].operands[k]] = t[g.value[q].operands[k]]
    BY <1>1, <1>3, <1>6, <2>1 DEF Operands, ToSet
  <2>3. In(h, u, q) = In(g, t, q)
    BY <1>2, <2>2 DEF In
  <2>4. QED
    BY <1>2, <1>5, <2>1, <2>3
<1>13. Fits(h, u)
  BY <1>8, <1>9, <1>10, <1>11, <1>12 DEF Fits
<1>14. Typed(h, u)
  BY <1>2, <1>3, <1>4, <1>6, <1>7 DEF Typed
<1>15. AllAt(p, h)
  BY <1>2, <1>4 DEF AllAt
<1>16. Filters(h)
  <2>1. ASSUME NEW q \in Live(h), h.value[q].mnemonic = "convolution"
        PROVE  IsWeight(h, h.value[q].operands[2])
    <3>1. q \in Live(g) /\ g.value[q].mnemonic = "convolution"
      BY <1>2, <2>1
    <3> DEFINE v == g.value[q].operands[2]
    <3>2. IsWeight(g, v)
      BY <1>4, <3>1 DEF Filters
    <3>3. v # o
      <4>1. Arity("convolution") = 2
        BY DEF Arity, Binary
      <4>2. v \in Operands(g, q)
        BY <3>1, <4>1, OperandFacts
      <4>3. QED
        BY <1>1, <3>1, <4>2
    <3> HIDE DEF v
    <3>4. IsWeight(h, v)
      BY <1>2, <3>2, <3>3 DEF IsWeight, Is
    <3>5. QED
      BY <1>2, <3>4 DEF v
  <2>2. QED
    BY <2>1 DEF Filters
<1>17. Returning(h)
  BY <1>2, <1>4 DEF Returning
<1>18. Kept(g, t, h, u)
  <2>1. \A k \in DOMAIN g.returns : g.returns[k] \in DOMAIN g.value /\ g.returns[k] # o
    BY <1>4 DEF Returning, IsDead, IsReturned, ToSet
  <2>2. QED
    BY <1>2, <1>3, <2>1 DEF Kept
<1>19. Settled(p, h, u)
  BY <1>13, <1>14, <1>15, <1>16, <1>17 DEF Settled
<1>20. QED
  BY <1>18, <1>19 DEF Carries, h

\* Edits that Apply does not see, types among them.
LEMMA RetouchedSettled ==
  ASSUME NEW g, Sound(g), NEW p, NEW q, NEW t, Settled(p, g, t),
         NEW h, Retouched(g, h), h.returns = g.returns,
         \A v \in Arguments(g) : h.value[v].type = g.value[v].type,
         \A o \in Live(g) :
           /\ Alike(g.value[o], h.value[o])
           /\ At(q, h.value[o])
           /\ IsStatic(h.value[o].type) => t[o].dims = h.value[o].type.dims
  PROVE  Settled(q, h, t) /\ Kept(g, t, h, t)
<1>1. /\ DOMAIN h.value = DOMAIN g.value
      /\ \A v \in DOMAIN g.value :
           /\ h.value[v].mnemonic = g.value[v].mnemonic
           /\ h.value[v].operands = g.value[v].operands
  BY DEF Retouched
<1>2. /\ Live(h) = Live(g) /\ Arguments(h) = Arguments(g) /\ Sources(h) = Sources(g)
  BY RetouchedSound
<1>3. Fits(g, t) /\ Typed(g, t) /\ AllAt(p, g) /\ Filters(g) /\ Returning(g)
  BY DEF Settled
<1>4. /\ t \in [DOMAIN g.value -> Outcomes]
      /\ \A v \in Sources(g) : t[v] \in Tensors
      /\ \A v \in DOMAIN g.value : v \notin Sources(g) => t[v] = Undefined
      /\ \A v \in Arguments(g) : t[v] = ArgTensor(v, g.value[v].type.dims)
      /\ \A o \in Live(g) : t[o] = Apply(g.value[o], In(g, t, o))
  BY <1>3 DEF Fits
<1>5. ASSUME NEW o \in Live(g) PROVE t[o] = Apply(h.value[o], In(h, t, o))
  <2>1. o \in DOMAIN g.value
    BY OperandFacts
  <2>2. In(h, t, o) = In(g, t, o)
    BY <1>1, <2>1 DEF In
  <2>3. g.value[o].mnemonic \in Computed
    BY SettledFacts DEF AllWorkable, Workable
  <2>4. \A k \in 1 .. Arity(g.value[o].mnemonic) : In(g, t, o)[k] \in Tensors
    <3>1. \A k \in 1 .. Arity(g.value[o].mnemonic) :
            /\ In(g, t, o)[k] = t[g.value[o].operands[k]]
            /\ g.value[o].operands[k] \in Sources(g)
      BY InFacts, OperandFacts
    <3>2. QED
      BY <1>4, <3>1
  <2> DEFINE x == In(g, t, o)
  <2> HIDE DEF x
  <2>5. Apply(g.value[o], x) = Apply(h.value[o], x)
    BY <2>3, <2>4, AlikeApply DEF x
  <2>6. QED
    BY <1>4, <2>2, <2>5 DEF x
<1>6. Fits(h, t)
  BY <1>1, <1>2, <1>4, <1>5 DEF Fits
<1>7. Typed(h, t)
  BY <1>2, <1>3 DEF Typed, Sources
<1>8. AllAt(q, h)
  BY <1>2 DEF AllAt
<1>9. Filters(h)
  <2>1. ASSUME NEW o \in Live(h), h.value[o].mnemonic = "convolution"
        PROVE  IsWeight(h, h.value[o].operands[2])
    <3>1. o \in Live(g) /\ g.value[o].mnemonic = "convolution" /\ o \in DOMAIN g.value
      BY <1>1, <1>2, <2>1, OperandFacts
    <3> DEFINE v == g.value[o].operands[2]
    <3>2. IsWeight(g, v)
      BY <1>3, <3>1 DEF Filters
    <3>3. v \in DOMAIN g.value
      <4>1. Arity("convolution") = 2
        BY DEF Arity, Binary
      <4>2. v \in Operands(g, o)
        BY <3>1, <4>1, OperandFacts
      <4>3. QED
        BY <3>1, <4>2, OperandFacts, SoundDomains
    <3> HIDE DEF v
    <3>4. IsWeight(h, v)
      BY <1>1, <1>2, <3>2, <3>3 DEF IsWeight, Is
    <3>5. QED
      BY <1>1, <3>1, <3>4 DEF v
  <2>2. QED
    BY <2>1 DEF Filters
<1>10. Returning(h) /\ Kept(g, t, h, t)
  BY <1>1, <1>3 DEF Returning, Kept
<1>11. QED
  BY <1>6, <1>7, <1>8, <1>9, <1>10 DEF Settled

(***************************************************************************)
(* What the operators that the passes look for compute.                    *)
(***************************************************************************)
\* Operands are sources and have tensors.
LEMMA OperandTensors ==
  ASSUME NEW g, Sound(g), NEW p, NEW t, Settled(p, g, t), NEW o \in Live(g)
  PROVE  LET op == g.value[o] IN
         /\ t[o] \in Tensors
         /\ \A k \in 1 .. Arity(op.mnemonic) :
              /\ op.operands[k] \in Sources(g)
              /\ t[op.operands[k]] \in Tensors
              /\ In(g, t, o)[k] = t[op.operands[k]]
         /\ t[o] = Apply(op, In(g, t, o))
         /\ IsStatic(op.type) => t[o].dims = op.type.dims
<1> DEFINE op == g.value[o]
<1>1. /\ \A v \in Sources(g) : t[v] \in Tensors
      /\ t[o] = Apply(op, In(g, t, o))
      /\ o \in Sources(g)
  BY SettledFacts DEF Sources
<1>2. Typed(g, t)
  BY DEF Settled
<1>3. \A k \in 1 .. Arity(op.mnemonic) :
              /\ op.operands[k] \in Sources(g)
              /\ In(g, t, o)[k] = t[op.operands[k]]
  BY InFacts, OperandFacts
<1>4. IsStatic(op.type) => t[o].dims = op.type.dims
  BY <1>1, <1>2 DEF Typed
<1>5. QED
  BY <1>1, <1>3, <1>4

\* Sums, products and differences have the shape of both operands.
LEMMA BinaryTensor ==
  ASSUME NEW g, Sound(g), NEW p, NEW t, Settled(p, g, t), NEW o \in Live(g),
         g.value[o].mnemonic \in {"add", "multiply", "subtract"}
  PROVE  LET l == g.value[o].operands[1]
             r == g.value[o].operands[2]
             mn == g.value[o].mnemonic
         IN  /\ l \in Sources(g) /\ r \in Sources(g)
             /\ t[o] \in Tensors /\ t[l] \in Tensors /\ t[r] \in Tensors
             /\ t[o].dims = t[l].dims /\ t[o].dims = t[r].dims
             /\ t[o].at = Entrywise(mn, t[l].at, t[r].at)
             /\ \A i \in 1 .. 3 : t[o].at[i] = Calc(mn, t[l].at[i], t[r].at[i])
<1> DEFINE l == g.value[o].operands[1]
           r == g.value[o].operands[2]
           mn == g.value[o].mnemonic
           in == In(g, t, o)
           e == Entrywise(mn, in[1].at, in[2].at)
<1>1. Arity(mn) = 2 /\ 1 \in 1 .. 2 /\ 2 \in 1 .. 2
  BY DEF Arity, Binary
<1>2. /\ t[o] \in Tensors
      /\ l \in Sources(g) /\ r \in Sources(g) /\ t[l] \in Tensors /\ t[r] \in Tensors
      /\ in[1] = t[l] /\ in[2] = t[r]
      /\ t[o] = Apply(g.value[o], in)
  BY <1>1, OperandTensors
<1> HIDE DEF in, l, r
<1>3. t[o] = IF in[1].dims = in[2].dims THEN [dims |-> in[1].dims, at |-> e] ELSE Undefined
  BY <1>2, ApplyBinary
<1>4. /\ in[1].dims = in[2].dims
      /\ t[o] = [dims |-> in[1].dims, at |-> e]
  BY <1>2, <1>3, UndefinedFacts
<1>5. \A i \in 1 .. 3 : e[i] = Calc(mn, t[l].at[i], t[r].at[i])
  <2>1. t[l].at \in Entries /\ t[r].at \in Entries
    BY <1>2, TensorFacts
  <2>2. QED
    BY <1>2, <2>1, EntrywiseOfEntries
<1>6. e = Entrywise(mn, t[l].at, t[r].at)
  BY <1>2
<1> HIDE DEF e
<1>7. t[o].dims = in[1].dims /\ t[o].at = e
  BY <1>4
<1>8. QED
  BY <1>2, <1>4, <1>5, <1>6, <1>7 DEF l, r

\* A constant is a splat.
LEMMA ConstantTensor ==
  ASSUME NEW g, Sound(g), NEW p, NEW t, Settled(p, g, t), NEW c, Is(g, c, "constant")
  PROVE  /\ c \in Live(g)
         /\ g.value[c].data \in Int
         /\ t[c] \in Tensors
         /\ t[c] = Splat(g.value[c].type.dims, g.value[c].data)
         /\ \A i \in 1 .. 3 : t[c].at[i] = g.value[c].data % Modulus
<1>1. c \in Live(g) /\ g.value[c].mnemonic = "constant"
  BY DEF Is
<1>2. t[c] \in Tensors /\ t[c] = Apply(g.value[c], In(g, t, c)) /\ At(p, g.value[c])
  BY <1>1, OperandTensors, SettledFacts
<1>3. t[c] = Splat(g.value[c].type.dims, g.value[c].data)
  BY <1>1, <1>2, ApplyOthers
<1>4. g.value[c].data \in Int
  BY <1>2 DEF At
<1>5. QED
  BY <1>1, <1>2, <1>3, <1>4, SplatFacts

\* An unary operator has one operand.
LEMMA UnaryTensor ==
  ASSUME NEW g, Sound(g), NEW p, NEW t, Settled(p, g, t), NEW o \in Live(g),
         g.value[o].mnemonic \in {"negate", "transpose", "reshape", "broadcast_in_dim",
                                  "get_dimension_size"}
  PROVE  LET l == g.value[o].operands[1] IN
         /\ l \in Sources(g) /\ l \in Operands(g, o)
         /\ t[o] \in Tensors /\ t[l] \in Tensors
         /\ In(g, t, o)[1] = t[l]
         /\ t[o] = Apply(g.value[o], In(g, t, o))
<1>1. Arity(g.value[o].mnemonic) = 1 /\ 1 \in 1 .. 1
  BY DEF Arity, Binary
<1>2. QED
  BY <1>1, OperandTensors, OperandFacts

\* x + 0, x - 0, x * 1 and x * 0 are what pass_algebraic_simplify puts there.
LEMMA SimplifiedTensor ==
  ASSUME NEW g, Sound(g), NEW p, NEW t, Settled(p, g, t), NEW o \in Live(g),
         NEW v \in Simplified(g, o)
  PROVE  t[v] = t[o] /\ g.value[o].mnemonic # "constant"
<1> DEFINE mn == g.value[o].mnemonic
           l  == g.value[o].operands[1]
           r  == g.value[o].operands[2]
           unit == IF mn = "multiply" THEN 1 ELSE 0
<1>1. v \in IF mn \notin {"add", "multiply", "subtract"} THEN {}
            ELSE IF IsSplat(g, r, unit) THEN {l}
            ELSE IF mn # "subtract" /\ IsSplat(g, l, unit) THEN {r}
            ELSE IF mn = "multiply" /\ IsSplat(g, r, 0) THEN {r}
            ELSE IF mn = "multiply" /\ IsSplat(g, l, 0) THEN {l}
            ELSE {}
  BY Zenon DEF Simplified
<1>2. mn \in {"add", "multiply", "subtract"}
  BY <1>1
<1>3. /\ t[o] \in Tensors /\ t[l] \in Tensors /\ t[r] \in Tensors
      /\ t[o].dims = t[l].dims /\ t[o].dims = t[r].dims
      /\ \A i \in 1 .. 3 : t[o].at[i] = Calc(mn, t[l].at[i], t[r].at[i])
  BY <1>2, BinaryTensor
<1>4. \A c, n : IsSplat(g, c, n) => \A i \in 1 .. 3 : t[c].at[i] = n % Modulus
  BY ConstantTensor DEF IsSplat
<1> HIDE DEF l, r, mn
<1>5. \A i \in 1 .. 3 : /\ t[o].at[i] \in Residues /\ t[l].at[i] \in Residues
                        /\ t[r].at[i] \in Residues
  <2>1. t[o].at \in Entries /\ t[l].at \in Entries /\ t[r].at \in Entries
    BY <1>3, TensorFacts
  <2>2. \A i \in 1 .. 3 : i = 1 \/ i = 2 \/ i = 3
    OBVIOUS
  <2>3. QED
    BY <2>1, <2>2, EntryFacts
<1>6. SUFFICES ASSUME NEW w, w \in {l, r}, v = w,
                      \A i \in 1 .. 3 : Calc(mn, t[l].at[i], t[r].at[i]) = t[w].at[i]
               PROVE  t[v] = t[o]
  <2>0. 0 % Modulus = 0 /\ 1 % Modulus = 1
    BY DEF Modulus
  <2>1. CASE IsSplat(g, r, unit) /\ v = l
    <3>1. ASSUME NEW i \in 1 .. 3 PROVE Calc(mn, t[l].at[i], t[r].at[i]) = t[l].at[i]
      <4>1. t[r].at[i] = unit
        BY <1>4, <2>0, <2>1
      <4> DEFINE a == t[l].at[i]
      <4>2. a \in 0 .. 96
        BY <1>5 DEF Residues, Modulus
      <4> HIDE DEF a
      <4>3. Calc(mn, a, unit) = a
        BY <1>2, <4>2 DEF Calc, Modulus
      <4>4. QED
        BY <4>1, <4>3 DEF a
    <3>2. QED
      BY <1>2, <1>6, <2>1, <3>1 DEF mn
  <2>2. CASE mn # "subtract" /\ IsSplat(g, l, unit) /\ v = r
    <3>1. ASSUME NEW i \in 1 .. 3 PROVE Calc(mn, t[l].at[i], t[r].at[i]) = t[r].at[i]
      <4>1. t[l].at[i] = unit
        BY <1>4, <2>0, <2>2
      <4> DEFINE a == t[r].at[i]
      <4>2. a \in 0 .. 96
        BY <1>5 DEF Residues, Modulus
      <4> HIDE DEF a
      <4>3. Calc(mn, unit, a) = a
        BY <1>2, <2>2, <4>2 DEF Calc, Modulus
      <4>4. QED
        BY <4>1, <4>3 DEF a
    <3>2. QED
      BY <1>2, <1>6, <2>2, <3>1 DEF mn
  <2>3. CASE mn = "multiply" /\ IsSplat(g, r, 0) /\ v = r
    <3>1. ASSUME NEW i \in 1 .. 3 PROVE Calc(mn, t[l].at[i], t[r].at[i]) = t[r].at[i]
      <4>1. t[r].at[i] = 0
        BY <1>4, <2>0, <2>3
      <4> DEFINE a == t[l].at[i]
      <4>2. a \in 0 .. 96
        BY <1>5 DEF Residues, Modulus
      <4> HIDE DEF a
      <4>3. Calc(mn, a, 0) = 0
        BY <2>3, <4>2 DEF Calc, Modulus
      <4>4. QED
        BY <4>1, <4>3 DEF a
    <3>2. QED
      BY <1>2, <1>6, <2>3, <3>1 DEF mn
  <2>4. CASE mn = "multiply" /\ IsSplat(g, l, 0) /\ v = l
    <3>1. ASSUME NEW i \in 1 .. 3 PROVE Calc(mn, t[l].at[i], t[r].at[i]) = t[l].at[i]
      <4>1. t[l].at[i] = 0
        BY <1>4, <2>0, <2>4
      <4> DEFINE a == t[r].at[i]
      <4>2. a \in 0 .. 96
        BY <1>5 DEF Residues, Modulus
      <4> HIDE DEF a
      <4>3. Calc(mn, 0, a) = 0
        BY <2>4, <4>2 DEF Calc, Modulus
      <4>4. QED
        BY <4>1, <4>3 DEF a
    <3>2. QED
      BY <1>2, <1>6, <2>4, <3>1 DEF mn
  <2>5. QED
    BY <1>1, <2>1, <2>2, <2>3, <2>4
<1>7. t[w].at = t[o].at
  <2>1. t[w].at \in Entries /\ t[o].at \in Entries
    BY <1>3, <1>6, TensorFacts
  <2>2. 1 \in 1 .. 3 /\ 2 \in 1 .. 3 /\ 3 \in 1 .. 3
    OBVIOUS
  <2>3. QED
    BY <1>3, <1>6, <2>1, <2>2, EntryFacts
<1>8. QED
  BY <1>3, <1>6, <1>7, TensorFacts

\* A reshape or broadcast to the type of its operand changes nothing, nor does a
\* transpose by no rotation.
LEMMA IdentityTensor ==
  ASSUME NEW g, Sound(g), NEW p, NEW t, Settled(p, g, t), NEW o \in Live(g),
         NEW v \in Identity(g, o)
  PROVE  t[v] = t[o] /\ g.value[o].mnemonic # "constant"
<1> DEFINE op == g.value[o]
           in == In(g, t, o)
<1>1. /\ v = op.operands[1]
      /\ \/ op.mnemonic = "reshape" /\ g.value[v].type = op.type
         \/ op.mnemonic = "transpose" /\ op.attrs.permutation = 0
         \/ op.mnemonic = "broadcast_in_dim"
  BY Zenon DEF Identity
<1>2. /\ v \in Sources(g) /\ t[o] \in Tensors /\ t[v] \in Tensors
      /\ in[1] = t[v]
      /\ t[o] = Apply(op, in)
  BY <1>1, UnaryTensor
<1>3. At(p, op) /\ (IsStatic(g.value[v].type) => t[v].dims = g.value[v].type.dims)
  BY <1>2, SettledFacts DEF Settled, Typed
<1> HIDE DEF in, op
<1>4. CASE op.mnemonic = "reshape" /\ g.value[v].type = op.type
  <2>1. IsStatic(op.type)
    BY <1>3, <1>4 DEF At, Flexible, Elementwise, Binary
  <2>2. t[o] = [dims |-> op.type.dims, at |-> in[1].at]
    BY <1>2, <1>4, ApplyReshape
  <2>3. t[o].dims = t[v].dims /\ t[o].at = t[v].at
    BY <1>2, <1>3, <1>4, <2>1, <2>2
  <2>4. QED
    BY <1>2, <1>4, <2>3, TensorFacts DEF op
<1>5. CASE op.mnemonic = "transpose" /\ op.attrs.permutation = 0
  <2>1. t[o] = Transposed(t[v], 0)
    BY <1>2, <1>5, ApplyOthers
  <2>2. 0 \in Rotations
    BY DEF Rotations
  <2>3. QED
    BY <1>2, <1>5, <2>1, <2>2, TransposedFacts DEF op
<1>6. CASE op.mnemonic = "broadcast_in_dim"
  BY <1>2, <1>6, ApplyOthers DEF op
<1>7. QED
  BY <1>1, <1>4, <1>5, <1>6 DEF op

\* pass_algebraic_simplify and pass_identity_elim.
LEMMA SimplifySettled ==
  ASSUME NEW g, Sound(g), Acyclic(g), NEW p, NEW t, Settled(p, g, t), NEW o \in Live(g),
         NEW v \in Simplified(g, o) \cup Identity(g, o)
  PROVE  Carries(p, g, t, Replaced(g, o, v))
<1>1. v \in Operands(g, o)
  BY SimplifiedIsOperand, IdentityIsOperand
<1>2. v \in Sources(g)
  BY <1>1, OperandFacts
<1>3. PICK rank : Ranks(g, rank)
  BY DEF Acyclic
<1>4. v # o
  BY <1>1, <1>3, RankFacts
<1>5. t[v] = t[o] /\ g.value[o].mnemonic # "constant"
  BY SimplifiedTensor, IdentityTensor
<1>6. QED
  BY <1>2, <1>4, <1>5, ReplacedSettled

\* New constants.
LEMMA ConstantAt ==
  ASSUME NEW p, NEW type \in Types, IsStatic(type), NEW n \in Int
  PROVE  LET op == Op("constant", <<>>, type, n, NoAttrs) IN
         /\ At(p, op) /\ Formed(op)
         /\ op.mnemonic = "constant" /\ op.operands = <<>> /\ op.type = type
         /\ \A in : Apply(op, in) = Splat(type.dims, n)
<1> DEFINE op == Op("constant", <<>>, type, n, NoAttrs)
<1>1. /\ op.mnemonic = "constant" /\ op.operands = <<>> /\ op.type = type
      /\ op.data = n /\ op.attrs = NoAttrs
  BY DEF Op
<1>2. Formed(op)
  BY ConstantIsFormed
<1> HIDE DEF op
<1>3. NoAttrs.layout = "NCHW" /\ NoAttrs.input_layout = "NCHW"
  BY DEF NoAttrs
<1>4. At(p, op)
  BY <1>1, <1>3 DEF At, Computed
<1>5. \A in : Apply(op, in) = Splat(type.dims, n)
  BY <1>1, ApplyOthers
<1>6. QED
  BY <1>1, <1>2, <1>4, <1>5 DEF op

\* A splat constant in the place of an operator that computes it.
LEMMA FoldSettled ==
  ASSUME NEW g, Sound(g), NEW p, NEW t, Settled(p, g, t), NEW o \in Live(g),
         g.value[o].mnemonic # "constant", IsStatic(g.value[o].type),
         NEW n \in Int, t[o] = Splat(t[o].dims, n)
  PROVE  LET k == AddConstant(g, g.value[o].type, n) IN
         Carries(p, g, t, Replaced(k, o, Newest(k)))
<1> DEFINE type == g.value[o].type
           op == Op("constant", <<>>, type, n, NoAttrs)
<1>1. type \in Types
  BY OperandFacts DEF Formed
<1>2. /\ At(p, op) /\ Formed(op)
      /\ op.mnemonic = "constant" /\ op.operands = <<>> /\ op.type = type
      /\ \A in : Apply(op, in) = Splat(type.dims, n)
  BY <1>1, ConstantAt
<1>3. AddConstant(g, type, n) = AddOp(g, op)
  BY DEF AddConstant
<1>4. t[o].dims = type.dims
  BY OperandTensors
<1> HIDE DEF op, type
<1>5. t[o] = Apply(op, [k \in DOMAIN op.operands |-> t[op.operands[k]]])
  BY <1>2, <1>4
<1>6. ToSet(op.operands) = {}
  BY <1>2 DEF ToSet
<1>7. Carries(p, g, t, Replaced(AddOp(g, op), o, Newest(AddOp(g, op))))
  BY <1>2, <1>4, <1>5, <1>6, AddThenReplaceSettled
<1>8. QED
  BY <1>3, <1>7 DEF type

\* Residues may be taken before or after.
LEMMA ResidueArithmetic ==
  ASSUME NEW a \in Int, NEW b \in Int
  PROVE  /\ ((a % Modulus) + (b % Modulus)) % Modulus = (a + b) % Modulus
         /\ ((a % Modulus) - (b % Modulus)) % Modulus = (a - b) % Modulus
         /\ ((a % Modulus) * (b % Modulus)) % Modulus = (a * b) % Modulus
         /\ (0 - (a % Modulus)) % Modulus = (0 - a) % Modulus
<1>1. \A x, k \in Int : (x + 97 * k) % 97 = x % 97
  OBVIOUS
<1>2. \A x \in Int : \E k \in Int : x = (x % 97) + 97 * k /\ x % 97 \in Int
  OBVIOUS
<1>3. PICK j \in Int : a = (a % 97) + 97 * j /\ a % 97 \in Int
  BY <1>2
<1>4. PICK k \in Int : b = (b % 97) + 97 * k /\ b % 97 \in Int
  BY <1>2
<1> DEFINE r == a % 97
           s == b % 97
<1>5. r \in Int /\ s \in Int /\ a = r + 97 * j /\ b = s + 97 * k
  BY <1>3, <1>4
<1> HIDE DEF r, s
<1>6. (r + s) % 97 = (a + b) % 97
  <2>1. a + b = (r + s) + 97 * (j + k)
    BY <1>5
  <2>2. r + s \in Int /\ j + k \in Int
    BY <1>5
  <2>3. QED
    BY <1>1, <2>1, <2>2
<1>7. (r - s) % 97 = (a - b) % 97
  <2>1. a - b = (r - s) + 97 * (j - k)
    BY <1>5
  <2>2. r - s \in Int /\ j - k \in Int
    BY <1>5
  <2>3. QED
    BY <1>1, <2>1, <2>2
<1>8. (r * s) % 97 = (a * b) % 97
  <2> DEFINE m == ((r * k) + (j * s)) + (97 * (j * k))
  <2>1. a * b = (r * s) + (97 * m)
    BY <1>5
  <2>2. (r * s) \in Int /\ m \in Int
    BY <1>5
  <2> HIDE DEF m
  <2>3. QED
    BY <1>1, <2>1, <2>2
<1>9. (0 - r) % 97 = (0 - a) % 97
  <2>1. 0 - a = (0 - r) + 97 * (0 - j)
    BY <1>5
  <2>2. 0 - r \in Int /\ 0 - j \in Int
    BY <1>5
  <2>3. QED
    BY <1>1, <2>1, <2>2
<1>10. QED
  BY <1>6, <1>7, <1>8, <1>9 DEF Modulus, r, s

\* pass_shape_fold.
LEMMA ShapeFoldSettled ==
  ASSUME NEW g, Sound(g), NEW p, NEW t, Settled(p, g, t), NEW o \in Live(g),
         IsFoldableSize(g, o)
  PROVE  LET n == Extent(g.value[Input(g, o)].type.dims)
             k == AddConstant(g, g.value[o].type, n)
         IN  Carries(p, g, t, Replaced(k, o, Newest(k)))
<1> DEFINE v == g.value[o].operands[1]
           n == Extent(g.value[v].type.dims)
<1>1. g.value[o].mnemonic = "get_dimension_size" /\ IsStatic(g.value[v].type)
  BY DEF IsFoldableSize
<1>2. /\ v \in Sources(g) /\ t[o] \in Tensors /\ t[v] \in Tensors
      /\ t[o] = Apply(g.value[o], In(g, t, o)) /\ In(g, t, o)[1] = t[v]
  BY <1>1, UnaryTensor
<1>3. t[v].dims = g.value[v].type.dims
  BY <1>1, <1>2 DEF Settled, Typed
<1>4. t[o] = Splat(0, n)
  BY <1>1, <1>2, <1>3, ApplyOthers
<1>5. n \in Int
  BY <1>2, <1>3, TensorFacts DEF Extent, Rotations
<1>6. IsStatic(g.value[o].type)
  BY <1>1, SettledFacts DEF At, Flexible, Elementwise, Binary
<1> HIDE DEF n, v
<1>7. t[o] = Splat(t[o].dims, n)
  BY <1>4, <1>5, SplatFacts
<1>8. LET k == AddConstant(g, g.value[o].type, n) IN
      Carries(p, g, t, Replaced(k, o, Newest(k)))
  BY <1>1, <1>5, <1>6, <1>7, FoldSettled
<1>9. QED
  BY <1>8 DEF n, v, Input

\* What pass_constant_fold computes is what the operator computes of splats.
LEMMA FoldedTensor ==
  ASSUME NEW g, Sound(g), NEW p, NEW t, Settled(p, g, t), NEW o \in Live(g),
         IsConstantExpr(g, o)
  PROVE  /\ Folded(g, o) \in Int
         /\ t[o] = Splat(t[o].dims, Folded(g, o))
         /\ g.value[o].mnemonic # "constant"
<1> DEFINE mn == g.value[o].mnemonic
           ops == g.value[o].operands
           n == Folded(g, o)
<1>1. mn \in Binary \cup {"negate"} /\ \A v \in Operands(g, o) : Is(g, v, "constant")
  BY DEF IsConstantExpr, IsFloatConstant
<1>2. mn \in {"add", "multiply", "subtract", "negate"} /\ mn # "constant"
  <2>1. mn \in Computed
    BY SettledFacts DEF At
  <2>2. QED
    BY <1>1, <2>1, ComputedFacts
<1>3. SUFFICES /\ n \in Int /\ t[o] \in Tensors
               /\ \A i \in 1 .. 3 : t[o].at[i] = n % Modulus
  <2>1. t[o] \in Outcomes /\ t[o].at \in Entries /\ t[o].dims \in Rotations
    BY <1>3, TensorFacts
  <2>2. 1 \in 1 .. 3 /\ 2 \in 1 .. 3 /\ 3 \in 1 .. 3
    OBVIOUS
  <2> HIDE DEF n
  <2>3. /\ Splat(t[o].dims, n) \in Outcomes
        /\ Splat(t[o].dims, n).dims = t[o].dims
        /\ Splat(t[o].dims, n).at \in Entries
        /\ \A i \in 1 .. 3 : Splat(t[o].dims, n).at[i] = n % Modulus
    BY <1>3, <2>1, SplatFacts, TensorFacts
  <2>4. Splat(t[o].dims, n).at = t[o].at
    BY <1>3, <2>1, <2>2, <2>3, EntryFacts
  <2>5. t[o] = Splat(t[o].dims, n)
    BY <2>1, <2>3, <2>4, TensorFacts
  <2>6. QED
    BY <1>2, <1>3, <2>5 DEF n, mn
<1>4. CASE mn # "negate"
  <2> DEFINE l == ops[1]
             r == ops[2]
             a == g.value[l].data
             b == g.value[r].data
  <2>1. mn \in {"add", "multiply", "subtract"}
    BY <1>2, <1>4
  <2>2. /\ t[o] \in Tensors
        /\ \A i \in 1 .. 3 : t[o].at[i] = Calc(mn, t[l].at[i], t[r].at[i])
    BY <2>1, BinaryTensor
  <2>3. Arity(mn) = 2 /\ 1 \in 1 .. 2 /\ 2 \in 1 .. 2
    BY <2>1 DEF Arity, Binary
  <2>4. l \in Operands(g, o) /\ r \in Operands(g, o) /\ Len(ops) = 2
    BY <2>3, OperandFacts
  <2>5. /\ a \in Int /\ b \in Int
        /\ \A i \in 1 .. 3 : t[l].at[i] = a % Modulus /\ t[r].at[i] = b % Modulus
    <3> HIDE DEF l, r, n, mn
    <3>1. Is(g, l, "constant") /\ Is(g, r, "constant")
      BY <1>1, <2>4
    <3>2. /\ g.value[l].data \in Int
          /\ \A i \in 1 .. 3 : t[l].at[i] = g.value[l].data % Modulus
      BY <3>1, ConstantTensor
    <3>3. /\ g.value[r].data \in Int
          /\ \A i \in 1 .. 3 : t[r].at[i] = g.value[r].data % Modulus
      BY <3>1, ConstantTensor
    <3>4. QED
      BY <3>2, <3>3
  <2>6. n = CASE mn = "add" -> a + b
              [] mn = "multiply" -> a * b
              [] mn = "subtract" -> a - b
              [] mn = "negate" -> 0 - a
    BY <2>4 DEF Folded
  <2> HIDE DEF a, b, l, r, n, mn
  <2>7. \A i \in 1 .. 3 : t[o].at[i] = Calc(mn, a % Modulus, b % Modulus)
    BY <2>2, <2>5
  <2>8. n \in Int /\ Calc(mn, a % Modulus, b % Modulus) = n % Modulus
    <3>1. CASE mn = "add"
      BY <2>5, <2>6, <3>1, ResidueArithmetic DEF Calc
    <3>2. CASE mn = "multiply"
      <4>1. n = a * b /\ Calc(mn, a % Modulus, b % Modulus) = ((a % Modulus) * (b % Modulus)) % Modulus
        BY <2>6, <3>2 DEF Calc
      <4>2. a * b \in Int
        BY <2>5
      <4>3. QED
        BY <2>5, <4>1, <4>2, ResidueArithmetic
    <3>3. CASE mn = "subtract"
      BY <2>5, <2>6, <3>3, ResidueArithmetic DEF Calc
    <3>4. QED
      BY <2>1, <3>1, <3>2, <3>3
  <2>9. QED
    BY <2>2, <2>7, <2>8
<1>5. CASE mn = "negate"
  <2> DEFINE l == ops[1]
             a == g.value[l].data
             e == Entrywise("subtract", <<0, 0, 0>>, t[l].at)
  <2>1. /\ l \in Operands(g, o)
        /\ t[o] \in Tensors /\ t[l] \in Tensors
        /\ In(g, t, o)[1] = t[l]
        /\ t[o] = Apply(g.value[o], In(g, t, o))
    BY <1>5, UnaryTensor
  <2>2. t[o].at = e
    BY <1>5, <2>1, ApplyNegate
  <2>3. /\ a \in Int
        /\ \A i \in 1 .. 3 : t[l].at[i] = a % Modulus
    BY <1>1, <2>1, ConstantTensor
  <2>4. n = 0 - a
    BY <1>5, Zenon DEF Folded
  <2> DEFINE z == <<0, 0, 0>>
  <2>5. z[1] = 0 /\ z[2] = 0 /\ z[3] = 0 /\ Integral(z) /\ e = Entrywise("subtract", z, t[l].at)
    BY DEF Integral
  <2>6. Integral(t[l].at)
    BY <2>1, TensorFacts, EntriesAreIntegral
  <2> HIDE DEF z, e, n, mn
  <2>7. \A i \in 1 .. 3 : e[i] = Calc("subtract", z[i], t[l].at[i])
    <3>1. \A i \in 1 .. 3 :
            Entrywise("subtract", z, t[l].at)[i] = Calc("subtract", z[i], t[l].at[i])
      <4> HIDE DEF l
      <4>1. "subtract" \in {"add", "multiply", "subtract"}
        OBVIOUS
      <4>2. QED
        BY <2>5, <2>6, <4>1, EntrywiseFacts
    <3>2. QED
      BY <2>5, <3>1
  <2>8. \A i \in 1 .. 3 : z[i] = 0
    <3>1. \A i \in 1 .. 3 : i = 1 \/ i = 2 \/ i = 3
      OBVIOUS
    <3>2. QED
      BY <2>5, <3>1
  <2> HIDE DEF a, l
  <2>9. \A i \in 1 .. 3 : e[i] = Calc("subtract", 0, a % Modulus)
    BY <2>3, <2>7, <2>8
  <2>10. Calc("subtract", 0, a % Modulus) = (0 - a) % Modulus
    <3>1. Calc("subtract", 0, a % Modulus) = (0 - (a % Modulus)) % Modulus
      BY DEF Calc
    <3>2. QED
      BY <2>3, <3>1, ResidueArithmetic
  <2>11. QED
    BY <2>1, <2>2, <2>3, <2>4, <2>9, <2>10
<1>6. QED
  BY <1>4, <1>5

\* pass_constant_fold.
LEMMA ConstantFoldSettled ==
  ASSUME NEW g, Sound(g), NEW p \in Nat, p > 3, NEW t, Settled(p, g, t), NEW o \in Live(g),
         IsConstantExpr(g, o)
  PROVE  LET k == AddConstant(g, g.value[o].type, Folded(g, o)) IN
         Carries(p, g, t, Replaced(k, o, Newest(k)))
<1>1. IsStatic(g.value[o].type)
  BY SettledFacts DEF At
<1>2. QED
  BY <1>1, FoldedTensor, FoldSettled

\* pass_cse: equivalent operators compute the same, before the fused pairs that
\* ops_equivalent cannot compare.
LEMMA CseSettled ==
  ASSUME NEW g, Sound(g), NEW p \in Nat, p < 8, NEW t, Settled(p, g, t),
         NEW keep \in Live(g), NEW dup \in Live(g), keep # dup,
         Equivalent(g.value[keep], g.value[dup])
  PROVE  Carries(p, g, t, Replaced(g, dup, keep))
<1> DEFINE a == g.value[keep]
           b == g.value[dup]
           in == In(g, t, keep)
<1>1. /\ a.mnemonic = b.mnemonic /\ a.type = b.type /\ a.operands = b.operands
      /\ a.data = b.data /\ a.attrs = b.attrs
  BY DEF Equivalent
<1>2. a.mnemonic \in Computed
  BY SettledFacts DEF At
<1>3. In(g, t, dup) = in
  BY <1>1 DEF In
<1>4. \A k \in 1 .. Arity(a.mnemonic) : in[k] \in Tensors
  BY OperandTensors
<1>5. t[keep] = Apply(a, in) /\ t[dup] = Apply(b, in)
  BY <1>3, SettledFacts
<1>6. Alike(a, b)
  BY <1>1, <1>2 DEF Alike
<1> HIDE DEF in
<1>7. t[keep] = t[dup]
  <2> HIDE DEF a, b
  <2>1. QED
    BY <1>2, <1>4, <1>5, <1>6, AlikeApply
<1>8. keep \in Sources(g)
  BY DEF Sources
<1>9. g.value[dup].mnemonic # "constant" \/ IsWeight(g, keep)
  BY <1>1 DEF IsWeight, Is
<1>10. QED
  BY <1>7, <1>8, <1>9, ReplacedSettled

\* What shape inference finds is the shape of the tensor.
LEMMA InferredDims ==
  ASSUME NEW g, Sound(g), NEW p, NEW t, Settled(p, g, t), NEW o \in Live(g),
         IsInferrable(g, o)
  PROVE  /\ g.value[o].mnemonic \in Flexible
         /\ Inferred(g, o).dims = t[o].dims
<1> DEFINE op == g.value[o]
           l == op.operands[1]
           last == Last(op.operands)
           in == g.value[l].type
           out == g.value[last].type
           shift == [in EXCEPT !.dims = (@ + op.attrs.permutation) % 3]
           some == [op.type EXCEPT !.dims = Dynamic]
           any == BroadcastShapes(in, out)
<1>1. Inferred(g, o) = CASE op.mnemonic \in Elementwise -> any
                         [] op.mnemonic = "transpose" /\ IsStatic(in) -> shift
                         [] OTHER -> some
  BY Zenon DEF Inferred
<1>2. IsStatic(Inferred(g, o)) /\ op.type \in Types
  BY OperandFacts DEF IsInferrable, Formed
<1>3. ~IsStatic(some)
  BY <1>2 DEF IsStatic, Types
<1>4. \A v \in Sources(g) : /\ g.value[v].type \in Types
                            /\ IsStatic(g.value[v].type) => t[v].dims = g.value[v].type.dims
  BY SoundDomains DEF Settled, Typed, Sound, AllFormed, Formed
<1> HIDE DEF some
<1>5. CASE op.mnemonic \in Elementwise
  <2>1. op.mnemonic \in {"add", "multiply", "subtract", "negate"}
    <3>1. op.mnemonic \in Computed
      BY SettledFacts DEF At
    <3>2. QED
      BY <1>5, <3>1, ComputedFacts
  <2>2. /\ l \in Sources(g) /\ last \in Sources(g)
        /\ t[o].dims = t[l].dims /\ t[o].dims = t[last].dims
    <3>1. op.operands \in Seq(Nat) /\ Len(op.operands) = Arity(op.mnemonic)
      BY OperandFacts DEF Formed
    <3>2. last = op.operands[Arity(op.mnemonic)]
      BY <3>1 DEF Last
    <3>3. CASE op.mnemonic = "negate"
      <4>1. last = l
        BY <3>2, <3>3 DEF Arity, Binary
      <4>2. /\ l \in Sources(g) /\ t[l] \in Tensors
            /\ In(g, t, o)[1] = t[l] /\ t[o] = Apply(op, In(g, t, o))
        BY <3>3, UnaryTensor
      <4>3. t[o].dims = t[l].dims
        BY <3>3, <4>2, ApplyNegate
      <4>4. QED
        BY <4>1, <4>2, <4>3
    <3>4. CASE op.mnemonic # "negate"
      <4>1. last = op.operands[2]
        BY <2>1, <3>2, <3>4 DEF Arity, Binary
      <4>2. QED
        BY <2>1, <3>4, <4>1, BinaryTensor
    <3>5. QED
      BY <3>3, <3>4
  <2>3. Inferred(g, o) = any
    <3>1. op.mnemonic # "transpose"
      BY <2>1
    <3> HIDE DEF any, shift, op
    <3>2. QED
      BY <1>1, <1>5, <3>1
  <2>4. any = IF IsStatic(in) THEN in ELSE [in EXCEPT !.dims = out.dims]
    BY DEF BroadcastShapes
  <2>5. in \in Types /\ out \in Types
    BY <1>4, <2>2
  <2>6. any.dims = IF IsStatic(in) THEN in.dims ELSE out.dims
    BY <2>4, <2>5 DEF Types
  <2>7. any.dims = t[o].dims
    <3>1. any.dims # Dynamic
      BY <1>2, <2>3 DEF IsStatic
    <3>2. (IsStatic(in) => t[l].dims = in.dims) /\ (IsStatic(out) => t[last].dims = out.dims)
      BY <1>4, <2>2
    <3> HIDE DEF any, in, out, l, last
    <3>3. QED
      BY <2>2, <2>6, <3>1, <3>2 DEF IsStatic
  <2>8. QED
    BY <1>5, <2>3, <2>7 DEF Flexible
<1>6. CASE op.mnemonic = "transpose" /\ IsStatic(in) /\ op.mnemonic \notin Elementwise
  <2>1. /\ l \in Sources(g) /\ t[l] \in Tensors
        /\ In(g, t, o)[1] = t[l] /\ t[o] = Apply(op, In(g, t, o))
    BY <1>6, UnaryTensor
  <2>2. t[o] = Transposed(t[l], op.attrs.permutation)
    BY <1>6, <2>1, ApplyOthers
  <2>3. op.attrs.permutation \in Rotations
    BY OperandFacts DEF Formed, WellAttributed
  <2>4. t[o].dims = (t[l].dims + op.attrs.permutation) % 3
    BY <2>1, <2>2, <2>3, TransposedFacts
  <2>5. shift.dims = (in.dims + op.attrs.permutation) % 3
    BY <1>4, <2>1 DEF Types
  <2>6. t[l].dims = in.dims
    BY <1>4, <1>6, <2>1
  <2>7. Inferred(g, o) = shift
    <3> HIDE DEF any, shift, op, in
    <3>1. QED
      BY <1>1, <1>6
  <2>8. QED
    BY <1>6, <2>4, <2>5, <2>6, <2>7 DEF Flexible
<1>7. QED
  BY <1>1, <1>2, <1>3, <1>5, <1>6

\* pass_shape_infer.
LEMMA ShapeInferSettled ==
  ASSUME NEW g, Sound(g), NEW p, NEW t, Settled(p, g, t), NEW o \in Live(g),
         IsInferrable(g, o)
  PROVE  Carries(p, g, t, [g EXCEPT !.value[o].type = Inferred(g, o)])
<1> DEFINE type == Inferred(g, o)
           q == [g.value[o] EXCEPT !.type = type]
           h == [g EXCEPT !.value = [g.value EXCEPT ![o] = q]]
<1>1. [g EXCEPT !.value[o].type = Inferred(g, o)] = h
  OBVIOUS
<1>2. /\ type \in Types /\ IsStatic(type)
      /\ type.dims = t[o].dims /\ g.value[o].mnemonic \in Flexible
  BY InferredIsType, InferredDims DEF IsInferrable
<1> HIDE DEF type
<1>3. Formed(g.value[o]) /\ o \in DOMAIN g.value
  BY OperandFacts
<1>4. /\ q.mnemonic = g.value[o].mnemonic /\ q.operands = g.value[o].operands
      /\ q.type = type /\ q.data = g.value[o].data
      /\ q.attrs = g.value[o].attrs
  BY <1>3 DEF Formed
<1>5. Formed(q)
  BY <1>2, <1>3, EditsAreFormed
<1>6. At(p, g.value[o])
  BY SettledFacts
<1> HIDE DEF q
<1>7. Alike(g.value[o], q) /\ At(p, q)
  <2>1. g.value[o].mnemonic \notin {"constant", "reshape"}
    BY <1>2 DEF Flexible, Elementwise, Binary
  <2>2. QED
    BY <1>2, <1>4, <1>6, <2>1 DEF Alike, At
<1>8. /\ Retouched(g, h) /\ h.returns = g.returns
      /\ \A v \in DOMAIN g.value : v # o => h.value[v] = g.value[v]
      /\ h.value[o] = q
  <2>1. /\ Retouched(g, h)
        /\ \A v \in DOMAIN g.value : v # o => h.value[v] = g.value[v]
    BY <1>3, <1>4, <1>5, RetouchedOne
  <2>2. h.returns = g.returns
    BY EditedReturns
  <2>3. h.value[o] = q
    <3>1. g = [value |-> g.value, ops |-> g.ops, users |-> g.users, returns |-> g.returns]
      BY DEF Sound, Tables
    <3>2. h.value = [g.value EXCEPT ![o] = q]
      BY <3>1
    <3>3. Table(g.value)
      BY DEF Sound, Tables
    <3>4. QED
      BY <1>3, <3>2, <3>3 DEF Table
  <2>4. QED
    BY <2>1, <2>2, <2>3
<1> HIDE DEF h
<1>9. \A v \in Arguments(g) : v \in DOMAIN g.value /\ v # o
  BY DEF Sound, Listed, Arguments
<1>10. ASSUME NEW u \in Live(g)
       PROVE  /\ Alike(g.value[u], h.value[u]) /\ At(p, h.value[u])
              /\ IsStatic(h.value[u].type) => t[u].dims = h.value[u].type.dims
  <2>1. CASE u = o
    BY <1>2, <1>4, <1>7, <1>8, <2>1
  <2>2. CASE u # o
    <3>1. h.value[u] = g.value[u]
      BY <1>8, <2>2, OperandFacts
    <3>2. At(p, g.value[u]) /\ (IsStatic(g.value[u].type) => t[u].dims = g.value[u].type.dims)
      BY SettledFacts, OperandTensors
    <3>3. Alike(g.value[u], g.value[u])
      BY DEF Alike
    <3>4. QED
      BY <3>1, <3>2, <3>3
  <2>3. QED
    BY <2>1, <2>2
<1>11. Settled(p, h, t) /\ Kept(g, t, h, t)
  BY <1>8, <1>9, <1>10, RetouchedSettled
<1>12. QED
  BY <1>1, <1>11 DEF Carries

\* q is p but for what neither Apply nor the stages of the pipeline look at.
Unseen(p, q) ==
  /\ q.mnemonic = p.mnemonic /\ q.operands = p.operands /\ q.type = p.type
  /\ q.data = p.data
  /\ q.attrs.permutation = p.attrs.permutation
  /\ q.attrs.layout = p.attrs.layout /\ q.attrs.input_layout = p.attrs.input_layout

\* Fusion groups and the mark of stage 6 are unseen.
LEMMA UnseenEdits ==
  ASSUME NEW op, Formed(op)
  PROVE  /\ \A id : Unseen(op, [op EXCEPT !.attrs.fusion_group = id])
         /\ \A legal : Unseen(op, [op EXCEPT !.legal = legal])
         /\ Unseen(op, op)
<1> DEFINE a == op.attrs
<1>1. /\ op = [mnemonic |-> op.mnemonic, operands |-> op.operands, type |-> op.type,
               data |-> op.data, attrs |-> op.attrs, legal |-> op.legal]
      /\ a = [permutation |-> a.permutation, fusion_group |-> a.fusion_group,
              layout |-> a.layout, input_layout |-> a.input_layout,
              fused_bn |-> a.fused_bn]
  BY DEF Formed, WellAttributed
<1>2. ASSUME NEW id PROVE Unseen(op, [op EXCEPT !.attrs.fusion_group = id])
  <2> DEFINE q == [op EXCEPT !.attrs.fusion_group = id]
             b == [a EXCEPT !.fusion_group = id]
  <2>1. q = [mnemonic |-> op.mnemonic, operands |-> op.operands, type |-> op.type,
             data |-> op.data, attrs |-> b, legal |-> op.legal]
    BY <1>1
  <2>2. /\ b.permutation = a.permutation /\ b.layout = a.layout
        /\ b.input_layout = a.input_layout
    BY <1>1
  <2> HIDE DEF q, b
  <2>3. QED
    BY <2>1, <2>2 DEF Unseen, q
<1>3. ASSUME NEW legal PROVE Unseen(op, [op EXCEPT !.legal = legal])
  <2> DEFINE q == [op EXCEPT !.legal = legal]
  <2>1. q = [mnemonic |-> op.mnemonic, operands |-> op.operands, type |-> op.type,
             data |-> op.data, attrs |-> op.attrs, legal |-> legal]
    BY <1>1
  <2> HIDE DEF q
  <2>2. QED
    BY <2>1 DEF Unseen, q
<1>4. QED
  BY <1>2, <1>3 DEF Unseen

\* pass_fusion_detect and stage6_legalize.
LEMMA UnseenSettled ==
  ASSUME NEW g, Sound(g), NEW p, NEW q, NEW t, Settled(p, g, t),
         \A o \in Live(g) : At(p, g.value[o]) => At(q, g.value[o]),
         NEW vs, vs = [v \in DOMAIN g.value |-> vs[v]],
         \A v \in DOMAIN g.value : Formed(vs[v]) /\ Unseen(g.value[v], vs[v])
  PROVE  Carries(q, g, t, [g EXCEPT !.value = vs])
<1> DEFINE h == [g EXCEPT !.value = vs]
<1>1. Retouched(g, h) /\ h.value = vs
  BY RetouchedAll DEF Unseen
<1>2. h.returns = g.returns
  BY EditedReturns
<1> HIDE DEF h
<1>3. \A v \in Arguments(g) : h.value[v].type = g.value[v].type
  BY <1>1 DEF Arguments, Unseen
<1>4. ASSUME NEW o \in Live(g)
      PROVE  /\ Alike(g.value[o], h.value[o]) /\ At(q, h.value[o])
             /\ IsStatic(h.value[o].type) => t[o].dims = h.value[o].type.dims
  <2>1. /\ o \in DOMAIN g.value /\ At(q, g.value[o])
        /\ IsStatic(g.value[o].type) => t[o].dims = g.value[o].type.dims
    BY OperandFacts, SettledFacts, OperandTensors
  <2> DEFINE a == g.value[o]
             b == vs[o]
  <2>2. Unseen(a, b) /\ h.value[o] = b
    BY <1>1, <2>1
  <2> HIDE DEF a, b
  <2>3. Alike(a, b) /\ (At(q, a) => At(q, b)) /\ a.type = b.type
    BY <2>2 DEF Unseen, Alike, At
  <2>4. QED
    BY <2>1, <2>2, <2>3 DEF a
<1>5. Settled(q, h, t) /\ Kept(g, t, h, t)
  BY <1>1, <1>2, <1>3, <1>4, RetouchedSettled
<1>6. QED
  BY <1>5 DEF Carries, h

\* New transposes.
LEMMA TransposeAt ==
  ASSUME NEW p, NEW x \in Nat, NEW type \in Types, IsStatic(type), NEW n \in Rotations
  PROVE  LET op == Op("transpose", <<x>>, type, 0, [NoAttrs EXCEPT !.permutation = n]) IN
         /\ Formed(op) /\ At(p, op)
         /\ op.mnemonic = "transpose" /\ op.type = type
         /\ ToSet(op.operands) = {x} /\ op.operands[1] = x /\ DOMAIN op.operands = {1}
         /\ \A in : Apply(op, in) = Transposed(in[1], n)
<1> DEFINE a == [NoAttrs EXCEPT !.permutation = n]
           xs == <<x>>
           op == Op("transpose", xs, type, 0, a)
<1>1. Formed(op) /\ op.mnemonic = "transpose" /\ ToSet(op.operands) = {x}
  BY TransposeIsFormed
<1>2. a.permutation = n /\ a.layout = "NCHW" /\ a.input_layout = "NCHW"
  BY DEF NoAttrs
<1>3. xs[1] = x /\ DOMAIN xs = {1}
  OBVIOUS
<1> HIDE DEF xs, a
<1>4. op.operands = xs /\ op.type = type /\ op.data = 0 /\ op.attrs = a
  BY DEF Op
<1> HIDE DEF op
<1>6. At(p, op)
  BY <1>1, <1>2, <1>4 DEF At, Computed
<1>7. \A in : Apply(op, in) = Transposed(in[1], n)
  BY <1>1, <1>2, <1>4, ApplyOthers
<1>8. QED
  BY <1>1, <1>3, <1>4, <1>6, <1>7 DEF op, xs, a

\* A transpose rotates its operand.
LEMMA TransposeTensor ==
  ASSUME NEW g, Sound(g), NEW p, NEW t, Settled(p, g, t), NEW o \in Live(g),
         g.value[o].mnemonic = "transpose"
  PROVE  /\ Input(g, o) \in Sources(g) /\ Input(g, o) \in Operands(g, o)
         /\ Input(g, o) \in Nat
         /\ t[Input(g, o)] \in Tensors /\ t[o] \in Tensors
         /\ Permutation(g, o) \in Rotations
         /\ t[o] = Transposed(t[Input(g, o)], Permutation(g, o))
<1> DEFINE v == Input(g, o)
           op == g.value[o]
           in == In(g, t, o)
<1>1. /\ v \in Sources(g) /\ v \in Operands(g, o)
      /\ t[v] \in Tensors /\ t[o] \in Tensors
      /\ in[1] = t[v] /\ t[o] = Apply(op, in)
  BY UnaryTensor DEF Input
<1>2. Permutation(g, o) \in Rotations
  BY OperandFacts DEF Formed, WellAttributed, Permutation
<1>3. v \in Nat
  BY <1>1, SoundDomains
<1> HIDE DEF in
<1>4. t[o] = Transposed(in[1], op.attrs.permutation)
  BY <1>1, ApplyOthers
<1>5. QED
  BY <1>1, <1>2, <1>3, <1>4 DEF Permutation

\* pass_transpose_elim: two transposes that undo each other, ...
LEMMA TransposePairSettled ==
  ASSUME NEW g, Sound(g), Acyclic(g), NEW p, NEW t, Settled(p, g, t), NEW o \in Live(g),
         IsTransposePair(g, o),
         (Permutation(g, Input(g, o)) + Permutation(g, o)) % 3 = 0
  PROVE  Carries(p, g, t, Replaced(g, o, Input(g, Input(g, o))))
<1> DEFINE u == Input(g, o)
           x == Input(g, u)
           m == Permutation(g, u)
           n == Permutation(g, o)
<1>1. /\ g.value[o].mnemonic = "transpose"
      /\ u \in Live(g) /\ g.value[u].mnemonic = "transpose"
  BY DEF IsTransposePair, Is
<1>2. /\ u \in Operands(g, o) /\ n \in Rotations
      /\ t[o] = Transposed(t[u], n)
  BY <1>1, TransposeTensor
<1>3. /\ x \in Sources(g) /\ x \in Operands(g, u) /\ t[x] \in Tensors /\ m \in Rotations
      /\ t[u] = Transposed(t[x], m)
  BY <1>1, TransposeTensor
<1> HIDE DEF u, m, n, x
<1>4. t[o] = Transposed(t[x], (m + n) % 3)
  BY <1>2, <1>3, TwoRotations
<1>5. (m + n) % 3 = 0 /\ 0 \in Rotations
  BY DEF m, n, u, Rotations
<1>6. t[o] = t[x]
  BY <1>3, <1>4, <1>5, TransposedFacts
<1>7. PICK rank : Ranks(g, rank)
  BY DEF Acyclic
<1>8. x # o
  <2>1. /\ rank[u] < rank[o] /\ rank[x] < rank[u]
        /\ rank[u] \in Nat /\ rank[o] \in Nat /\ rank[x] \in Nat
    BY <1>1, <1>2, <1>3, <1>7, RankFacts, OperandFacts DEF Sources
  <2>2. QED
    BY <2>1
<1>9. Carries(p, g, t, Replaced(g, o, x))
  BY <1>1, <1>3, <1>6, <1>8, ReplacedSettled
<1>10. QED
  BY <1>9 DEF x, u

\* ... and two others.
LEMMA TransposeMergeSettled ==
  ASSUME NEW g, Sound(g), NEW p \in Nat, p > 3, NEW t, Settled(p, g, t), NEW o \in Live(g),
         IsTransposePair(g, o)
  PROVE  LET composed == (Permutation(g, Input(g, o)) + Permutation(g, o)) % 3
             k == AddOp(g, Op("transpose", <<Input(g, Input(g, o))>>, g.value[o].type, 0,
                              [NoAttrs EXCEPT !.permutation = composed]))
         IN  Carries(p, g, t, Replaced(k, o, Newest(k)))
<1> DEFINE u == Input(g, o)
           x == Input(g, u)
           m == Permutation(g, u)
           n == Permutation(g, o)
           c == (m + n) % 3
           type == g.value[o].type
           op == Op("transpose", <<x>>, type, 0, [NoAttrs EXCEPT !.permutation = c])
<1>1. /\ g.value[o].mnemonic = "transpose"
      /\ u \in Live(g) /\ g.value[u].mnemonic = "transpose"
  BY DEF IsTransposePair, Is
<1>2. /\ n \in Rotations
      /\ t[o] = Transposed(t[u], n)
  BY <1>1, TransposeTensor
<1>3. /\ x \in Sources(g) /\ x \in Nat /\ t[x] \in Tensors /\ m \in Rotations
      /\ t[u] = Transposed(t[x], m)
  BY <1>1, TransposeTensor
<1>4. type \in Types /\ IsStatic(type) /\ t[o].dims = type.dims
  <2>1. IsStatic(type)
    BY SettledFacts DEF At
  <2>2. type \in Types
    BY OperandFacts DEF Formed
  <2>3. QED
    BY <2>1, <2>2, OperandTensors
<1> HIDE DEF u, m, n, x, type
<1>5. t[o] = Transposed(t[x], c)
  BY <1>2, <1>3, TwoRotations
<1>6. c \in Rotations
  BY <1>2, <1>3 DEF Rotations
<1> HIDE DEF c
<1>7. /\ Formed(op) /\ At(p, op)
      /\ op.mnemonic = "transpose" /\ op.type = type
      /\ ToSet(op.operands) = {x} /\ op.operands[1] = x /\ DOMAIN op.operands = {1}
      /\ \A in : Apply(op, in) = Transposed(in[1], c)
  BY SMTT(30), <1>3, <1>4, <1>6, TransposeAt
<1> HIDE DEF op
<1> DEFINE in == [k \in DOMAIN op.operands |-> t[op.operands[k]]]
<1>8. in[1] = t[x]
  BY <1>7
<1>9. t[o] = Apply(op, in)
  BY <1>5, <1>7, <1>8
<1> HIDE DEF in
<1>10. Carries(p, g, t, Replaced(AddOp(g, op), o, Newest(AddOp(g, op))))
  <2>0. t[o] = Apply(op, [k \in DOMAIN op.operands |-> t[op.operands[k]]])
    BY <1>9 DEF in
  <2>1. /\ op.mnemonic # "arg" /\ op.mnemonic # "convolution"
        /\ g.value[o].mnemonic # "constant"
        /\ ToSet(op.operands) \subseteq Sources(g)
        /\ IsStatic(op.type) => t[o].dims = op.type.dims
    BY <1>1, <1>3, <1>4, <1>7
  <2>2. QED
    BY <1>7, <2>0, <2>1, AddThenReplaceSettled
<1>11. QED
  BY <1>10 DEF op, type, c, n, m, x, u

\* The binary operators that pass_transpose_push makes.
Pushed(op, l, r, type) ==
  Op(op.mnemonic, <<l, r>>, type, 0, [op.attrs EXCEPT !.fusion_group = NoGroup])

StandsFor(p, op, l, r, type, q) ==
  /\ Formed(q) /\ At(p, q)
  /\ q.mnemonic = op.mnemonic /\ q.type = type
  /\ ToSet(q.operands) = {l, r}
  /\ q.operands[1] = l /\ q.operands[2] = r /\ DOMAIN q.operands = 1 .. 2

\* They are as the ones they stand for.
LEMMA BinaryAt ==
  ASSUME NEW p, NEW op, Formed(op), At(p, op), op.mnemonic \in Binary,
         NEW l \in Nat, NEW r \in Nat, NEW type \in Types, IsStatic(type)
  PROVE  StandsFor(p, op, l, r, type, Pushed(op, l, r, type))
<1> DEFINE mn == op.mnemonic
           a == op.attrs
           b == [a EXCEPT !.fusion_group = NoGroup]
           xs == <<l, r>>
           q == Op(mn, xs, type, 0, b)
<1>1. /\ WellAttributed(a) /\ mn \in Computed
      /\ p < 13 => a.layout = "NCHW"
      /\ p < 14 => a.input_layout = "NCHW"
  BY DEF Formed, At
<1>2. b.layout = a.layout /\ b.input_layout = a.input_layout
  BY <1>1 DEF WellAttributed
<1>3. xs[1] = l /\ xs[2] = r /\ DOMAIN xs = 1 .. 2
  OBVIOUS
<1> HIDE DEF mn
<1>4. Formed(q) /\ q.mnemonic = mn /\ ToSet(q.operands) = {l, r}
  BY SMTT(30), <1>1, BinaryIsFormed DEF mn
<1> HIDE DEF xs, b, a
<1>5. q.operands = xs /\ q.type = type /\ q.data = 0 /\ q.attrs = b
  BY DEF Op
<1> HIDE DEF q
<1>7. At(p, q)
  BY <1>1, <1>2, <1>4, <1>5 DEF At
<1>8. QED
  BY <1>3, <1>4, <1>5, <1>7 DEF q, xs, b, a, mn, Pushed, StandsFor

\* Operands turned by one permutation may be turned after the operator.
LEMMA PushedTensor ==
  ASSUME NEW g, Sound(g), NEW p \in Nat, p > 3, NEW t, Settled(p, g, t), NEW o \in Live(g),
         IsPushable(g, o)
  PROVE  LET op == g.value[o]
             l  == Input(g, op.operands[1])
             r  == Input(g, op.operands[2])
             n  == Permutation(g, op.operands[1])
             z  == [dims |-> t[l].dims, at |-> Entrywise(op.mnemonic, t[l].at, t[r].at)]
         IN  /\ op.mnemonic \in {"add", "multiply", "subtract"}
             /\ l \in Sources(g) /\ r \in Sources(g) /\ l \in Nat /\ r \in Nat
             /\ n \in Rotations
             /\ IsStatic(g.value[l].type) /\ g.value[l].type.dims = t[l].dims
             /\ t[l] \in Tensors /\ t[r] \in Tensors /\ t[l].dims = t[r].dims
             /\ z \in Tensors
             /\ t[o] = Transposed(z, n)
<1> DEFINE op == g.value[o]
           mn == op.mnemonic
           a == op.operands[1]
           b == op.operands[2]
           l == Input(g, a)
           r == Input(g, b)
           n == Permutation(g, a)
           z == [dims |-> t[l].dims, at |-> Entrywise(mn, t[l].at, t[r].at)]
<1>1. /\ mn \in Binary
      /\ \A v \in Operands(g, o) : v \in Live(g) /\ g.value[v].mnemonic = "transpose"
      /\ \A v, w \in Operands(g, o) : Permutation(g, v) = Permutation(g, w)
  BY DEF IsPushable, Is
<1>2. mn \in {"add", "multiply", "subtract"}
  <2>1. mn \in Computed
    BY SettledFacts DEF At
  <2>2. QED
    BY <1>1, <2>1, ComputedFacts
<1>3. a \in Operands(g, o) /\ b \in Operands(g, o)
  <2>1. Arity(mn) = 2 /\ 1 \in 1 .. 2 /\ 2 \in 1 .. 2
    BY <1>2 DEF Arity, Binary
  <2>2. QED
    BY <2>1, OperandFacts
<1>4. /\ t[o] \in Tensors /\ t[a] \in Tensors /\ t[b] \in Tensors
      /\ t[o].dims = t[a].dims /\ t[o].dims = t[b].dims
      /\ t[o].at = Entrywise(mn, t[a].at, t[b].at)
  BY <1>2, BinaryTensor
<1>5. Permutation(g, b) = n
  BY <1>1, <1>3
<1> HIDE DEF a, b
<1>6. /\ l \in Sources(g) /\ l \in Nat /\ t[l] \in Tensors /\ n \in Rotations
      /\ t[a] = Transposed(t[l], n)
  BY <1>1, <1>3, TransposeTensor
<1>7. /\ r \in Sources(g) /\ r \in Nat /\ t[r] \in Tensors
      /\ t[b] = Transposed(t[r], n)
  BY <1>1, <1>3, <1>5, TransposeTensor
<1>8. IsStatic(g.value[l].type) /\ g.value[l].type.dims = t[l].dims
  <2>1. l \in Live(g) => At(p, g.value[l])
    BY SettledFacts
  <2>2. l \in Arguments(g) => IsStatic(g.value[l].type)
    BY SettledFacts
  <2>3. IsStatic(g.value[l].type) => t[l].dims = g.value[l].type.dims
    BY <1>6 DEF Settled, Typed
  <2> HIDE DEF l
  <2>4. QED
    BY <1>6, <2>1, <2>2, <2>3 DEF At, Sources
<1> HIDE DEF l, r, n
<1> DEFINE x == t[l]
           y == t[r]
<1>9. /\ x \in Tensors /\ y \in Tensors
      /\ Transposed(x, n).dims = (x.dims + n) % 3
      /\ Transposed(y, n).dims = (y.dims + n) % 3
  BY <1>6, <1>7, TransposedFacts
<1>10. x.dims = y.dims
  <2>1. x.dims \in 0 .. 2 /\ y.dims \in 0 .. 2 /\ n \in 0 .. 2
    BY <1>6, <1>9, TensorFacts DEF Rotations
  <2>2. (x.dims + n) % 3 = (y.dims + n) % 3
    BY <1>4, <1>6, <1>7, <1>9
  <2> DEFINE dx == x.dims
             dy == y.dims
  <2> HIDE DEF dx, dy, x, y
  <2>3. dx = dy
    BY <2>1, <2>2 DEF dx, dy
  <2>4. QED
    BY <2>3 DEF dx, dy
<1> HIDE DEF mn
<1>11. /\ z \in Tensors
       /\ Transposed(z, n) = [dims |-> Transposed(x, n).dims,
                              at |-> Entrywise(mn, Transposed(x, n).at, Transposed(y, n).at)]
  <2>1. LET zz == [dims |-> x.dims, at |-> Entrywise(mn, x.at, y.at)] IN
        /\ zz \in Tensors
        /\ Transposed(zz, n) = [dims |-> Transposed(x, n).dims,
                                at |-> Entrywise(mn, Transposed(x, n).at, Transposed(y, n).at)]
    <3>0. x \in Tensors /\ y \in Tensors /\ x.dims = y.dims
      BY <1>9, <1>10
    <3> HIDE DEF x, y
    <3>1. QED
      BY <1>2, <1>6, <3>0, TransposedOperands
  <2>2. QED
    BY <2>1
<1>12. Transposed(z, n) = t[o]
  <2> DEFINE e == Entrywise(mn, t[a].at, t[b].at)
  <2>1. Transposed(z, n) = [dims |-> t[a].dims, at |-> e]
    BY <1>6, <1>7, <1>11
  <2>2. t[o] = [dims |-> t[o].dims, at |-> t[o].at]
    BY <1>4, TensorFacts
  <2> HIDE DEF e, z
  <2>3. t[o].at = e
    BY <1>4 DEF e
  <2>4. QED
    BY <1>4, <2>1, <2>2, <2>3
<1>13. QED
  BY <1>2, <1>6, <1>7, <1>8, <1>10, <1>11, <1>12 DEF mn, n, l, r, a, b

\* Edits one after the other.
LEMMA CarriesOn ==
  ASSUME NEW g, NEW t, NEW k, NEW w, Kept(g, t, k, w), DOMAIN k.returns = DOMAIN g.returns,
         NEW p, NEW h, Carries(p, k, w, h)
  PROVE  Carries(p, g, t, h)
<1>1. PICK u : Settled(p, h, u) /\ Kept(k, w, h, u)
  BY DEF Carries
<1>2. Kept(g, t, h, u)
  BY <1>1 DEF Kept
<1>3. QED
  BY <1>1, <1>2 DEF Carries

\* pass_transpose_push.
LEMMA TransposePushSettled ==
  ASSUME NEW g, Sound(g), NEW p \in Nat, p > 3, NEW t, Settled(p, g, t), NEW o \in Live(g),
         IsPushable(g, o)
  PROVE  LET op == g.value[o]
             l  == Input(g, op.operands[1])
             r  == Input(g, op.operands[2])
             nb == AddOp(g, Op(op.mnemonic, <<l, r>>, g.value[l].type, 0,
                               [op.attrs EXCEPT !.fusion_group = NoGroup]))
             nt == AddOp(nb, Op("transpose", <<Newest(nb)>>, op.type, 0,
                                [NoAttrs EXCEPT !.permutation =
                                   Permutation(g, op.operands[1])]))
         IN  Carries(p, g, t, Replaced(nt, o, Newest(nt)))
<1> DEFINE op == g.value[o]
           mn == op.mnemonic
           l == Input(g, op.operands[1])
           r == Input(g, op.operands[2])
           n == Permutation(g, op.operands[1])
           z == [dims |-> t[l].dims, at |-> Entrywise(mn, t[l].at, t[r].at)]
           type == g.value[l].type
           bop == Op(mn, <<l, r>>, type, 0, [op.attrs EXCEPT !.fusion_group = NoGroup])
           nb == AddOp(g, bop)
           new == Len(g.value) + 1
           top == Op("transpose", <<new>>, op.type, 0, [NoAttrs EXCEPT !.permutation = n])
           nt == AddOp(nb, top)
           w == WithTensor(g, t, z)
<1>1. /\ mn \in {"add", "multiply", "subtract"}
      /\ l \in Sources(g) /\ r \in Sources(g) /\ l \in Nat /\ r \in Nat
      /\ n \in Rotations
      /\ IsStatic(type) /\ type.dims = t[l].dims
      /\ t[l] \in Tensors /\ t[r] \in Tensors /\ t[l].dims = t[r].dims
      /\ z \in Tensors
      /\ t[o] = Transposed(z, n)
  BY PushedTensor
<1>2. /\ Formed(op) /\ At(p, op) /\ op.type \in Types /\ IsStatic(op.type)
      /\ o \in DOMAIN g.value /\ t[o].dims = op.type.dims
  <2>1. Formed(op) /\ o \in DOMAIN g.value
    BY OperandFacts
  <2>2. At(p, op)
    BY SettledFacts
  <2>3. IsStatic(op.type)
    BY <2>2 DEF At
  <2>4. op.type \in Types
    BY <2>1 DEF Formed
  <2>5. QED
    BY <2>1, <2>2, <2>3, <2>4, OperandTensors
<1>3. type \in Types
  BY <1>1, SoundDomains DEF Sound, AllFormed, Formed
<1>4. z.dims = type.dims
  BY <1>1
<1> DEFINE in == [k \in DOMAIN bop.operands |-> t[bop.operands[k]]]
<1> HIDE DEF l, r, n, z, type
<1>5. /\ Formed(bop) /\ At(p, bop)
      /\ bop.mnemonic = mn /\ bop.type = type
      /\ ToSet(bop.operands) = {l, r}
      /\ bop.operands[1] = l /\ bop.operands[2] = r /\ DOMAIN bop.operands = 1 .. 2
  <2>1. mn \in Binary
    BY <1>1 DEF Binary
  <2>2. Formed(op) /\ At(p, op) /\ l \in Nat /\ r \in Nat /\ IsStatic(type)
    BY <1>1, <1>2
  <2> HIDE DEF op
  <2>3. StandsFor(p, op, l, r, type, Pushed(op, l, r, type))
    BY <1>3, <2>1, <2>2, BinaryAt
  <2>4. QED
    BY <2>3 DEF Pushed, StandsFor
<1> HIDE DEF bop
<1>6. in[1] = t[l] /\ in[2] = t[r]
  BY <1>5
<1> HIDE DEF in
<1>7. z = Apply(bop, in)
  <2>1. Apply(bop, in) = IF in[1].dims = in[2].dims
                         THEN [dims |-> in[1].dims, at |-> Entrywise(mn, in[1].at, in[2].at)]
                         ELSE Undefined
    BY <1>1, <1>5, <1>6, ApplyBinary
  <2>2. QED
    BY <1>1, <1>6, <2>1 DEF z
<1>8. /\ Settled(p, nb, w) /\ Kept(g, t, nb, w)
      /\ w[new] = z /\ \A v \in DOMAIN g.value : w[v] = t[v]
  <2>1. /\ bop.mnemonic # "arg" /\ bop.mnemonic # "convolution"
        /\ ToSet(bop.operands) \subseteq Sources(g)
        /\ IsStatic(bop.type) => z.dims = bop.type.dims
    BY <1>1, <1>4, <1>5
  <2>2. z = Apply(bop, [k \in DOMAIN bop.operands |-> t[bop.operands[k]]])
    BY <1>7 DEF in
  <2>3. z \in Tensors /\ Formed(bop) /\ At(p, bop)
    BY <1>1, <1>5
  <2> HIDE DEF op
  <2>4. QED
    BY <2>1, <2>2, <2>3, AddedSettled
<1>9. /\ Sound(nb) /\ new \in Sources(nb) /\ new \in Nat
      /\ Newest(nb) = new /\ o \in Live(nb) /\ nb.value[o] = op
      /\ nb.returns = g.returns
  <2>1. bop.mnemonic # "arg" /\ ToSet(bop.operands) \subseteq Sources(g)
    BY <1>1, <1>5
  <2>2. Sound(nb) /\ Sources(nb) = Sources(g) \cup {new}
    BY <1>5, <2>1, AddOpSound
  <2>3. Added(g, bop, nb, new)
    BY AddOpEntries
  <2>4. nb.returns = g.returns
    BY EditedReturns
  <2>5. new \in Nat
    BY SoundDomains
  <2>6. QED
    BY <1>2, <2>2, <2>3, <2>4, <2>5 DEF Added
<1> HIDE DEF nb, new, w
<1>10. /\ Formed(top) /\ At(p, top)
       /\ top.mnemonic = "transpose" /\ top.type = op.type
       /\ ToSet(top.operands) = {new} /\ top.operands[1] = new /\ DOMAIN top.operands = {1}
       /\ \A x : Apply(top, x) = Transposed(x[1], n)
  <2> DEFINE ty == op.type
  <2>1. n \in Rotations /\ ty \in Types /\ IsStatic(ty) /\ new \in Nat
    BY <1>1, <1>2, <1>9
  <2> HIDE DEF ty
  <2>2. LET q == Op("transpose", <<new>>, ty, 0, [NoAttrs EXCEPT !.permutation = n]) IN
        /\ Formed(q) /\ At(p, q)
        /\ q.mnemonic = "transpose" /\ q.type = ty
        /\ ToSet(q.operands) = {new} /\ q.operands[1] = new /\ DOMAIN q.operands = {1}
        /\ \A x : Apply(q, x) = Transposed(x[1], n)
    BY <2>1, TransposeAt
  <2>3. QED
    BY <2>2 DEF ty
<1> HIDE DEF top
<1> DEFINE nin == [k \in DOMAIN top.operands |-> w[top.operands[k]]]
<1>11. nin[1] = z
  BY <1>8, <1>10
<1>12. w[o] = Apply(top, nin)
  BY <1>1, <1>2, <1>8, <1>10, <1>11
<1> HIDE DEF nin
<1>13. Carries(p, nb, w, Replaced(nt, o, Newest(nt)))
  <2>1. w[o] = Apply(top, [k \in DOMAIN top.operands |-> w[top.operands[k]]])
    BY <1>12 DEF nin
  <2>2. /\ top.mnemonic # "arg" /\ top.mnemonic # "convolution"
        /\ nb.value[o].mnemonic # "constant"
        /\ ToSet(top.operands) \subseteq Sources(nb)
        /\ IsStatic(top.type) => w[o].dims = top.type.dims
    BY <1>1, <1>2, <1>8, <1>9, <1>10
  <2>3. QED
    BY <1>8, <1>9, <1>10, <2>1, <2>2, AddThenReplaceSettled
<1>14. Carries(p, g, t, Replaced(nt, o, Newest(nt)))
  <2> HIDE DEF nt
  <2>1. QED
    BY <1>8, <1>9, <1>13, CarriesOn
<1>15. top = Op("transpose", <<Newest(nb)>>, op.type, 0, [NoAttrs EXCEPT !.permutation = n])
  BY <1>9 DEF top
<1>16. QED
  BY <1>14, <1>15 DEF nt, nb, bop, type, n, l, r

\* The operator of c is now q, with its operands, c has taken over from o, and the
\* operators in gone, o among them, are no longer there.
Reshaped(g, h, o, c, q, gone) ==
  /\ Sound(h)
  /\ DOMAIN h.value = DOMAIN g.value
  /\ gone \subseteq Live(g) /\ o \in gone /\ Live(h) = Live(g) \ gone /\ c \in Live(h)
  /\ Arguments(h) = Arguments(g) /\ \A v \in Arguments(g) : h.value[v] = g.value[v]
  /\ h.returns = Renamed(g.returns, o, c)
  /\ \A u \in Live(g) : u # c => Rerouted(g.value[u], h.value[u], o, c)
  /\ h.value[c].operands = g.value[c].operands
  /\ h.value[c].mnemonic = q.mnemonic /\ h.value[c].type = q.type
  /\ h.value[c].data = q.data /\ h.value[c].attrs = q.attrs

\* That is what the layout and normalization passes do.
LEMMA EditedThenReplaced ==
  ASSUME NEW g, Sound(g), NEW o \in Live(g), NEW c \in Live(g), c # o,
         o \notin Operands(g, c), NEW q, Formed(q),
         q.mnemonic = g.value[c].mnemonic, q.operands = g.value[c].operands
  PROVE  LET k == [g EXCEPT !.value = [g.value EXCEPT ![c] = q]] IN
         Reshaped(g, Replaced(k, o, c), o, c, q, {o})
<1> DEFINE k == [g EXCEPT !.value = [g.value EXCEPT ![c] = q]]
           h == Replaced(k, o, c)
<1>1. c \in DOMAIN g.value /\ o \in DOMAIN g.value /\ c \in Sources(g)
  BY OperandFacts DEF Sources
<1>2. /\ Retouched(g, k)
      /\ \A v \in DOMAIN g.value : v # c => k.value[v] = g.value[v]
  BY <1>1, RetouchedOne
<1>3. k.returns = g.returns
  BY EditedReturns
<1>4. k.value[c] = q
  <2>1. g = [value |-> g.value, ops |-> g.ops, users |-> g.users, returns |-> g.returns]
    BY DEF Sound, Tables
  <2>2. k.value = [g.value EXCEPT ![c] = q]
    BY <2>1
  <2>3. Table(g.value)
    BY DEF Sound, Tables
  <2>4. QED
    BY <1>1, <2>2, <2>3 DEF Table
<1> HIDE DEF k
<1>5. /\ Sound(k)
      /\ Live(k) = Live(g) /\ Arguments(k) = Arguments(g) /\ Sources(k) = Sources(g)
      /\ DOMAIN k.value = DOMAIN g.value
  BY <1>2, RetouchedSound DEF Retouched
<1>6. /\ Sound(h)
      /\ Live(h) = Live(k) \ {o}
      /\ DOMAIN h.value = DOMAIN k.value
      /\ h.returns = Renamed(k.returns, o, c)
      /\ \A v \in Live(k) : Rerouted(k.value[v], h.value[v], o, c)
      /\ \A v \in DOMAIN k.value : v \notin Live(k) => h.value[v] = k.value[v]
  BY <1>1, <1>5, ReplacedFields
<1> HIDE DEF h
<1>7. \A v \in DOMAIN g.value : h.value[v].mnemonic = g.value[v].mnemonic
  BY <1>2, <1>4, <1>5, <1>6 DEF Rerouted
<1>8. Arguments(h) = Arguments(g)
  BY <1>5, <1>6, <1>7 DEF Arguments
<1>9. \A v \in Arguments(g) : h.value[v] = g.value[v]
  <2>1. \A v \in Arguments(g) : v \in DOMAIN g.value /\ v \notin Live(g) /\ v # c
    BY DEF Sound, Listed, Arguments
  <2>2. QED
    BY <1>2, <1>5, <1>6, <2>1
<1>10. \A u \in Live(g) : u # c => Rerouted(g.value[u], h.value[u], o, c)
  <2>1. \A u \in Live(g) : u \in DOMAIN g.value
    BY OperandFacts
  <2>2. QED
    BY <1>2, <1>5, <1>6, <2>1
<1>11. Rerouted(q, h.value[c], o, c)
  BY <1>4, <1>5, <1>6
<1>12. h.value[c].operands = g.value[c].operands
  <2> DEFINE xs == g.value[c].operands
  <2>1. xs \in Seq(Nat)
    BY OperandFacts DEF Formed
  <2>2. o \notin ToSet(xs)
    BY DEF Operands
  <2>3. h.value[c].operands = Renamed(xs, o, c)
    BY <1>11 DEF Rerouted
  <2> HIDE DEF xs
  <2>4. Renamed(xs, o, c) = xs
    BY <2>1, <2>2 DEF Renamed, ToSet
  <2>5. QED
    BY <2>3, <2>4 DEF xs
<1>13. QED
  BY <1>3, <1>5, <1>6, <1>8, <1>9, <1>10, <1>11, <1>12 DEF Reshaped, Rerouted, h, k

\* All that is returned and not read has in u the tensor that it has in t.
KeptUnread(g, t, h, u) ==
  \A k \in DOMAIN g.returns : \/ g.users[g.returns[k]] # {}
                             \/ u[h.returns[k]] = t[g.returns[k]]

CarriesUnread(p, g, t, h) == \E u : Settled(p, h, u) /\ KeptUnread(g, t, h, u)

\* The filter of a convolution that has not become another operator's operand is
\* still one.
LEMMA WeightStays ==
  ASSUME NEW g, Sound(g), NEW h, NEW gone, Live(h) = Live(g) \ gone,
         Arguments(h) = Arguments(g), NEW v \in DOMAIN g.value,
         IsWeight(g, v), \A u \in gone : g.value[u].mnemonic # "constant",
         v \in Live(h) => h.value[v].mnemonic = g.value[v].mnemonic
  PROVE  IsWeight(h, v)
<1>1. CASE g.value[v].mnemonic = "arg"
  <2>1. v \in Arguments(h)
    BY <1>1 DEF Arguments
  <2>2. QED
    BY <2>1 DEF IsWeight, Arguments
<1>2. CASE Is(g, v, "constant")
  BY <1>2 DEF IsWeight, Is
<1>3. QED
  BY <1>1, <1>2 DEF IsWeight

\* Then t fits again, with that of o for c, if nobody but what is gone reads c: all of
\* it if q computes what o did, and all but c if q has the shape of o.
LEMMA ReshapedSettled ==
  ASSUME NEW g, Sound(g), NEW p, NEW t, Settled(p, g, t),
         NEW h, NEW o, NEW c, NEW q, NEW gone, Reshaped(g, h, o, c, q, gone),
         \A u \in gone : g.value[u].mnemonic # "constant",
         \A u \in gone \ {o} : g.users[u] # {},
         g.users[c] # {}, \A u \in Live(h) : c \notin Operands(g, u),
         Workable(q), At(p, q), IsStatic(q.type) => t[o].dims = q.type.dims,
         q.mnemonic = g.value[c].mnemonic,
         Apply(q, In(g, t, c)).dims = t[o].dims
  PROVE  LET w == Handover(g, t, o, c, gone) IN
         /\ SettledBut(p, h, w, c)
         /\ KeptUnread(g, t, h, w)
         /\ Apply(q, In(g, t, c)) = t[o] => CarriesUnread(p, g, t, h)
<1> DEFINE r == h.value[c]
<1>1. /\ Sound(h)
      /\ DOMAIN h.value = DOMAIN g.value
      /\ gone \subseteq Live(g) /\ o \in gone /\ Live(h) = Live(g) \ gone /\ c \in Live(h)
      /\ Arguments(h) = Arguments(g) /\ \A v \in Arguments(g) : h.value[v] = g.value[v]
      /\ h.returns = Renamed(g.returns, o, c)
      /\ \A u \in Live(g) : u # c => Rerouted(g.value[u], h.value[u], o, c)
  BY DEF Reshaped
<1>2. /\ r.operands = g.value[c].operands
      /\ r.mnemonic = q.mnemonic /\ r.type = q.type
      /\ r.data = q.data /\ r.attrs = q.attrs
  BY DEF Reshaped
<1>3. /\ c \in Sources(h) /\ c \in Live(g) /\ c \in DOMAIN g.value
      /\ Operands(h, c) = Operands(g, c)
  BY <1>1, <1>2, OperandFacts DEF Sources, Operands
<1>4. In(h, t, c) = In(g, t, c)
  BY <1>2 DEF In
<1> HIDE DEF r
<1> DEFINE in == In(g, t, c)
<1>5. \A k \in 1 .. Arity(q.mnemonic) : in[k] \in Tensors
  BY <1>3, OperandTensors
<1> HIDE DEF in
<1>6. /\ Apply(r, in).dims = t[o].dims
      /\ Apply(q, in) = t[o] => Apply(r, in) = t[o]
  <2>1. Alike(q, r)
    BY <1>2 DEF Alike
  <2>2. q.mnemonic \in Computed
    BY DEF Workable
  <2>3. Apply(q, in) = Apply(r, in)
    BY <1>5, <2>1, <2>2, AlikeApply
  <2>4. QED
    BY <2>3 DEF in
<1>7. TakesOver(g, t, h, o, c, gone)
  <2>1. /\ c \in Live(h)
        /\ \A u \in Live(h) : c \notin Operands(g, u)
        /\ c \notin Operands(h, c)
        /\ Apply(h.value[c], In(h, t, c)).dims = t[o].dims
    BY <1>1, <1>3, <1>4, <1>6 DEF r, in
  <2>2. \A u \in Live(h) : u # c => Rerouted(g.value[u], h.value[u], o, c)
    BY <1>1
  <2>3. QED
    BY <1>1, <1>3, <2>1, <2>2 DEF TakesOver
<1>8. At(p, r) /\ (IsStatic(r.type) => t[o].dims = r.type.dims)
  BY <1>2 DEF At
<1>9. ASSUME NEW u \in Live(h)
      PROVE  \/ h.value[u].mnemonic # "convolution"
             \/ Rerouted(g.value[u], h.value[u], o, c)
             \/ IsWeight(h, h.value[u].operands[2])
  <2>1. CASE u # c
    BY <1>1, <2>1
  <2>2. CASE u = c /\ h.value[u].mnemonic = "convolution"
    <3> DEFINE v == g.value[c].operands[2]
    <3>1. g.value[c].mnemonic = "convolution" /\ h.value[u].operands[2] = v
      BY <1>2, <2>2 DEF r
    <3>2. IsWeight(g, v)
      BY <1>3, <3>1 DEF Settled, Filters
    <3>3. v \in DOMAIN g.value
      <4>1. Arity("convolution") = 2 /\ 2 \in 1 .. 2
        BY DEF Arity, Binary
      <4>2. v \in Operands(g, c)
        BY <1>3, <3>1, <4>1, OperandFacts
      <4>3. QED
        BY <1>3, <4>2, OperandFacts, SoundDomains
    <3>4. \A w \in Live(h) : h.value[w].mnemonic = g.value[w].mnemonic
      BY <1>1, <1>2 DEF Rerouted, r
    <3> HIDE DEF v
    <3>5. IsWeight(h, v)
      BY <1>1, <3>2, <3>3, <3>4, WeightStays
    <3>6. QED
      BY <3>1, <3>5
  <2>3. QED
    BY <2>1, <2>2
<1> DEFINE w == Handover(g, t, o, c, gone)
<1>10. /\ SettledBut(p, h, w, c)
       /\ Computes(g, t, h, o, c) => Settled(p, h, w)
       /\ \A k \in DOMAIN g.returns :
            \/ g.returns[k] \in gone \ {o}
            \/ g.returns[k] = c /\ t[c] # t[o]
            \/ w[h.returns[k]] = t[g.returns[k]]
  <2>1. g.value[o].mnemonic # "constant"
    BY <1>1
  <2>2. c \in Live(h) => At(p, h.value[c])
    BY <1>8 DEF r
  <2>3. IsStatic(h.value[c].type) => t[o].dims = h.value[c].type.dims
    BY <1>8 DEF r
  <2>4. h.returns = Renamed(g.returns, o, c)
    BY <1>1
  <2>5. QED
    BY <1>7, <1>9, <2>1, <2>2, <2>3, <2>4, HandoverSettled
<1> HIDE DEF w
<1>11. KeptUnread(g, t, h, w)
  BY <1>10 DEF KeptUnread
<1>12. Apply(q, In(g, t, c)) = t[o] => Computes(g, t, h, o, c)
  BY <1>4, <1>6 DEF Computes, r, in
<1>13. QED
  BY <1>10, <1>11, <1>12 DEF CarriesUnread, w

\* The convolutions that write their results the other way round.
LEMMA NhwcOutputAt ==
  ASSUME NEW p \in Nat, p > 12, NEW op, Formed(op), At(p, op), IsStatic(op.type)
  PROVE  LET q == WithNhwcOutput(op) IN
         /\ Formed(q) /\ At(p, q)
         /\ q.mnemonic = op.mnemonic /\ q.operands = op.operands 
         /\ q.attrs.layout = "NHWC" /\ q.attrs.input_layout = op.attrs.input_layout
         /\ q.type.dims = (op.type.dims + 1) % 3
<1> DEFINE q == WithNhwcOutput(op)
           b == [op.attrs EXCEPT !.layout = "NHWC"]
           type == PermutedDims(op.type, NchwToNhwc)
<1>1. Formed(q) /\ q.mnemonic = op.mnemonic /\ q.operands = op.operands
  BY WithNhwcOutputIsFormed
<1>2. q = [op EXCEPT !.attrs = b, !.type = type]
  BY DEF WithNhwcOutput, Formed
<1>3. op = [mnemonic |-> op.mnemonic, operands |-> op.operands, type |-> op.type,
            data |-> op.data, attrs |-> op.attrs, legal |-> op.legal]
  BY DEF Formed
<1>4. b.layout = "NHWC" /\ b.input_layout = op.attrs.input_layout
  BY DEF Formed, WellAttributed
<1>5. type.dims = (op.type.dims + 1) % 3
  BY DEF PermutedDims, NchwToNhwc, Formed, Types
<1>6. IsStatic(type)
  <2>1. op.type.dims \in 0 .. 2
    BY DEF Formed, Types, IsStatic, Dynamic, Rotations
  <2>2. (op.type.dims + 1) % 3 # -1
    BY <2>1
  <2>3. QED
    BY <1>5, <2>2 DEF IsStatic, Dynamic
<1> HIDE DEF q, b, type
<1>7. q.data = op.data  /\ q.attrs = b /\ q.type = type
  BY <1>2, <1>3
<1>8. At(p, q)
  BY <1>1, <1>4, <1>6, <1>7 DEF At
<1>9. QED
  BY <1>1, <1>4, <1>5, <1>7, <1>8 DEF q

\* What a convolution computes.
LEMMA ConvolutionTensor ==
  ASSUME NEW g, Sound(g), NEW p, NEW t, Settled(p, g, t), NEW c \in Live(g),
         g.value[c].mnemonic = "convolution"
  PROVE  LET op == g.value[c]
             x  == In(g, t, c)[1]
             w  == In(g, t, c)[2]
         IN  /\ x \in Tensors /\ w \in Tensors /\ t[c] \in Tensors
             /\ op.operands[1] \in Operands(g, c) /\ op.operands[2] \in Operands(g, c)
             /\ x = t[op.operands[1]] /\ w = t[op.operands[2]]
             /\ x.dims = InputDims(op)
             /\ t[c] = Convolved(op, x, w)
<1> DEFINE op == g.value[c]
           in == In(g, t, c)
<1>1. Arity("convolution") = 2 /\ 1 \in 1 .. 2 /\ 2 \in 1 .. 2
  BY DEF Arity, Binary
<1>2. /\ t[c] \in Tensors /\ t[c] = Apply(op, in)
      /\ op.operands[1] \in Operands(g, c) /\ op.operands[2] \in Operands(g, c)
      /\ in[1] = t[op.operands[1]] /\ in[2] = t[op.operands[2]]
      /\ in[1] \in Tensors /\ in[2] \in Tensors
  BY <1>1, OperandTensors, OperandFacts
<1> HIDE DEF in
<1>3. t[c] = IF in[1].dims = InputDims(op) THEN Convolved(op, in[1], in[2]) ELSE Undefined
  BY <1>2, ApplyOthers
<1>4. in[1].dims = InputDims(op)
  BY <1>2, <1>3, UndefinedFacts
<1>5. QED
  BY <1>2, <1>3, <1>4 DEF in

\* pass_nchw_nhwc_layout.
LEMMA OutputLayoutSettled ==
  ASSUME NEW g, Sound(g), Acyclic(g), NEW p \in Nat, p > 12, NEW t, Settled(p, g, t),
         NEW o \in Live(g), IsOutputLayout(g, o),
         g.value[Input(g, o)].attrs.layout # "NHWC"
  PROVE  LET c == Input(g, o)
             h == Replaced([g EXCEPT !.value[c] = WithNhwcOutput(@)], o, c)
         IN  /\ CarriesUnread(p, g, t, h)
             /\ Reshaped(g, h, o, c, WithNhwcOutput(g.value[c]), {o})
<1> DEFINE c == Input(g, o)
           op == g.value[c]
           q == WithNhwcOutput(op)
           k == [g EXCEPT !.value = [g.value EXCEPT ![c] = q]]
           h == Replaced(k, o, c)
           in == In(g, t, c)
<1>1. /\ g.value[o].mnemonic = "transpose" /\ Permutation(g, o) = 1
      /\ c \in Live(g) /\ op.mnemonic = "convolution" /\ HasOneUser(g, c)
  BY DEF IsOutputLayout, Is, NchwToNhwc
<1>2. /\ c \in Operands(g, o) /\ t[c] \in Tensors
      /\ t[o] = Transposed(t[c], 1) /\ t[o].dims = (t[c].dims + 1) % 3
  <2>1. /\ c \in Operands(g, o) /\ t[c] \in Tensors /\ 1 \in Rotations
        /\ t[o] = Transposed(t[c], 1)
    BY <1>1, TransposeTensor
  <2>2. QED
    BY <2>1, TransposedFacts
<1>3. PICK rank : Ranks(g, rank)
  BY DEF Acyclic
<1>4. c # o /\ o \notin Operands(g, c) /\ c \notin Operands(g, c)
  <2>1. /\ rank[c] < rank[o] /\ rank[c] \in Nat /\ rank[o] \in Nat
        /\ o \in Operands(g, c) => rank[o] < rank[c]
    BY <1>1, <1>2, <1>3, RankFacts DEF Sources
  <2>2. QED
    BY <1>1, <1>3, <2>1, RankFacts
<1>5. \A u \in Live(g) : c \in Operands(g, u) => u = o
  BY <1>1, <1>2, OnlyReader, OperandFacts
<1>6. /\ Formed(op) /\ At(p, op) /\ IsStatic(op.type) /\ t[c].dims = op.type.dims
      /\ op.data \in Int
  <2>1. Formed(op) /\ At(p, op)
    BY <1>1, OperandFacts, SettledFacts
  <2>2. IsStatic(op.type) /\ op.data \in Int
    BY <2>1 DEF At
  <2>3. QED
    BY <1>1, <2>1, <2>2, OperandTensors
<1>7. op.attrs.layout # "NHWC"
  OBVIOUS
<1> HIDE DEF c, op
<1>8. /\ Formed(q) /\ At(p, q)
      /\ q.mnemonic = op.mnemonic /\ q.operands = op.operands 
      /\ q.attrs.layout = "NHWC" /\ q.attrs.input_layout = op.attrs.input_layout
      /\ q.type.dims = (op.type.dims + 1) % 3
  BY <1>6, NhwcOutputAt
<1>9. /\ in[1] \in Tensors /\ in[2] \in Tensors
      /\ in[1].dims = InputDims(op)
      /\ t[c] = Convolved(op, in[1], in[2])
  BY <1>1, ConvolutionTensor DEF op
<1> HIDE DEF q, in
<1>10. Convolved(q, in[1], in[2]) = t[o]
  BY <1>2, <1>6, <1>7, <1>8, <1>9, ConvolvedTurned
<1>11. Apply(q, in) = t[o]
  <2>1. InputDims(q) = InputDims(op)
    BY <1>8 DEF InputDims
  <2>2. q.mnemonic = "convolution"
    BY <1>1, <1>8 DEF op
  <2>3. Apply(q, in) = IF in[1].dims = InputDims(q) THEN Convolved(q, in[1], in[2])
                       ELSE Undefined
    BY <2>2, ApplyOthers
  <2>4. QED
    BY <1>9, <1>10, <2>1, <2>3
<1>12. Reshaped(g, h, o, c, q, {o})
  BY <1>1, <1>4, <1>8, EditedThenReplaced DEF op
<1> HIDE DEF h
<1>13. CarriesUnread(p, g, t, h)
  <2>1. \A u \in {o} : g.value[u].mnemonic # "constant"
    BY <1>1
  <2>2. \A u \in {o} \ {o} : g.users[u] # {}
    OBVIOUS
  <2>3. Live(h) = Live(g) \ {o}
    BY <1>12 DEF Reshaped
  <2>4. \A u \in Live(h) : c \notin Operands(g, u)
    BY <1>5, <2>3
  <2>5. g.users[c] # {}
    <3>1. g.users[c] = {u \in Live(g) : c \in Operands(g, u)}
      BY <1>1, OperandFacts DEF Sound, UsersMirror
    <3>2. QED
      BY <1>2, <3>1
  <2>6. Workable(q)
    BY <1>8 DEF Workable, At
  <2>7. IsStatic(q.type) => t[o].dims = q.type.dims
    BY <1>2, <1>6, <1>8
  <2>8. q.mnemonic = g.value[c].mnemonic
    BY <1>8 DEF op
  <2>9. Apply(q, In(g, t, c)) = t[o] /\ Apply(q, In(g, t, c)).dims = t[o].dims
    BY <1>11 DEF in
  <2>10. QED
    BY <1>8, <1>12, <2>1, <2>2, <2>4, <2>5, <2>6, <2>7, <2>8, <2>9, ReshapedSettled
<1>14. [g EXCEPT !.value[c] = WithNhwcOutput(@)] = k
  BY DEF k, q, op
<1>15. QED
  BY <1>12, <1>13, <1>14 DEF h, k, c, q, op

\* The operands and the result of a sum or a product have one shape.
LEMMA BinaryShape ==
  ASSUME NEW g, Sound(g), NEW p, NEW t, Settled(p, g, t), NEW o \in Live(g),
         g.value[o].mnemonic \in {"add", "multiply"}, NEW v \in Operands(g, o)
  PROVE  t[o].dims = t[v].dims
<1> DEFINE in == g.value[o].operands
<1>1. DOMAIN in = 1 .. 2
  <2>1. Arity(g.value[o].mnemonic) = 2
    BY DEF Arity, Binary
  <2>2. QED
    BY <2>1, OperandFacts
<1>2. t[o].dims = t[in[1]].dims /\ t[o].dims = t[in[2]].dims
  BY BinaryTensor
<1>3. PICK k \in DOMAIN in : v = in[k]
  BY DEF Operands, ToSet
<1> HIDE DEF in
<1>4. k = 1 \/ k = 2
  BY <1>1, <1>3
<1>5. QED
  BY <1>2, <1>3, <1>4

\* The pattern of pass_conv_bn_fusion has one shape, and nothing else reads the
\* convolution.
LEMMA NormalizedShape ==
  ASSUME NEW g, Sound(g), NEW p, NEW t, Settled(p, g, t), NEW o \in Live(g),
         NEW m \in NormalizedConvolutions(g, o)
  PROVE  t[o].dims = t[m.conv].dims /\ HasOneUser(g, m.conv)
<1> DEFINE As == IF g.value[o].mnemonic = "add" THEN ConstantSplits(g, o) ELSE {}
           M(a, s) == [conv |-> s.other, mul |-> a.other]
           Of(a) == {M(a, s) : s \in ScaledConvolutions(g, a.other)}
<1>1. m \in UNION {Of(a) : a \in As}
  BY Zenon DEF NormalizedConvolutions
<1>2. PICK a \in As : m \in Of(a)
  BY <1>1
<1>3. PICK s \in ScaledConvolutions(g, a.other) : m = M(a, s)
  BY <1>2
<1>4. m.conv = s.other
  BY <1>3
<1> HIDE DEF As, M, Of
<1>5. HasOneUser(g, m.conv)
  BY <1>3, <1>4 DEF ScaledConvolutions
<1>6. /\ g.value[o].mnemonic = "add"
      /\ m.mul \in Operands(g, o) /\ m.mul \in Live(g)
      /\ g.value[m.mul].mnemonic = "multiply"
      /\ m.conv \in Operands(g, m.mul)
  BY NormalizedFacts
<1>7. t[o].dims = t[m.mul].dims
  BY <1>6, BinaryShape
<1>8. t[m.mul].dims = t[m.conv].dims
  BY <1>6, BinaryShape
<1>9. QED
  BY <1>5, <1>7, <1>8

\* The convolution that is marked computes what it did.
LEMMA WithBnAt ==
  ASSUME NEW p \in Nat, p > 7, NEW op, Formed(op), At(p, op),
         op.mnemonic = "convolution", NEW type \in Types, IsStatic(type)
  PROVE  LET q == WithBn(op, type) IN
         /\ Formed(q) /\ At(p, q) /\ Alike(op, q)
         /\ q.mnemonic = op.mnemonic /\ q.operands = op.operands /\ q.type = type
         /\ q.attrs.fused_bn
<1> DEFINE q == WithBn(op, type)
           yes == TRUE
           b == [op.attrs EXCEPT !.fused_bn = yes]
<1>1. Formed(q) /\ q.mnemonic = op.mnemonic /\ q.operands = op.operands
  BY WithBnIsFormed
<1>2. op = [mnemonic |-> op.mnemonic, operands |-> op.operands, type |-> op.type,
            data |-> op.data, attrs |-> op.attrs, legal |-> op.legal]
  BY DEF Formed
<1>3. q = [op EXCEPT !.attrs.fused_bn = yes, !.type = type]
  BY Zenon DEF WithBn
<1>4. /\ b.layout = op.attrs.layout /\ b.input_layout = op.attrs.input_layout
      /\ b.permutation = op.attrs.permutation /\ b.fused_bn = yes
  BY DEF Formed, WellAttributed
<1> HIDE DEF yes, q
<1>5. q = [mnemonic |-> op.mnemonic, operands |-> op.operands, type |-> type,
           data |-> op.data, attrs |-> b, legal |-> op.legal]
  BY <1>2, <1>3
<1> HIDE DEF b
<1>6. q.data = op.data /\ q.attrs = b /\ q.type = type
  BY <1>5
<1>7. At(p, q)
  BY <1>1, <1>4, <1>6 DEF At
<1>8. Alike(op, q)
  BY <1>1, <1>4, <1>6 DEF Alike
<1>9. q.attrs.fused_bn
  BY <1>4, <1>6 DEF yes
<1>10. QED
  BY <1>1, <1>6, <1>7, <1>8, <1>9 DEF q

\* The graph h computes what g did if its marked convolution c is taken to compute
\* what o did.
Drops(g, t, h, c, o) ==
  LET u == [t EXCEPT ![c] = t[o]] IN
  /\ h.value[c].mnemonic = "convolution" /\ h.value[c].attrs.fused_bn
  /\ SolvesBut(h, u, c)
  /\ KeptUnread(g, t, h, u)

\* So it is when the tensors that fit h but for c are those of g.
LEMMA ReshapedDrops ==
  ASSUME NEW g, Sound(g), NEW p, NEW t, Settled(p, g, t),
         NEW h, NEW o, NEW c, NEW q, NEW gone, Reshaped(g, h, o, c, q, gone),
         \A v \in gone \ {o} : g.users[v] # {},
         FitsBut(h, Handover(g, t, o, c, gone), c),
         KeptUnread(g, t, h, Handover(g, t, o, c, gone)),
         q.mnemonic = "convolution", q.attrs.fused_bn
  PROVE  Drops(g, t, h, c, o)
<1> DEFINE w == Handover(g, t, o, c, gone)
           u == [t EXCEPT ![c] = t[o]]
<1>1. /\ Sound(h)
      /\ DOMAIN h.value = DOMAIN g.value
      /\ gone \subseteq Live(g) /\ o \in gone /\ Live(h) = Live(g) \ gone /\ c \in Live(h)
      /\ Arguments(h) = Arguments(g)
      /\ h.returns = Renamed(g.returns, o, c)
      /\ h.value[c].mnemonic = q.mnemonic /\ h.value[c].attrs = q.attrs
  BY DEF Reshaped
<1>2. /\ DOMAIN t = DOMAIN g.value
      /\ t = [v \in DOMAIN g.value |-> t[v]]
      /\ Returning(g)
  BY DEF Settled, Fits
<1>3. /\ Live(g) \subseteq DOMAIN g.value
      /\ Live(g) \cap Arguments(g) = {} /\ Arguments(g) \subseteq DOMAIN g.value
      /\ Sources(h) = Live(h) \cup Arguments(g)
      /\ \A v \in Live(h) : Operands(h, v) \subseteq Sources(h)
  BY <1>1 DEF Sound, Listed, Sources, Arguments, ReadsSources
<1>4. \A v \in DOMAIN g.value : v \notin gone => u[v] = w[v]
  BY <1>1, <1>2, <1>3 DEF Handover
<1> HIDE DEF u, w
<1>5. \A v \in Sources(h) : u[v] = w[v]
  BY <1>1, <1>3, <1>4
<1>6. SolvesBut(h, u, c)
  <2>1. ASSUME NEW v \in Live(h) \ {c} PROVE u[v] = Apply(h.value[v], In(h, u, v))
    <3>1. w[v] = Apply(h.value[v], In(h, w, v))
      BY DEF FitsBut, SolvesBut, w
    <3>2. \A k \in DOMAIN h.value[v].operands : h.value[v].operands[k] \in Sources(h)
      BY <1>3 DEF Operands, ToSet
    <3>3. In(h, u, v) = In(h, w, v)
      BY <1>5, <3>2 DEF In
    <3>4. u[v] = w[v]
      BY <1>3, <1>5
    <3>5. QED
      BY <3>1, <3>3, <3>4
  <2>2. QED
    BY <2>1 DEF SolvesBut
<1>7. KeptUnread(g, t, h, u)
  <2>1. ASSUME NEW k \in DOMAIN g.returns, g.users[g.returns[k]] = {}
        PROVE  u[h.returns[k]] = t[g.returns[k]]
    <3>1. w[h.returns[k]] = t[g.returns[k]]
      BY <2>1 DEF KeptUnread, w
    <3>2. g.returns[k] \in DOMAIN g.value
      BY <1>2 DEF Returning
    <3>3. h.returns[k] = IF g.returns[k] = o THEN c ELSE g.returns[k]
      BY <1>1 DEF Renamed
    <3>4. h.returns[k] \in DOMAIN g.value /\ h.returns[k] \notin gone
      BY <1>1, <1>3, <2>1, <3>2, <3>3
    <3>5. QED
      BY <1>4, <3>1, <3>4
  <2>2. QED
    BY <2>1 DEF KeptUnread
<1>8. QED
  BY <1>1, <1>6, <1>7 DEF Drops, u

\* Shapes settle what a graph computes, whatever c stands for.
LEMMA ShapesSettle ==
  ASSUME NEW h, Sound(h), Acyclic(h), NEW p, NEW w, NEW c, SettledBut(p, h, w, c)
  PROVE  Settled(p, h, Meaning(h))
<1>1. FitsBut(h, w, c) /\ Typed(h, w) /\ AllAt(p, h) /\ Filters(h) /\ Returning(h)
  BY DEF SettledBut
<1>2. ShapesFit(h, w)
  <2>1. \A o \in Live(h) : w[o].dims = Apply(h.value[o], In(h, w, o)).dims
    BY <1>1 DEF FitsBut, SolvesBut
  <2>2. QED
    BY <1>1, <2>1 DEF FitsBut, ShapesFit
<1>3. AllWorkable(h)
  <2>1. ASSUME NEW o \in Live(h) PROVE Workable(h.value[o])
    <3>1. Formed(h.value[o]) /\ At(p, h.value[o])
      BY <1>1, OperandFacts DEF AllAt
    <3>2. QED
      BY <3>1 DEF Workable, At
  <2>2. QED
    BY <2>1 DEF AllWorkable
<1>4. /\ Fits(h, Meaning(h))
      /\ \A v \in DOMAIN h.value : Meaning(h)[v].dims = w[v].dims
  BY <1>2, <1>3, MeaningFits
<1>5. Typed(h, Meaning(h))
  BY <1>1, <1>4, SoundDomains DEF Typed
<1>6. QED
  BY <1>1, <1>4, <1>5 DEF Settled

\* pass_conv_bn_fusion.
LEMMA ConvBnSettled ==
  ASSUME NEW g, Sound(g), Acyclic(g), NEW p \in Nat, 7 < p, p < 13, NEW t, Settled(p, g, t),
         NEW o \in Live(g), NEW m \in NormalizedConvolutions(g, o)
  PROVE  LET k == [g EXCEPT !.value[m.conv] = WithBn(@, g.value[o].type)]
             h == EraseOp(Replaced(k, o, m.conv), m.mul)
         IN  /\ Settled(p, h, Meaning(h))
             /\ m.conv \in Live(h) /\ o \in Live(g) \ Live(h)
             /\ Drops(g, t, h, m.conv, o)
<1> DEFINE c == m.conv
           mul == m.mul
           op == g.value[c]
           type == g.value[o].type
           q == WithBn(op, type)
           k == [g EXCEPT !.value = [g.value EXCEPT ![c] = q]]
           l == Replaced(k, o, c)
           h == EraseOp(l, mul)
           in == In(g, t, c)
<1>1. /\ g.value[o].mnemonic = "add"
      /\ mul \in Operands(g, o) /\ mul \in Live(g)
      /\ g.value[mul].mnemonic = "multiply"
      /\ HasOneUser(g, mul)
      /\ c \in Operands(g, mul) /\ c \in Live(g)
      /\ op.mnemonic = "convolution"
  BY NormalizedFacts
<1>2. t[o].dims = t[c].dims /\ HasOneUser(g, c)
  BY NormalizedShape
<1>3. PICK rank : Ranks(g, rank)
  BY DEF Acyclic
<1>4. [g EXCEPT !.value[m.conv] = WithBn(@, g.value[o].type)] = k
  OBVIOUS
<1>5. Sound(h) /\ Acyclic(h)
  BY <1>4, ConvBnSound
<1> HIDE DEF c, mul
<1>6. /\ c # o /\ c # mul /\ mul # o
      /\ o \notin Operands(g, c) /\ mul \notin Operands(g, c)
  <2>1. /\ rank[c] < rank[mul] /\ rank[mul] < rank[o]
        /\ rank[c] \in Nat /\ rank[o] \in Nat /\ rank[mul] \in Nat
        /\ o \in Operands(g, c) => rank[o] < rank[c]
        /\ mul \in Operands(g, c) => rank[mul] < rank[c]
    BY <1>1, <1>3, RankFacts DEF Sources
  <2>2. QED
    BY <2>1
<1>7. /\ \A u \in Live(g) : mul \in Operands(g, u) => u = o
      /\ \A u \in Live(g) : c \in Operands(g, u) => u = mul
  BY <1>1, <1>2, OnlyReader, OperandFacts
<1>8. Formed(op) /\ At(p, op) /\ type \in Types /\ IsStatic(type)
  <2>1. Formed(op) /\ At(p, op)
    BY <1>1, OperandFacts, SettledFacts
  <2>2. At(p, g.value[o]) /\ Formed(g.value[o])
    BY OperandFacts, SettledFacts
  <2>3. IsStatic(type)
    BY <2>2 DEF At
  <2>4. type \in Types
    BY <2>2 DEF Formed
  <2>5. QED
    BY <2>1, <2>3, <2>4
<1>9. t[o].dims = type.dims
  BY <1>8, OperandTensors
<1> HIDE DEF op, type
<1>10. /\ Formed(q) /\ At(p, q) /\ Alike(op, q)
       /\ q.mnemonic = "convolution" /\ q.mnemonic = op.mnemonic
       /\ q.operands = op.operands /\ q.type = type
       /\ q.attrs.fused_bn
  BY <1>1, <1>8, WithBnAt
<1>11. /\ t[c] = Apply(op, in) /\ op.mnemonic \in Computed
       /\ \A i \in 1 .. Arity(op.mnemonic) : in[i] \in Tensors
  BY <1>1, <1>8, OperandTensors DEF op, At
<1> HIDE DEF q, in
<1>12. Apply(q, in).dims = t[o].dims
  BY <1>2, <1>10, <1>11, AlikeApply
<1>13. Reshaped(g, l, o, c, q, {o})
  BY <1>1, <1>6, <1>10, EditedThenReplaced DEF op
<1> HIDE DEF l
<1>14. Reshaped(g, h, o, c, q, {o, mul})
  <2>1. /\ Sound(l) /\ DOMAIN l.value = DOMAIN g.value
        /\ Live(l) = Live(g) \ {o} /\ c \in Live(l)
        /\ Arguments(l) = Arguments(g)
        /\ \A u \in Live(g) : u # c => Rerouted(g.value[u], l.value[u], o, c)
        /\ l.value[c].operands = g.value[c].operands
    BY <1>13 DEF Reshaped
  <2>2. mul \in Live(l)
    BY <1>1, <1>6, <2>1
  <2>3. ASSUME NEW u \in Live(l) \ {mul} PROVE mul \notin Operands(l, u)
    <3>1. u \in Live(g) /\ u # o /\ mul \notin Operands(g, u) /\ u \in DOMAIN g.value
      BY <1>7, <2>1, OperandFacts
    <3>2. CASE u = c
      BY <1>6, <2>1, <3>2 DEF Operands
    <3>3. CASE u # c
      <4> DEFINE xs == g.value[u].operands
                 ys == l.value[u].operands
      <4>1. ys = Renamed(xs, o, c)
        BY <2>1, <3>1, <3>3 DEF Rerouted
      <4>2. mul \notin ToSet(xs)
        BY <3>1 DEF Operands
      <4> HIDE DEF xs, ys
      <4>3. mul \notin ToSet(ys)
        BY <1>6, <4>1, <4>2 DEF Renamed, ToSet
      <4>4. QED
        BY <4>3 DEF ys, Operands
    <3>4. QED
      BY <3>2, <3>3
  <2>4. /\ Live(h) = Live(l) \ {mul} /\ h.value = l.value
    BY <2>1, <2>2, <2>3, EraseOpSound
  <2>5. h.returns = l.returns
    BY <2>1, EditedReturns
  <2> HIDE DEF h
  <2>6. Live(h) = Live(g) \ {o, mul}
    BY <2>1, <2>4
  <2>7. Arguments(h) = Arguments(l)
    BY <2>4 DEF Arguments
  <2>8. QED
    BY <1>1, <1>5, <1>6, <1>13, <2>1, <2>4, <2>5, <2>6, <2>7 DEF Reshaped
<1> HIDE DEF h
<1> DEFINE w == Handover(g, t, o, c, {o, mul})
<1>15. Live(h) = Live(g) \ {o, mul}
  BY <1>14 DEF Reshaped
<1>16. \A u \in {o, mul} \ {o} : g.users[u] # {}
  <2>1. g.users[mul] = {u \in Live(g) : mul \in Operands(g, u)}
    BY <1>1, OperandFacts DEF Sound, UsersMirror
  <2>2. QED
    BY <1>1, <2>1
<1>17. SettledBut(p, h, w, c) /\ KeptUnread(g, t, h, w)
  <2>1. \A u \in {o, mul} : g.value[u].mnemonic # "constant"
    BY <1>1
  <2>2. \A u \in Live(h) : c \notin Operands(g, u)
    BY <1>7, <1>15
  <2>3. g.users[c] # {}
    <3>1. g.users[c] = {u \in Live(g) : c \in Operands(g, u)}
      BY <1>1, OperandFacts DEF Sound, UsersMirror
    <3>2. QED
      BY <1>1, <3>1
  <2>4. Workable(q)
    BY <1>10 DEF Workable, At
  <2>5. IsStatic(q.type) => t[o].dims = q.type.dims
    BY <1>9, <1>10
  <2>6. q.mnemonic = g.value[c].mnemonic
    BY <1>10 DEF op
  <2>7. Apply(q, In(g, t, c)).dims = t[o].dims
    BY <1>12 DEF in
  <2>8. QED
    BY <1>10, <1>14, <1>16, <2>1, <2>2, <2>3, <2>4, <2>5, <2>6, <2>7, ReshapedSettled
<1> HIDE DEF w
<1>18. Settled(p, h, Meaning(h))
  BY <1>5, <1>17, ShapesSettle
<1>19. Drops(g, t, h, c, o)
  <2>1. FitsBut(h, Handover(g, t, o, c, {o, mul}), c)
    BY <1>17 DEF SettledBut, w
  <2>2. KeptUnread(g, t, h, Handover(g, t, o, c, {o, mul}))
    BY <1>17 DEF w
  <2>3. QED
    BY <1>10, <1>14, <1>16, <2>1, <2>2, ReshapedDrops
<1>20. c \in Live(h) /\ o \in Live(g) \ Live(h)
  BY <1>1, <1>6, <1>15
<1>21. [g EXCEPT !.value[m.conv] = WithBn(@, g.value[o].type)] = k
  BY <1>4
<1>22. QED
  BY <1>18, <1>19, <1>20, <1>21 DEF h, l, c, mul

\* A convolution that is told to read turned entries.
LEMMA NhwcInputAt ==
  ASSUME NEW p \in Nat, p > 13, NEW op, Formed(op), At(p, op)
  PROVE  LET q == [op EXCEPT !.attrs.input_layout = "NHWC"] IN
         /\ Formed(q) /\ At(p, q)
         /\ q.mnemonic = op.mnemonic /\ q.operands = op.operands 
         /\ q.type = op.type
         /\ q.attrs.layout = op.attrs.layout /\ q.attrs.input_layout = "NHWC"
<1> DEFINE q == [op EXCEPT !.attrs.input_layout = "NHWC"]
           b == [op.attrs EXCEPT !.input_layout = "NHWC"]
<1>1. Formed(q) /\ q.mnemonic = op.mnemonic /\ q.operands = op.operands
  BY EditsAreFormed
<1>2. q = [op EXCEPT !.attrs = b]
  BY DEF Formed
<1>3. op = [mnemonic |-> op.mnemonic, operands |-> op.operands, type |-> op.type,
            data |-> op.data, attrs |-> op.attrs, legal |-> op.legal]
  BY DEF Formed
<1>4. b.input_layout = "NHWC" /\ b.layout = op.attrs.layout
  BY DEF Formed, WellAttributed
<1> HIDE DEF q, b
<1>5. q.data = op.data  /\ q.attrs = b /\ q.type = op.type
  BY <1>2, <1>3
<1>6. At(p, q)
  BY <1>1, <1>4, <1>5 DEF At
<1>7. QED
  BY <1>1, <1>4, <1>5, <1>6 DEF q

\* The operator of c is now q and reads x in the place of o, which is gone.
Bypassed(g, h, o, c, x, q) ==
  /\ Sound(h)
  /\ DOMAIN h.value = DOMAIN g.value
  /\ Live(h) = Live(g) \ {o}
  /\ Arguments(h) = Arguments(g) /\ \A v \in Arguments(g) : h.value[v] = g.value[v]
  /\ h.returns = Renamed(g.returns, o, x)
  /\ \A u \in Live(g) : u # c => Rerouted(g.value[u], h.value[u], o, x)
  /\ Rerouted(q, h.value[c], o, x)

\* That is what the layout pass on the inputs does.
LEMMA EditedThenBypassed ==
  ASSUME NEW g, Sound(g), NEW o \in Live(g), NEW c \in Live(g), c # o,
         NEW x \in Sources(g), x # o, NEW q, Formed(q),
         q.mnemonic = g.value[c].mnemonic, q.operands = g.value[c].operands
  PROVE  LET k == [g EXCEPT !.value = [g.value EXCEPT ![c] = q]] IN
         Bypassed(g, Replaced(k, o, x), o, c, x, q)
<1> DEFINE k == [g EXCEPT !.value = [g.value EXCEPT ![c] = q]]
           h == Replaced(k, o, x)
<1>1. c \in DOMAIN g.value /\ o \in DOMAIN g.value
  BY OperandFacts
<1>2. /\ Retouched(g, k)
      /\ \A v \in DOMAIN g.value : v # c => k.value[v] = g.value[v]
  BY <1>1, RetouchedOne
<1>3. k.returns = g.returns
  BY EditedReturns
<1>4. k.value[c] = q
  <2>1. g = [value |-> g.value, ops |-> g.ops, users |-> g.users, returns |-> g.returns]
    BY DEF Sound, Tables
  <2>2. k.value = [g.value EXCEPT ![c] = q]
    BY <2>1
  <2>3. Table(g.value)
    BY DEF Sound, Tables
  <2>4. QED
    BY <1>1, <2>2, <2>3 DEF Table
<1> HIDE DEF k
<1>5. /\ Sound(k)
      /\ Live(k) = Live(g) /\ Arguments(k) = Arguments(g) /\ Sources(k) = Sources(g)
      /\ DOMAIN k.value = DOMAIN g.value
  BY <1>2, RetouchedSound DEF Retouched
<1>6. /\ Sound(h)
      /\ Live(h) = Live(k) \ {o}
      /\ DOMAIN h.value = DOMAIN k.value
      /\ h.returns = Renamed(k.returns, o, x)
      /\ \A v \in Live(k) : Rerouted(k.value[v], h.value[v], o, x)
      /\ \A v \in DOMAIN k.value : v \notin Live(k) => h.value[v] = k.value[v]
  BY <1>1, <1>5, ReplacedFields
<1> HIDE DEF h
<1>7. \A v \in DOMAIN g.value : h.value[v].mnemonic = g.value[v].mnemonic
  BY <1>2, <1>4, <1>5, <1>6 DEF Rerouted
<1>8. Arguments(h) = Arguments(g)
  BY <1>5, <1>6, <1>7 DEF Arguments
<1>9. \A v \in Arguments(g) : h.value[v] = g.value[v]
  <2>1. \A v \in Arguments(g) : v \in DOMAIN g.value /\ v \notin Live(g) /\ v # c
    BY DEF Sound, Listed, Arguments
  <2>2. QED
    BY <1>2, <1>5, <1>6, <2>1
<1>10. \A u \in Live(g) : u # c => Rerouted(g.value[u], h.value[u], o, x)
  <2>1. \A u \in Live(g) : u \in DOMAIN g.value
    BY OperandFacts
  <2>2. QED
    BY <1>2, <1>5, <1>6, <2>1
<1>11. Rerouted(q, h.value[c], o, x)
  BY <1>4, <1>5, <1>6
<1>12. QED
  BY <1>3, <1>5, <1>6, <1>8, <1>9, <1>10, <1>11 DEF Bypassed, h, k

\* The tensors stay what they are if c computes the same as before and nobody else
\* has read o, a transpose.
LEMMA BypassedSettled ==
  ASSUME NEW g, Sound(g), NEW p, NEW t, Settled(p, g, t),
         NEW h, NEW o \in Live(g), NEW c \in Live(g), c # o,
         NEW x \in Sources(g), x # o, NEW q, Formed(q),
         Bypassed(g, h, o, c, x, q),
         g.value[o].mnemonic = "transpose", o \in Operands(g, c),
         \A u \in Live(g) : o \in Operands(g, u) => u = c,
         At(p, q), q.type = g.value[c].type,
         q.mnemonic = g.value[c].mnemonic, q.operands = g.value[c].operands,
         Apply(h.value[c], In(h, t, c)) = t[c]
  PROVE  CarriesUnread(p, g, t, h)
<1> DEFINE u == [v \in DOMAIN g.value |-> IF v = o THEN Undefined ELSE t[v]]
<1>1. /\ Sound(h)
      /\ DOMAIN h.value = DOMAIN g.value
      /\ Live(h) = Live(g) \ {o}
      /\ Arguments(h) = Arguments(g) /\ \A v \in Arguments(g) : h.value[v] = g.value[v]
      /\ h.returns = Renamed(g.returns, o, x)
      /\ \A v \in Live(g) : v # c => Rerouted(g.value[v], h.value[v], o, x)
      /\ Rerouted(q, h.value[c], o, x)
  BY DEF Bypassed
<1>2. /\ DOMAIN u = DOMAIN g.value
      /\ u = [v \in DOMAIN g.value |-> u[v]]
      /\ \A v \in DOMAIN g.value : u[v] = IF v = o THEN Undefined ELSE t[v]
  OBVIOUS
<1> HIDE DEF u
<1>3. Fits(g, t) /\ Typed(g, t) /\ AllAt(p, g) /\ Filters(g) /\ Returning(g)
  BY DEF Settled
<1>4. /\ t \in [DOMAIN g.value -> Outcomes]
      /\ \A v \in Sources(g) : t[v] \in Tensors
      /\ \A v \in DOMAIN g.value : v \notin Sources(g) => t[v] = Undefined
      /\ \A v \in Arguments(g) : t[v] = ArgTensor(v, g.value[v].type.dims)
      /\ \A v \in Live(g) : t[v] = Apply(g.value[v], In(g, t, v))
  BY <1>3 DEF Fits
<1>5. /\ Sources(g) \subseteq DOMAIN g.value
      /\ Live(g) \subseteq DOMAIN g.value /\ Arguments(g) \subseteq DOMAIN g.value
      /\ Live(g) \cap Arguments(g) = {}
      /\ \A v \in Live(h) : Operands(h, v) \subseteq Sources(h)
  BY <1>1, SoundDomains DEF Sound, Listed, Arguments, ReadsSources
<1>6. Sources(h) = Sources(g) \ {o} /\ Sources(h) \subseteq DOMAIN g.value
  BY <1>1, <1>5 DEF Sources
<1>7. \A v \in Sources(h) : u[v] \in Tensors /\ u[v] = t[v] /\ v # o
  BY <1>2, <1>4, <1>5, <1>6
<1>8. \A v \in DOMAIN g.value : v \notin Sources(h) => u[v] = Undefined
  BY <1>2, <1>4, <1>6
<1>9. u \in [DOMAIN g.value -> Outcomes]
  <2>1. \A v \in DOMAIN g.value : u[v] \in Outcomes
    BY <1>7, <1>8, TensorFacts, UndefinedFacts
  <2>2. QED
    BY <1>2, <2>1
<1>10. \A v \in Arguments(h) : u[v] = ArgTensor(v, h.value[v].type.dims)
  BY <1>1, <1>4, <1>7 DEF Sources
<1>11. ASSUME NEW v \in Live(h) PROVE In(h, u, v) = In(h, t, v)
  <2>1. \A k \in DOMAIN h.value[v].operands : h.value[v].operands[k] \in Sources(h)
    BY <1>5, <1>11 DEF Operands, ToSet
  <2>2. \A k \in DOMAIN h.value[v].operands :
          u[h.value[v].operands[k]] = t[h.value[v].operands[k]]
    BY <1>7, <2>1
  <2>3. QED
    BY <2>2 DEF In
<1>12. ASSUME NEW v \in Live(h), v # c PROVE t[v] = Apply(h.value[v], In(h, t, v))
  <2> DEFINE a == g.value[v]
             b == h.value[v]
             N == Arity(a.mnemonic)
  <2>1. v \in Live(g) /\ o \notin Operands(g, v) /\ v \in DOMAIN g.value
    BY <1>1, <1>5, <1>12
  <2>2. /\ Formed(a) /\ DOMAIN a.operands = 1 .. N
        /\ \A k \in 1 .. N : a.operands[k] \in Operands(g, v)
    BY <2>1, OperandFacts
  <2>3. Rerouted(a, b, o, x)
    BY <1>1, <1>12, <2>1
  <2>4. a.mnemonic \in Computed
    BY <2>1, SettledFacts DEF At
  <2>5. \A k \in 1 .. N : In(g, t, v)[k] \in Tensors
    BY <2>1, OperandTensors
  <2>6. t[v] = Apply(a, In(g, t, v))
    BY <1>4, <2>1
  <2>7. /\ In(g, t, v) = [k \in DOMAIN a.operands |-> t[a.operands[k]]]
        /\ In(h, t, v) = [k \in DOMAIN b.operands |-> t[b.operands[k]]]
    BY DEF In
  <2> HIDE DEF a, b, N
  <2>8. /\ Alike(a, b)
        /\ DOMAIN b.operands = DOMAIN a.operands
        /\ \A k \in DOMAIN a.operands :
             b.operands[k] = IF a.operands[k] = o THEN x ELSE a.operands[k]
    <3>1. Formed(a) /\ Rerouted(a, b, o, x)
      BY <2>2, <2>3
    <3>2. QED
      BY <3>1, ReroutedIsAlike
  <2>9. ASSUME NEW k \in DOMAIN a.operands PROVE b.operands[k] = a.operands[k]
    <3>1. a.operands[k] # o
      BY <2>1, <2>2
    <3>2. QED
      BY <2>8, <3>1
  <2>10. In(h, t, v) = In(g, t, v)
    BY <2>7, <2>8, <2>9
  <2>11. Apply(a, In(g, t, v)) = Apply(b, In(g, t, v))
    BY <2>4, <2>5, <2>8, AlikeApply DEF N
  <2>12. QED
    BY <2>6, <2>10, <2>11 DEF b
<1>13. Fits(h, u)
  <2>1. \A v \in Live(h) : u[v] = t[v]
    BY <1>7 DEF Sources
  <2>2. ASSUME NEW v \in Live(h) PROVE u[v] = Apply(h.value[v], In(h, u, v))
    <3>1. In(h, u, v) = In(h, t, v) /\ u[v] = t[v]
      BY <1>11, <2>1
    <3>2. t[v] = Apply(h.value[v], In(h, t, v))
      BY <1>12
    <3>3. QED
      BY <3>1, <3>2
  <2>3. QED
    BY <1>1, <1>7, <1>8, <1>9, <1>10, <2>2 DEF Fits
<1>14. \A v \in Live(g) : /\ h.value[v].mnemonic = g.value[v].mnemonic
                          /\ h.value[v].type = g.value[v].type
  BY <1>1 DEF Rerouted
<1>15. Typed(h, u)
  <2>1. \A v \in Sources(h) : h.value[v].type = g.value[v].type /\ v \in Sources(g)
    BY <1>1, <1>14, <1>6 DEF Sources
  <2>2. QED
    BY <1>3, <1>7, <2>1 DEF Typed
<1>16. AllAt(p, h)
  <2>1. ASSUME NEW v \in Live(h) PROVE At(p, h.value[v])
    <3>1. CASE v = c
      BY <1>1, <3>1 DEF At, Rerouted
    <3>2. CASE v # c
      <4>1. At(p, g.value[v]) /\ Rerouted(g.value[v], h.value[v], o, x)
        BY <1>1, <1>3, <3>2 DEF AllAt
      <4>2. QED
        BY <4>1 DEF At, Rerouted
    <3>3. QED
      BY <3>1, <3>2
  <2>2. QED
    BY <2>1 DEF AllAt
<1>17. Filters(h)
  <2>1. ASSUME NEW v \in Live(h), h.value[v].mnemonic = "convolution"
        PROVE  IsWeight(h, h.value[v].operands[2])
    <3> DEFINE w == g.value[v].operands[2]
    <3>1. v \in Live(g) /\ g.value[v].mnemonic = "convolution"
      BY <1>1, <1>14, <2>1
    <3>2. IsWeight(g, w)
      BY <1>3, <3>1 DEF Filters
    <3>3. 2 \in DOMAIN g.value[v].operands /\ w \in DOMAIN g.value
      <4>1. Arity("convolution") = 2 /\ 2 \in 1 .. 2
        BY DEF Arity, Binary
      <4>2. 2 \in DOMAIN g.value[v].operands /\ w \in Operands(g, v)
        BY <3>1, <4>1, OperandFacts
      <4>3. QED
        BY <3>1, <4>2, OperandFacts, SoundDomains
    <3>4. w # o
      BY <3>2 DEF IsWeight, Is
    <3>5. h.value[v].operands[2] = w
      <4>1. CASE v = c
        <5>1. /\ 2 \in DOMAIN q.operands /\ q.operands[2] = w
              /\ Formed(q) /\ Rerouted(q, h.value[v], o, x)
          BY <1>1, <3>3, <4>1
        <5> HIDE DEF w
        <5>2. h.value[v].operands[2] = IF q.operands[2] = o THEN x ELSE q.operands[2]
          BY <5>1, ReroutedIsAlike
        <5>3. QED
          BY <3>4, <5>1, <5>2
      <4>2. CASE v # c
        <5> DEFINE a == g.value[v]
        <5>1. /\ 2 \in DOMAIN a.operands /\ a.operands[2] = w
              /\ Formed(a) /\ Rerouted(a, h.value[v], o, x)
          BY <1>1, <3>1, <3>3, <4>2, OperandFacts
        <5> HIDE DEF w, a
        <5>2. h.value[v].operands[2] = IF a.operands[2] = o THEN x ELSE a.operands[2]
          BY <5>1, ReroutedIsAlike
        <5>3. QED
          BY <3>4, <5>1, <5>2
      <4>3. QED
        BY <4>1, <4>2
    <3> HIDE DEF w
    <3>6. \A z \in Live(h) : h.value[z].mnemonic = g.value[z].mnemonic
      BY <1>1, <1>14
    <3>7. IsWeight(h, w)
      BY <1>1, <3>2, <3>3, <3>6, WeightStays
    <3>8. QED
      BY <3>5, <3>7
  <2>2. QED
    BY <2>1 DEF Filters
<1>18. /\ DOMAIN h.returns = DOMAIN g.returns
       /\ \A k \in DOMAIN g.returns :
            /\ g.returns[k] \in DOMAIN g.value
            /\ h.returns[k] = IF g.returns[k] = o THEN x ELSE g.returns[k]
  BY <1>1, <1>3 DEF Renamed, Returning
<1>19. Returning(h)
  BY <1>1, <1>5, <1>18 DEF Returning
<1>20. Settled(p, h, u)
  BY <1>13, <1>15, <1>16, <1>17, <1>19 DEF Settled
<1>21. g.users[o] # {}
  <2>1. g.users[o] = {v \in Live(g) : o \in Operands(g, v)}
    BY <1>5 DEF Sound, UsersMirror
  <2>2. QED
    BY <2>1
<1>22. \A k \in DOMAIN g.returns : g.returns[k] # o => u[h.returns[k]] = t[g.returns[k]]
  BY <1>2, <1>18
<1>23. QED
  BY <1>20, <1>21, <1>22 DEF CarriesUnread, KeptUnread

\* pass_nhwc_nchw_layout.
LEMMA InputLayoutSettled ==
  ASSUME NEW g, Sound(g), Acyclic(g), NEW p \in Nat, p > 13, NEW t, Settled(p, g, t),
         NEW conv \in Live(g), IsInputLayout(g, conv),
         g.value[conv].attrs.input_layout # "NHWC"
  PROVE  LET o == Input(g, conv)
             k == [g EXCEPT !.value[conv].attrs.input_layout = "NHWC"]
             h == Replaced(k, o, Input(g, o))
         IN  /\ CarriesUnread(p, g, t, h)
             /\ \E q : Bypassed(g, h, o, conv, Input(g, o), q)
<1> DEFINE o == Input(g, conv)
           x == Input(g, o)
           op == g.value[conv]
           w == op.operands[2]
           q == [op EXCEPT !.attrs.input_layout = "NHWC"]
           k == [g EXCEPT !.value = [g.value EXCEPT ![conv] = q]]
           h == Replaced(k, o, x)
           in == In(g, t, conv)
           new == In(h, t, conv)
<1>1. /\ op.mnemonic = "convolution"
      /\ o \in Live(g) /\ g.value[o].mnemonic = "transpose"
      /\ Permutation(g, o) = 2 /\ HasOneUser(g, o)
  BY DEF IsInputLayout, Is, NhwcToNchw
<1>2. /\ x \in Sources(g) /\ x \in Operands(g, o)
      /\ t[x] \in Tensors /\ t[o] = Transposed(t[x], 2)
  BY <1>1, TransposeTensor
<1>3. /\ in[2] \in Tensors /\ in[1] = t[o] /\ in[2] = t[w]
      /\ in[1].dims = InputDims(op)
      /\ t[conv] = Convolved(op, in[1], in[2])
      /\ o \in Operands(g, conv) /\ w \in Operands(g, conv)
  BY <1>1, ConvolutionTensor DEF Input
<1>4. t[x].dims = 1
  <2>1. InputDims(op) = 0
    BY DEF InputDims
  <2>2. Transposed(t[x], 2).dims = (t[x].dims + 2) % 3
    BY <1>2, TransposedFacts DEF Rotations
  <2>3. (t[x].dims + 2) % 3 = 0 /\ t[x].dims \in 0 .. 2
    BY <1>2, <1>3, <2>1, <2>2, TensorFacts DEF Rotations
  <2>4. QED
    BY <2>3
<1>5. x # o /\ conv # o
  <2>1. PICK rank : Ranks(g, rank)
    BY DEF Acyclic
  <2>2. /\ rank[x] < rank[o] /\ rank[o] < rank[conv]
        /\ rank[x] \in Nat /\ rank[o] \in Nat /\ rank[conv] \in Nat
    BY <1>1, <1>2, <1>3, <2>1, RankFacts DEF Sources
  <2>3. QED
    BY <2>2
<1>6. \A u \in Live(g) : o \in Operands(g, u) => u = conv
  BY <1>1, <1>3, OnlyReader, OperandFacts
<1>7. Formed(op) /\ At(p, op) /\ op.attrs.input_layout # "NHWC"
      /\ op.operands[1] = o /\ Len(op.operands) = 2
  BY <1>1, OperandFacts, SettledFacts DEF Input, Arity, Binary
<1>8. w # o
  <2>1. IsWeight(g, w)
    BY <1>1 DEF Settled, Filters
  <2> HIDE DEF w
  <2>2. QED
    BY <1>1, <2>1 DEF IsWeight, Is
<1> HIDE DEF op, o, x
<1>9. /\ Formed(q) /\ At(p, q)
      /\ q.mnemonic = op.mnemonic /\ q.operands = op.operands 
      /\ q.type = op.type
      /\ q.attrs.layout = op.attrs.layout /\ q.attrs.input_layout = "NHWC"
  BY <1>7, NhwcInputAt
<1> HIDE DEF q
<1>10. Bypassed(g, h, o, conv, x, q)
  BY <1>1, <1>2, <1>5, <1>9, EditedThenBypassed DEF op
<1> HIDE DEF h
<1>11. Rerouted(q, h.value[conv], o, x)
  BY <1>10 DEF Bypassed
<1>12. /\ Alike(q, h.value[conv])
       /\ DOMAIN h.value[conv].operands = 1 .. 2
       /\ h.value[conv].operands[1] = x
       /\ h.value[conv].operands[2] = w
  <2>1. q.operands \in Seq(Nat) /\ DOMAIN q.operands = 1 .. 2
        /\ q.operands[1] = o /\ q.operands[2] = w
    BY <1>7, <1>9 DEF Formed
  <2> HIDE DEF w
  <2>2. /\ Alike(q, h.value[conv])
        /\ DOMAIN h.value[conv].operands = DOMAIN q.operands
        /\ \A i \in DOMAIN q.operands :
             h.value[conv].operands[i] = IF q.operands[i] = o THEN x ELSE q.operands[i]
    BY <1>9, <1>11, ReroutedIsAlike
  <2>3. QED
    BY <1>8, <2>1, <2>2
<1>13. new[1] = t[x] /\ new[2] = t[w]
  BY <1>12 DEF In
<1> HIDE DEF new, in
<1>14. Apply(q, new) = t[conv]
  <2>1. InputDims(q) = 1
    BY <1>9 DEF InputDims
  <2>2. q.mnemonic = "convolution"
    BY <1>1, <1>9
  <2>3. Apply(q, new) = IF new[1].dims = InputDims(q) THEN Convolved(q, new[1], new[2])
                        ELSE Undefined
    BY <2>2, ApplyOthers
  <2>4. Apply(q, new) = Convolved(q, t[x], t[w])
    BY <1>4, <1>13, <2>1, <2>3
  <2>5. Convolved(q, t[x], t[w]) = Convolved(op, Transposed(t[x], 2), t[w])
    BY <1>7, <1>9, ConvolvedFromTurned
  <2>6. QED
    BY <1>2, <1>3, <2>4, <2>5
<1>15. Apply(h.value[conv], new) = t[conv]
  <2>1. q.mnemonic \in Computed
    BY <1>9 DEF At
  <2>2. Arity(q.mnemonic) = 2
    BY <1>1, <1>9 DEF Arity, Binary
  <2>3. \A i \in 1 .. 2 : new[i] \in Tensors
    BY <1>2, <1>3, <1>13
  <2>4. Apply(q, new) = Apply(h.value[conv], new)
    BY <1>12, <2>1, <2>2, <2>3, AlikeApply
  <2>5. QED
    BY <1>14, <2>4
<1>16. CarriesUnread(p, g, t, h)
  BY <1>1, <1>2, <1>3, <1>5, <1>6, <1>9, <1>10, <1>15, BypassedSettled DEF op, new
<1>17. [g EXCEPT !.value[conv].attrs.input_layout = "NHWC"] = k
  BY DEF k, q, op
<1>18. QED
  BY <1>10, <1>16, <1>17 DEF h, o, x

(***************************************************************************)
(* The pipeline.  What a pass needs of the ones before it, apart from the  *)
(* shapes: no transpose of a transposed convolution is left when the       *)
(* layouts are folded, and no convolution is folded twice.                 *)
(***************************************************************************)
NoStack(g) ==
  \A u \in Live(g) :
    ~(/\ g.value[u].mnemonic = "transpose"
      /\ Is(g, Input(g, u), "transpose")
      /\ Is(g, Input(g, Input(g, u)), "convolution"))

Unturned(g) ==
  \A u \in Live(g) :
    g.value[u].mnemonic = "transpose" /\ Is(g, Input(g, u), "convolution")
      => g.value[Input(g, u)].attrs.layout # "NHWC"

UnturnedInputs(g, n) ==
  \A i \in DOMAIN g.ops : i >= n => g.value[g.ops[i]].attrs.input_layout # "NHWC"

Ordered(p, n, g) ==
  /\ p = 11 => n = 1
  /\ p \in {12, 13} => NoStack(g)
  /\ p = 13 => Unturned(g)
  /\ p = 14 => UnturnedInputs(g, n)

\* Pass p at position n has the graph g with the tensors t, and pass q at m has h
\* then, with what the function returns kept, or all but what a normalized
\* convolution no longer does.
Proceeds(p, g, t, q, m, h) ==
  \E u : /\ Settled(q, h, u) /\ Ordered(q, m, h)
         /\ \/ \A k \in DOMAIN g.returns :
                 \/ p \in {13, 14} /\ g.users[g.returns[k]] # {}
                 \/ u[h.returns[k]] = t[g.returns[k]]
            \/ /\ p = 8
               /\ \E c \in Live(h) : \E o \in Live(g) \ Live(h) : Drops(g, t, h, c, o)

\* What the lemmas on the passes say is that.
LEMMA CarriesProceeds ==
  ASSUME NEW p, NEW g, NEW t, NEW q, NEW m, NEW h, Carries(q, g, t, h), Ordered(q, m, h)
  PROVE  Proceeds(p, g, t, q, m, h)
BY DEF Carries, Kept, Proceeds

\* So for the layout passes, which may change a returned value with a reader.
LEMMA CarriesUnreadProceeds ==
  ASSUME NEW p \in {13, 14}, NEW g, NEW t, NEW q, NEW m, NEW h,
         CarriesUnread(q, g, t, h), Ordered(q, m, h)
  PROVE  Proceeds(p, g, t, q, m, h)
BY DEF CarriesUnread, KeptUnread, Proceeds

\* The numbers of the passes.
LEMMA PassNumbers ==
  ASSUME IInv, NEW p, Running(p)
  PROVE  /\ pass \in 1 .. 18
         /\ p = "algebraic_simplify" => pass \in {1, 15}
         /\ p = "identity_elim" => pass \in {2, 16}
         /\ p = "shape_infer" => pass = 3
         /\ p = "shape_fold" => pass = 4
         /\ p = "shape_subgraph_elim" => pass = 5
         /\ p = "cse" => pass = 6
         /\ p = "constant_fold" => pass = 7
         /\ p = "conv_bn_fusion" => pass = 8
         /\ p = "dce" => pass \in {9, 17}
         /\ p = "fusion_detect" => pass = 10
         /\ p = "transpose_elim" => pass = 11
         /\ p = "transpose_push" => pass = 12
         /\ p = "nchw_nhwc_layout" => pass = 13
         /\ p = "nhwc_nchw_layout" => pass = 14
         /\ p = "legalize" => pass = 18
<1>1. Len(Pipeline) = 18
  BY DEF Pipeline
<1>2. pass \in 1 .. 18 /\ Pipeline[pass] = p
  <2> HIDE DEF Pipeline
  <2>1. QED
    BY <1>1 DEF Running, Finished, IInv
<1>3. CASE pass \in 1 .. 9
  <2>1. pass = 1 \/ pass = 2 \/ pass = 3 \/ pass = 4 \/ pass = 5 \/ pass = 6
        \/ pass = 7 \/ pass = 8 \/ pass = 9
    BY <1>3
  <2>2. QED
    BY <1>2, <2>1 DEF Pipeline
<1>4. CASE pass \in 10 .. 18
  <2>1. pass = 10 \/ pass = 11 \/ pass = 12 \/ pass = 13 \/ pass = 14 \/ pass = 15
        \/ pass = 16 \/ pass = 17 \/ pass = 18
    BY <1>4
  <2>2. QED
    BY <1>2, <2>1 DEF Pipeline
<1>5. QED
  BY <1>2, <1>3, <1>4

\* The passes that no order is asked of.
LEMMA OrderedElsewhere ==
  ASSUME NEW p, p \notin {11, 12, 13, 14}, NEW n, NEW g
  PROVE  Ordered(p, n, g)
BY DEF Ordered

\* Passes that carry what is settled over to h and start again.
LEMMA RestartProceeds ==
  ASSUME NEW t, NEW h, Restart(h), Carries(pass, graph, t, h),
         pass \notin {12, 13, 14}
  PROVE  Proceeds(pass, graph, t, pass', next', graph')
<1>1. graph' = h /\ next' = 1 /\ pass' = pass
  BY DEF Restart
<1>2. Ordered(pass, 1, h)
  BY DEF Ordered
<1>3. Proceeds(pass, graph, t, pass, 1, h)
  BY <1>2, CarriesProceeds
<1>4. QED
  BY <1>1, <1>3

\* So with those that go on.
LEMMA SweepOnProceeds ==
  ASSUME NEW t, NEW h, NEW i, SweepOn(h, i), Carries(pass, graph, t, h),
         pass \notin {11, 12, 13, 14}
  PROVE  Proceeds(pass, graph, t, pass', next', graph')
<1>1. graph' = h /\ next' = i + 1 /\ pass' = pass
  BY DEF SweepOn
<1>2. Proceeds(pass, graph, t, pass, i + 1, h)
  BY OrderedElsewhere, CarriesProceeds
<1>3. QED
  BY <1>1, <1>2

\* pass_algebraic_simplify and pass_identity_elim.
LEMMA SimplifyProceeds ==
  ASSUME IInv, NEW t, Settled(pass, graph, t), AlgebraicSimplify \/ IdentityElim
  PROVE  Proceeds(pass, graph, t, pass', next', graph')
<1>1. Sound(graph) /\ Acyclic(graph)
  BY DEF IInv
<1>2. pass \notin {12, 13, 14}
  <2>1. Running("algebraic_simplify") \/ Running("identity_elim")
    BY DEF AlgebraicSimplify, IdentityElim
  <2>2. QED
    BY <2>1, PassNumbers
<1>3. PICK i \in Found :
        \E v \in Simplified(graph, graph.ops[i]) \cup Identity(graph, graph.ops[i]) :
          Restart(Replaced(graph, graph.ops[i], v))
  BY DEF AlgebraicSimplify, IdentityElim
<1> DEFINE o == graph.ops[i]
<1>4. o \in Live(graph)
  BY <1>1, FoundFacts
<1>5. PICK v \in Simplified(graph, o) \cup Identity(graph, o) : Restart(Replaced(graph, o, v))
  BY <1>3
<1> HIDE DEF o
<1> DEFINE h == Replaced(graph, o, v)
<1>6. Carries(pass, graph, t, h)
  BY <1>1, <1>4, SimplifySettled
<1>7. Restart(h)
  BY <1>5
<1> HIDE DEF h
<1>8. QED
  BY <1>2, <1>6, <1>7, RestartProceeds

\* pass_shape_infer.
LEMMA ShapeInferProceeds ==
  ASSUME IInv, NEW t, Settled(pass, graph, t), ShapeInfer
  PROVE  Proceeds(pass, graph, t, pass', next', graph')
<1>1. PICK i \in Found :
        SweepOn([graph EXCEPT !.value[graph.ops[i]].type =
                   Inferred(graph, graph.ops[i])], i)
  BY DEF ShapeInfer
<1> DEFINE o == graph.ops[i]
           h == [graph EXCEPT !.value[o].type = Inferred(graph, o)]
<1>2. Running("shape_infer")
  BY DEF ShapeInfer
<1>3. /\ Sound(graph) /\ o \in Live(graph)
      /\ Matches(graph, "shape_infer", i)
  BY <1>2, RunningFinds DEF IInv
<1>4. IsInferrable(graph, o)
  BY <1>3 DEF Matches
<1>5. SweepOn(h, i)
  BY <1>1
<1> HIDE DEF o
<1>6. Carries(pass, graph, t, h)
  BY <1>3, <1>4, ShapeInferSettled
<1> HIDE DEF h
<1>7. pass = 3
  BY <1>2, PassNumbers
<1>8. QED
  BY <1>5, <1>6, <1>7, SweepOnProceeds

\* pass_shape_fold.
LEMMA ShapeFoldProceeds ==
  ASSUME IInv, NEW t, Settled(pass, graph, t), ShapeFold
  PROVE  Proceeds(pass, graph, t, pass', next', graph')
<1>1. PICK i \in Found :
        FoldInto(graph.ops[i], Extent(graph.value[Input(graph, graph.ops[i])].type.dims))
  BY Zenon DEF ShapeFold
<1> DEFINE o == graph.ops[i]
           n == Extent(graph.value[Input(graph, o)].type.dims)
           k == AddConstant(graph, graph.value[o].type, n)
           h == Replaced(k, o, Newest(k))
<1>2. Running("shape_fold")
  BY DEF ShapeFold
<1>3. /\ Sound(graph) /\ o \in Live(graph)
      /\ Matches(graph, "shape_fold", i)
  BY <1>2, RunningFinds DEF IInv
<1>4. IsFoldableSize(graph, o)
  BY <1>3 DEF Matches
<1>5. Restart(h)
  BY <1>1 DEF FoldInto
<1> HIDE DEF o
<1>6. Carries(pass, graph, t, h)
  BY <1>3, <1>4, ShapeFoldSettled
<1> HIDE DEF h
<1>7. pass = 4
  BY <1>2, PassNumbers
<1>8. QED
  BY <1>5, <1>6, <1>7, RestartProceeds

\* pass_constant_fold.
LEMMA ConstantFoldProceeds ==
  ASSUME IInv, NEW t, Settled(pass, graph, t), ConstantFold
  PROVE  Proceeds(pass, graph, t, pass', next', graph')
<1>1. PICK i \in Found : FoldInto(graph.ops[i], Folded(graph, graph.ops[i]))
  BY Zenon DEF ConstantFold
<1> DEFINE o == graph.ops[i]
           k == AddConstant(graph, graph.value[o].type, Folded(graph, o))
           h == Replaced(k, o, Newest(k))
<1>2. Running("constant_fold")
  BY DEF ConstantFold
<1>3. /\ Sound(graph) /\ o \in Live(graph)
      /\ Matches(graph, "constant_fold", i)
  BY <1>2, RunningFinds DEF IInv
<1>4. IsConstantExpr(graph, o)
  BY <1>3 DEF Matches
<1>5. Restart(h)
  BY <1>1 DEF FoldInto
<1> HIDE DEF o
<1>6. pass = 7
  BY <1>2, PassNumbers
<1>7. Carries(pass, graph, t, h)
  BY <1>3, <1>4, <1>6, ConstantFoldSettled
<1> HIDE DEF h
<1>8. QED
  BY <1>5, <1>6, <1>7, RestartProceeds

\* pass_dce and pass_shape_subgraph_elim.
LEMMA ErasuresProceed ==
  ASSUME IInv, NEW t, Settled(pass, graph, t), ShapeSubgraphElim \/ Dce
  PROVE  Proceeds(pass, graph, t, pass', next', graph')
<1>1. Sound(graph)
  BY DEF IInv
<1>2. /\ pass \notin {12, 13, 14}
      /\ \E i \in Found : Restart(EraseOp(graph, graph.ops[i])) /\ IsDead(graph, graph.ops[i])
  <2>1. CASE ShapeSubgraphElim
    <3>1. PICK i \in Found : Restart(EraseOp(graph, graph.ops[i]))
      BY <2>1 DEF ShapeSubgraphElim
    <3>2. Running("shape_subgraph_elim")
      BY <2>1 DEF ShapeSubgraphElim
    <3>3. Matches(graph, "shape_subgraph_elim", i) /\ pass = 5
      BY <3>2, RunningFinds, PassNumbers
    <3>4. IsDead(graph, graph.ops[i])
      BY <3>3 DEF Matches
    <3>5. QED
      BY <3>1, <3>3, <3>4
  <2>2. CASE Dce
    <3>1. PICK i \in Found : Restart(EraseOp(graph, graph.ops[i]))
      BY <2>2 DEF Dce
    <3>2. Running("dce")
      BY <2>2 DEF Dce
    <3>3. Matches(graph, "dce", i) /\ pass \in {9, 17}
      BY <3>2, RunningFinds, PassNumbers
    <3>4. IsDead(graph, graph.ops[i])
      BY <3>3 DEF Matches
    <3>5. QED
      BY <3>1, <3>3, <3>4
  <2>3. QED
    BY <2>1, <2>2
<1>3. PICK i \in Found : Restart(EraseOp(graph, graph.ops[i])) /\ IsDead(graph, graph.ops[i])
  BY <1>2
<1>4. graph.ops[i] \in Live(graph)
  BY <1>1, FoundFacts
<1> DEFINE h == EraseOp(graph, graph.ops[i])
<1>5. Carries(pass, graph, t, h)
  BY <1>1, <1>3, <1>4, ErasedSettled
<1>6. Restart(h)
  BY <1>3
<1> HIDE DEF h
<1>7. QED
  BY <1>2, <1>5, <1>6, RestartProceeds

\* pass_cse.
LEMMA CseProceeds ==
  ASSUME IInv, NEW t, Settled(pass, graph, t), Cse
  PROVE  Proceeds(pass, graph, t, pass', next', graph')
<1>1. PICK i \in Found :
        Restart(Replaced(graph, graph.ops[Least(Duplicates(graph, i))], graph.ops[i]))
  BY DEF Cse
<1>2. Running("cse")
  BY DEF Cse
<1> DEFINE D == Duplicates(graph, i)
           j == Least(D)
           keep == graph.ops[i]
           dup == graph.ops[j]
           h == Replaced(graph, dup, keep)
<1>3. /\ Sound(graph) /\ pass = 6
      /\ i \in 1 .. Len(graph.ops) /\ keep \in Live(graph)
      /\ Matches(graph, "cse", i)
  BY <1>2, RunningFinds, PassNumbers DEF IInv
<1>4. D # {}
  BY <1>3 DEF Matches
<1>5. /\ Len(graph.ops) \in Nat /\ DOMAIN graph.ops = 1 .. Len(graph.ops)
      /\ \A a, b \in DOMAIN graph.ops : graph.ops[a] = graph.ops[b] => a = b
  BY <1>3, SoundDomains DEF Sound, Listed, Once
<1>6. D = {k \in (i + 1) .. Len(graph.ops) :
             Equivalent(graph.value[graph.ops[i]], graph.value[graph.ops[k]])}
  BY DEF Duplicates
<1> HIDE DEF D
<1>7. j \in D
  <2>1. D \subseteq Nat
    BY <1>3, <1>5, <1>6
  <2>2. QED
    BY <1>4, <2>1, LeastIn
<1> HIDE DEF j
<1>8. /\ j \in DOMAIN graph.ops /\ j # i /\ i \in DOMAIN graph.ops
      /\ Equivalent(graph.value[keep], graph.value[dup])
  BY <1>3, <1>5, <1>6, <1>7
<1>9. dup \in Live(graph) /\ keep # dup
  BY <1>5, <1>8 DEF Live, ToSet
<1> HIDE DEF keep, dup
<1>10. Carries(pass, graph, t, h)
  BY <1>3, <1>8, <1>9, CseSettled
<1> HIDE DEF h
<1>11. Restart(h)
  BY <1>1 DEF h, keep, dup, j, D
<1>12. QED
  BY <1>3, <1>10, <1>11, RestartProceeds

\* pass_conv_bn_fusion.
LEMMA ConvBnFusionProceeds ==
  ASSUME IInv, NEW t, Settled(pass, graph, t), ConvBnFusion
  PROVE  Proceeds(pass, graph, t, pass', next', graph')
<1>1. PICK i \in Found :
        \E m \in NormalizedConvolutions(graph, graph.ops[i]) :
          \E marked \in {[graph EXCEPT !.value[m.conv] =
                           WithBn(@, graph.value[graph.ops[i]].type)]} :
          \E g \in {Replaced(marked, graph.ops[i], m.conv)} :
            Restart(EraseOp(g, m.mul))
  BY Zenon DEF ConvBnFusion
<1> DEFINE o == graph.ops[i]
<1>2. PICK m \in NormalizedConvolutions(graph, o) :
        Restart(EraseOp(Replaced([graph EXCEPT !.value[m.conv] =
                                   WithBn(@, graph.value[o].type)],
                                 o, m.conv), m.mul))
  BY <1>1
<1> DEFINE h == EraseOp(Replaced([graph EXCEPT !.value[m.conv] =
                                   WithBn(@, graph.value[o].type)],
                                 o, m.conv), m.mul)
<1>3. o \in Live(graph) /\ Sound(graph) /\ Acyclic(graph)
  BY FoundFacts DEF IInv
<1> HIDE DEF o
<1>4. pass = 8
  BY PassNumbers DEF ConvBnFusion
<1>5. /\ Settled(pass, h, Meaning(h))
      /\ m.conv \in Live(h) /\ o \in Live(graph) \ Live(h)
      /\ Drops(graph, t, h, m.conv, o)
  BY <1>3, <1>4, ConvBnSettled
<1>6. graph' = h /\ next' = 1 /\ pass' = pass
  BY <1>2 DEF Restart
<1> HIDE DEF h
<1>7. Ordered(pass, 1, h)
  BY <1>4, OrderedElsewhere
<1>8. Proceeds(pass, graph, t, pass, 1, h)
  BY <1>4, <1>5, <1>7 DEF Proceeds
<1>9. QED
  BY <1>6, <1>8

\* pass_fusion_detect.
LEMMA FusionDetectProceeds ==
  ASSUME IInv, NEW t, Settled(pass, graph, t), FusionDetect
  PROVE  Proceeds(pass, graph, t, pass', next', graph')
<1>1. PICK i \in Found :
        LET members == ToSet(Chain(graph, graph.ops[i]))
            id      == Cardinality(FusionGroups(graph))
        IN SweepOn([graph EXCEPT !.value = [v \in DOMAIN @ |->
                     IF v \in members THEN [@[v] EXCEPT !.attrs.fusion_group = id]
                     ELSE @[v]]], i)
  BY Zenon DEF FusionDetect
<1> DEFINE members == ToSet(Chain(graph, graph.ops[i]))
           id == Cardinality(FusionGroups(graph))
<1> HIDE DEF members, id
<1> DEFINE vs == [v \in DOMAIN graph.value |->
                   IF v \in members THEN [graph.value[v] EXCEPT !.attrs.fusion_group = id]
                   ELSE graph.value[v]]
           h == [graph EXCEPT !.value = vs]
<1>2. SweepOn(h, i)
  BY <1>1 DEF members, id
<1>3. Sound(graph) /\ pass = 10
  BY PassNumbers DEF IInv, FusionDetect
<1>4. ASSUME NEW v \in DOMAIN graph.value PROVE Formed(vs[v]) /\ Unseen(graph.value[v], vs[v])
  <2> DEFINE op == graph.value[v]
             q == [op EXCEPT !.attrs.fusion_group = id]
  <2>1. Formed(op)
    BY <1>3 DEF Sound, AllFormed
  <2>2. vs[v] = IF v \in members THEN q ELSE op
    OBVIOUS
  <2> HIDE DEF op, vs
  <2>3. Formed(q) /\ Unseen(op, q) /\ Unseen(op, op)
    BY <2>1, EditsAreFormed, UnseenEdits
  <2> HIDE DEF q
  <2>4. QED
    BY <2>1, <2>2, <2>3 DEF op
<1>5. vs = [v \in DOMAIN graph.value |-> vs[v]]
  OBVIOUS
<1> HIDE DEF vs
<1>6. Carries(pass, graph, t, h)
  BY <1>3, <1>4, <1>5, UnseenSettled
<1> HIDE DEF h
<1>7. QED
  BY <1>2, <1>3, <1>6, SweepOnProceeds

\* pass_transpose_elim.
LEMMA TransposeElimProceeds ==
  ASSUME IInv, NEW t, Settled(pass, graph, t), TransposeElim
  PROVE  Proceeds(pass, graph, t, pass', next', graph')
<1>1. PICK i \in Found :
       LET o        == graph.ops[i]
           prev     == Input(graph, o)
           composed == (Permutation(graph, prev) + Permutation(graph, o)) % 3
       IN \/ composed = 0 /\ Restart(Replaced(graph, o, Input(graph, prev)))
          \/ /\ composed # 0
             /\ \E g \in {AddOp(graph, Op("transpose", <<Input(graph, prev)>>,
                            graph.value[o].type, 0,
                            [NoAttrs EXCEPT !.permutation = composed]))} :
                  Restart(Replaced(g, o, Newest(g)))
  BY Zenon DEF TransposeElim
<1>2. Running("transpose_elim")
  BY DEF TransposeElim
<1> DEFINE o == graph.ops[i]
           prev == Input(graph, o)
           composed == (Permutation(graph, prev) + Permutation(graph, o)) % 3
           k == AddOp(graph, Op("transpose", <<Input(graph, prev)>>,
                                graph.value[o].type, 0,
                                [NoAttrs EXCEPT !.permutation = composed]))
           pair == Replaced(graph, o, Input(graph, prev))
           merged == Replaced(k, o, Newest(k))
<1>3. (composed = 0 /\ Restart(pair)) \/ Restart(merged)
  BY <1>1
<1>4. /\ Sound(graph) /\ Acyclic(graph) /\ o \in Live(graph)
      /\ Matches(graph, "transpose_elim", i)
      /\ pass = 11
  BY <1>2, RunningFinds, PassNumbers DEF IInv
<1>5. IsTransposePair(graph, o)
  BY <1>4 DEF Matches
<1> HIDE DEF o
<1>6. ASSUME composed = 0 PROVE Carries(pass, graph, t, pair)
  <2>1. (Permutation(graph, Input(graph, o)) + Permutation(graph, o)) % 3 = 0
    BY <1>6
  <2>2. QED
    BY <1>4, <1>5, <2>1, TransposePairSettled
<1>7. Carries(pass, graph, t, merged)
  <2>1. pass \in Nat /\ pass > 3
    BY <1>4
  <2>2. QED
    BY <1>4, <1>5, <2>1, TransposeMergeSettled DEF merged, k, composed, prev
<1> HIDE DEF pair, merged, composed
<1>8. QED
  BY <1>3, <1>4, <1>6, <1>7, RestartProceeds

\* Operators are never less than before a later pass, from the fourth on.
LEMMA AtGrows ==
  ASSUME NEW p \in Nat, NEW op, At(p, op), p # 3 \/ IsStatic(op.type)
  PROVE  At(p + 1, op)
BY DEF At

\* stage6_legalize.
LEMMA LegalizeProceeds ==
  ASSUME IInv, NEW t, Settled(pass, graph, t), Legalize
  PROVE  Proceeds(pass, graph, t, pass', next', graph')
<1> DEFINE vs == [v \in DOMAIN graph.value |->
                   [graph.value[v] EXCEPT !.legal =
                      v \in Live(graph) /\ graph.value[v].mnemonic \in Legalizable]]
           h == [graph EXCEPT !.value = vs]
<1>1. graph' = h /\ pass' = pass + 1 /\ next' = 1
  BY DEF Legalize
<1>2. Sound(graph) /\ pass = 18
  BY PassNumbers DEF IInv, Legalize
<1>3. ASSUME NEW v \in DOMAIN graph.value PROVE Formed(vs[v]) /\ Unseen(graph.value[v], vs[v])
  <2> DEFINE op == graph.value[v]
             yes == v \in Live(graph) /\ op.mnemonic \in Legalizable
             q == [op EXCEPT !.legal = yes]
  <2>1. Formed(op)
    BY <1>2 DEF Sound, AllFormed
  <2>2. vs[v] = q
    OBVIOUS
  <2> HIDE DEF op, yes, vs
  <2>3. Formed(q) /\ Unseen(op, q)
    BY <2>1, EditsAreFormed, UnseenEdits
  <2> HIDE DEF q
  <2>4. QED
    BY <2>2, <2>3 DEF op
<1>4. vs = [v \in DOMAIN graph.value |-> vs[v]]
  OBVIOUS
<1> HIDE DEF vs
<1>5. \A o \in Live(graph) : At(pass, graph.value[o]) => At(pass + 1, graph.value[o])
  BY <1>2, AtGrows
<1>6. Carries(pass + 1, graph, t, h)
  BY <1>2, <1>3, <1>4, <1>5, UnseenSettled
<1> HIDE DEF h
<1>7. Ordered(pass + 1, 1, h)
  BY <1>2, OrderedElsewhere
<1>8. Proceeds(pass, graph, t, pass + 1, 1, h)
  BY <1>6, <1>7, CarriesProceeds
<1>9. QED
  BY <1>1, <1>8

\* A transpose of a new operator that is none, in the place of o, makes no stack
\* with a convolution below.
LEMMA PushedNoStack ==
  ASSUME NEW g, Sound(g), NoStack(g), NEW o \in Live(g),
         NEW bop, Formed(bop), bop.mnemonic \in Binary,
         ToSet(bop.operands) \subseteq Sources(g),
         NEW top, Formed(top), top.mnemonic = "transpose",
         ToSet(top.operands) = {Newest(AddOp(g, bop))}
  PROVE  LET nt == AddOp(AddOp(g, bop), top) IN NoStack(Replaced(nt, o, Newest(nt)))
<1> DEFINE nb == AddOp(g, bop)
           nt == AddOp(nb, top)
           h == Replaced(nt, o, Newest(nt))
           b == Newest(nb)
           m == Newest(nt)
<1>1. bop.mnemonic # "arg" /\ bop.mnemonic # "transpose" /\ bop.mnemonic # "convolution"
      /\ top.mnemonic # "arg"
  BY DEF Binary
<1>2. /\ Sound(nb) /\ Sources(nb) = Sources(g) \cup {Len(g.value) + 1}
      /\ Added(g, bop, nb, Len(g.value) + 1)
  BY <1>1, AddOpSound, AddOpEntries
<1>3. /\ b \notin DOMAIN g.value /\ DOMAIN nb.value = (DOMAIN g.value) \cup {b}
      /\ \A v \in DOMAIN g.value : nb.value[v] = g.value[v]
      /\ nb.value[b] = bop
      /\ Live(nb) = Live(g) \cup {b}
      /\ b \in Sources(nb)
  BY <1>2 DEF Added
<1> HIDE DEF nb
<1>4. /\ Sound(nt) /\ Sources(nt) = Sources(nb) \cup {Len(nb.value) + 1}
      /\ Added(nb, top, nt, Len(nb.value) + 1)
  <2>1. ToSet(top.operands) \subseteq Sources(nb)
    BY <1>3 DEF nb
  <2>2. QED
    BY <1>1, <1>2, <2>1, AddOpSound, AddOpEntries
<1>5. /\ m \notin DOMAIN nb.value
      /\ \A v \in DOMAIN nb.value : nt.value[v] = nb.value[v]
      /\ nt.value[m] = top
      /\ Live(nt) = Live(nb) \cup {m}
      /\ m \in Sources(nt)
  BY <1>4 DEF Added
<1> HIDE DEF nt, b, m
<1>6. /\ Live(g) \subseteq DOMAIN g.value /\ o \in DOMAIN g.value
      /\ m # o /\ b # o /\ m # b /\ m \notin DOMAIN g.value
      /\ Live(nt) = Live(g) \cup {b, m} /\ o \in Live(nt)
      /\ nt.value[b] = bop /\ \A v \in Live(g) : nt.value[v] = g.value[v]
  BY <1>3, <1>5, OperandFacts
<1>7. /\ Live(h) = Live(nt) \ {o}
      /\ \A v \in Live(nt) : Rerouted(nt.value[v], h.value[v], o, m)
  BY <1>4, <1>5, <1>6, ReplacedFields DEF m
<1> HIDE DEF h
<1>8. \A v \in Live(nt) : h.value[v].mnemonic = nt.value[v].mnemonic
  BY <1>7 DEF Rerouted
<1>9. ASSUME NEW v \in Live(nt), nt.value[v].mnemonic = "transpose"
      PROVE  Input(h, v) = IF Input(nt, v) = o THEN m ELSE Input(nt, v)
  <2> DEFINE p == nt.value[v]
             q == h.value[v]
  <2>1. Formed(p) /\ 1 \in DOMAIN p.operands
    BY <1>4, <1>9, OperandFacts DEF Arity, Binary
  <2>2. Rerouted(p, q, o, m)
    BY <1>7
  <2> HIDE DEF p, q
  <2>3. q.operands[1] = IF p.operands[1] = o THEN m ELSE p.operands[1]
    BY <2>1, <2>2, ReroutedIsAlike
  <2>4. QED
    BY <2>3 DEF p, q, Input
<1>10. Input(nt, m) = b
  <2>1. 1 \in DOMAIN top.operands
    <3>1. Arity("transpose") = 1
      BY DEF Arity, Binary
    <3>2. QED
      BY <3>1 DEF Formed
  <2>2. top.operands[1] \in {b}
    BY <2>1 DEF ToSet, b, nb
  <2>3. QED
    BY <1>5, <2>2 DEF Input
<1>11. ASSUME NEW u \in Live(h), h.value[u].mnemonic = "transpose",
              Is(h, Input(h, u), "transpose"),
              Is(h, Input(h, Input(h, u)), "convolution")
       PROVE  FALSE
  <2> DEFINE w == Input(h, u)
             x == Input(h, w)
  <2>1. /\ u \in Live(nt) /\ nt.value[u].mnemonic = "transpose"
        /\ w \in Live(nt) /\ w # o /\ nt.value[w].mnemonic = "transpose"
        /\ x \in Live(nt) /\ x # o /\ nt.value[x].mnemonic = "convolution"
    BY <1>7, <1>8, <1>11 DEF Is
  <2>2. /\ w = IF Input(nt, u) = o THEN m ELSE Input(nt, u)
        /\ x = IF Input(nt, w) = o THEN m ELSE Input(nt, w)
    BY <1>9, <2>1
  <2> HIDE DEF w, x
  <2>3. w # b /\ x # b /\ x # m
    BY <1>1, <1>5, <1>6, <2>1
  <2>4. w # m /\ u # m
    BY <1>6, <1>10, <2>2, <2>3
  <2>5. u # b
    BY <1>1, <1>6, <2>1
  <2>6. u \in Live(g) /\ w \in Live(g) /\ x \in Live(g)
    BY <1>6, <2>1, <2>3, <2>4, <2>5
  <2>7. w = Input(nt, u) /\ x = Input(nt, w)
    BY <2>2, <2>3, <2>4
  <2>8. w = Input(g, u) /\ x = Input(g, w)
    BY <1>6, <2>6, <2>7 DEF Input
  <2>9. QED
    BY <1>6, <2>1, <2>6, <2>8 DEF NoStack, Is
<1>12. NoStack(h)
  BY <1>11 DEF NoStack
<1>13. QED
  BY <1>12 DEF h, m, nt, nb

\* pass_transpose_push.
LEMMA TransposePushProceeds ==
  ASSUME IInv, NEW t, Settled(pass, graph, t), Ordered(pass, next, graph), TransposePush
  PROVE  Proceeds(pass, graph, t, pass', next', graph')
<1>1. PICK i \in Found :
       LET o  == graph.ops[i]
           op == graph.value[o]
           l  == Input(graph, op.operands[1])
           r  == Input(graph, op.operands[2])
       IN \E nb \in {AddOp(graph, Op(op.mnemonic, <<l, r>>, graph.value[l].type, 0,
                       [op.attrs EXCEPT !.fusion_group = NoGroup]))} :
          \E nt \in {AddOp(nb, Op("transpose", <<Newest(nb)>>, op.type, 0,
                       [NoAttrs EXCEPT !.permutation =
                          Permutation(graph, op.operands[1])]))} :
            Restart(Replaced(nt, o, Newest(nt)))
  BY Zenon DEF TransposePush
<1>2. Running("transpose_push")
  BY DEF TransposePush
<1> DEFINE o == graph.ops[i]
           op == graph.value[o]
           t1 == op.operands[1]
           t2 == op.operands[2]
           l == Input(graph, t1)
           r == Input(graph, t2)
           n == Permutation(graph, t1)
           bop == Op(op.mnemonic, <<l, r>>, graph.value[l].type, 0,
                     [op.attrs EXCEPT !.fusion_group = NoGroup])
           nb == AddOp(graph, bop)
           top == Op("transpose", <<Newest(nb)>>, op.type, 0, [NoAttrs EXCEPT !.permutation = n])
           nt == AddOp(nb, top)
           h == Replaced(nt, o, Newest(nt))
<1>3. Restart(h)
  BY <1>1
<1>4. /\ Sound(graph) /\ Acyclic(graph) /\ o \in Live(graph)
      /\ Matches(graph, "transpose_push", i) /\ pass = 12
  BY <1>2, RunningFinds, PassNumbers DEF IInv
<1>5. IsPushable(graph, o)
  BY <1>4 DEF Matches
<1>6. Carries(pass, graph, t, h)
  <2> HIDE DEF o
  <2>1. pass \in Nat /\ pass > 3
    BY <1>4
  <2>2. QED
    BY <1>4, <1>5, <2>1, TransposePushSettled
<1>7. /\ op.mnemonic \in Binary
      /\ t1 \in Live(graph) /\ graph.value[t1].mnemonic = "transpose"
      /\ t2 \in Live(graph) /\ graph.value[t2].mnemonic = "transpose"
      /\ WellAttributed(op.attrs) /\ op.type \in Types
  <2>1. /\ op.mnemonic \in Binary
        /\ \A v \in Operands(graph, o) : v \in Live(graph) /\ graph.value[v].mnemonic = "transpose"
    BY <1>5 DEF IsPushable, Is
  <2>2. Arity(op.mnemonic) = 2
    BY <2>1 DEF Arity, Binary
  <2>3. /\ Formed(op)
        /\ \A k \in 1 .. Arity(op.mnemonic) : op.operands[k] \in Operands(graph, o)
    BY <1>4, OperandFacts
  <2>4. t1 \in Operands(graph, o) /\ t2 \in Operands(graph, o)
    <3>1. 1 \in 1 .. Arity(op.mnemonic) /\ 2 \in 1 .. Arity(op.mnemonic)
      BY <2>2
    <3>2. QED
      BY <2>3, <3>1
  <2>5. QED
    BY <2>1, <2>3, <2>4 DEF Formed
<1>8. /\ l \in Sources(graph) /\ l \in Nat /\ r \in Sources(graph) /\ r \in Nat
      /\ n \in Rotations
  <2> HIDE DEF t1, t2
  <2>1. QED
    BY <1>4, <1>7, TransposeTensor
<1> HIDE DEF o, t1, t2, l, r, n
<1>9. /\ Formed(bop) /\ bop.mnemonic \in Binary
      /\ ToSet(bop.operands) \subseteq Sources(graph)
  <2> DEFINE mn == op.mnemonic
             a == op.attrs
             type == graph.value[l].type
  <2>1. mn \in Binary /\ WellAttributed(a) /\ type \in Types
    BY <1>4, <1>7, <1>8, SoundDomains DEF Sound, AllFormed, Formed
  <2> HIDE DEF mn, a, type
  <2>2. LET q == Op(mn, <<l, r>>, type, 0, [a EXCEPT !.fusion_group = NoGroup]) IN
        Formed(q) /\ q.mnemonic = mn /\ ToSet(q.operands) = {l, r}
    BY <1>8, <2>1, BinaryIsFormed
  <2>3. QED
    BY <1>8, <2>1, <2>2 DEF mn, a, type
<1> HIDE DEF bop
<1>10. Newest(nb) \in Nat
  <2>1. Added(graph, bop, nb, Len(graph.value) + 1) /\ Len(graph.value) \in Nat
    BY <1>4, AddOpEntries, SoundDomains
  <2> HIDE DEF nb
  <2>2. QED
    BY <2>1 DEF Added
<1>11. Formed(top) /\ top.mnemonic = "transpose" /\ ToSet(top.operands) = {Newest(nb)}
  <2> DEFINE ty == op.type
             x == Newest(nb)
  <2>1. ty \in Types /\ x \in Nat
    BY <1>7, <1>10
  <2> HIDE DEF ty, x
  <2>2. LET q == Op("transpose", <<x>>, ty, 0, [NoAttrs EXCEPT !.permutation = n]) IN
        Formed(q) /\ q.mnemonic = "transpose" /\ ToSet(q.operands) = {x}
    BY <1>8, <2>1, TransposeIsFormed
  <2>3. QED
    BY <2>2 DEF ty, x
<1> HIDE DEF top
<1>12. NoStack(h)
  <2>1. NoStack(graph)
    BY <1>4 DEF Ordered
  <2>2. NoStack(Replaced(AddOp(AddOp(graph, bop), top), o, Newest(AddOp(AddOp(graph, bop), top))))
    BY <1>4, <1>9, <1>11, <2>1, PushedNoStack
  <2>3. QED
    BY <2>2
<1> HIDE DEF h
<1>13. graph' = h /\ next' = 1 /\ pass' = pass
  BY <1>3 DEF Restart
<1>14. Ordered(pass, 1, h)
  BY <1>4, <1>12 DEF Ordered
<1>15. Proceeds(pass, graph, t, pass, 1, h)
  BY <1>6, <1>14, CarriesProceeds
<1>16. QED
  BY <1>13, <1>15

\* After a convolution has been folded with the transpose o of its result, the
\* transposes read what they have read before.
LEMMA OutputsStayUnturned ==
  ASSUME NEW g, Sound(g), NoStack(g), Unturned(g), NEW o \in Live(g), IsOutputLayout(g, o),
         NEW h, NEW q, Reshaped(g, h, o, Input(g, o), q, {o})
  PROVE  NoStack(h) /\ Unturned(h)
<1> DEFINE c == Input(g, o)
<1>1. /\ g.value[o].mnemonic = "transpose" /\ Is(g, c, "convolution")
      /\ c \in Live(g) /\ HasOneUser(g, c)
  BY DEF IsOutputLayout, Is
<1>2. c \in Operands(g, o)
  <2>1. Arity("transpose") = 1
    BY DEF Arity, Binary
  <2>2. QED
    BY <1>1, <2>1, OperandFacts DEF Input
<1>3. \A u \in Live(g) : c \in Operands(g, u) => u = o
  BY <1>1, <1>2, OnlyReader, OperandFacts
<1>4. /\ Live(h) = Live(g) \ {o}
      /\ \A u \in Live(g) : u # c => Rerouted(g.value[u], h.value[u], o, c)
      /\ h.value[c].operands = g.value[c].operands
  BY DEF Reshaped
<1>5. ASSUME NEW u \in Live(h)
      PROVE  /\ u \in Live(g) /\ u # o
             /\ u # c => h.value[u].mnemonic = g.value[u].mnemonic
                         /\ h.value[u].attrs = g.value[u].attrs
  BY <1>4 DEF Rerouted
<1>6. ASSUME NEW u \in Live(g), g.value[u].mnemonic = "transpose", u # o, u # c
      PROVE  Input(h, u) = Input(g, u) /\ Input(h, u) # c
  <2> DEFINE a == g.value[u]
             b == h.value[u]
  <2>1. Formed(a) /\ 1 \in DOMAIN a.operands /\ a.operands[1] \in Operands(g, u)
    <3>1. Arity("transpose") = 1
      BY DEF Arity, Binary
    <3>2. QED
      BY <1>6, <3>1, OperandFacts
  <2>2. a.operands[1] # o
    BY <1>1, <1>6 DEF NoStack, Input, Is
  <2>3. Rerouted(a, b, o, c)
    BY <1>4, <1>6
  <2> HIDE DEF a, b, c
  <2>4. b.operands[1] = IF a.operands[1] = o THEN c ELSE a.operands[1]
    BY <2>1, <2>3, ReroutedIsAlike
  <2>5. b.operands[1] = a.operands[1] /\ a.operands[1] # c
    BY <1>3, <1>6, <2>1, <2>2, <2>4
  <2>6. QED
    BY <2>5 DEF a, b, Input
<1>7. h.value[c].mnemonic # "transpose"
  <2>1. CASE c \in Live(h) /\ h.value[c].mnemonic = "transpose"
    <3>1. Sound(h)
      BY DEF Reshaped
    <3>2. Len(h.value[c].operands) = Arity("transpose")
      BY <2>1, <3>1, OperandFacts
    <3>3. Len(g.value[c].operands) = Arity("convolution")
      BY <1>1, OperandFacts DEF Is
    <3>4. Arity("transpose") = 1 /\ Arity("convolution") = 2
      BY DEF Arity, Binary
    <3>5. QED
      BY <1>4, <3>2, <3>3, <3>4
  <2>2. c \in Live(h)
    BY DEF Reshaped
  <2>3. QED
    BY <2>1, <2>2
<1> HIDE DEF c
<1>8. ASSUME NEW u \in Live(h), h.value[u].mnemonic = "transpose"
      PROVE  /\ u \in Live(g) /\ g.value[u].mnemonic = "transpose"
             /\ Input(h, u) = Input(g, u) /\ Input(h, u) # c
  BY <1>5, <1>6, <1>7, <1>8
<1>9. NoStack(h)
  <2>1. ASSUME NEW u \in Live(h), h.value[u].mnemonic = "transpose",
               Is(h, Input(h, u), "transpose"),
               Is(h, Input(h, Input(h, u)), "convolution")
        PROVE  FALSE
    <3> DEFINE w == Input(h, u)
               x == Input(h, w)
    <3>1. w \in Live(h) /\ h.value[w].mnemonic = "transpose"
          /\ x \in Live(h) /\ h.value[x].mnemonic = "convolution"
      BY <2>1 DEF Is
    <3>2. /\ u \in Live(g) /\ g.value[u].mnemonic = "transpose" /\ w = Input(g, u)
      BY <1>8, <2>1
    <3> HIDE DEF w
    <3>3. /\ w \in Live(g) /\ g.value[w].mnemonic = "transpose" /\ x = Input(g, w) /\ x # c
      BY <1>8, <3>1
    <3> HIDE DEF x
    <3>4. x \in Live(g) /\ g.value[x].mnemonic = "convolution"
      BY <1>5, <3>1, <3>3
    <3>5. QED
      BY <3>2, <3>3, <3>4 DEF NoStack, Is
  <2>2. QED
    BY <2>1 DEF NoStack
<1>10. Unturned(h)
  <2>1. ASSUME NEW u \in Live(h), h.value[u].mnemonic = "transpose",
               Is(h, Input(h, u), "convolution")
        PROVE  h.value[Input(h, u)].attrs.layout # "NHWC"
    <3> DEFINE x == Input(h, u)
    <3>1. x \in Live(h) /\ h.value[x].mnemonic = "convolution"
      BY <2>1 DEF Is
    <3>2. /\ u \in Live(g) /\ g.value[u].mnemonic = "transpose" /\ x = Input(g, u) /\ x # c
      BY <1>8, <2>1
    <3> HIDE DEF x
    <3>3. /\ x \in Live(g) /\ g.value[x].mnemonic = "convolution"
          /\ h.value[x].attrs = g.value[x].attrs
      BY <1>5, <3>1, <3>2
    <3>4. g.value[x].attrs.layout # "NHWC"
      BY <3>2, <3>3 DEF Unturned, Is
    <3>5. QED
      BY <3>3, <3>4 DEF x
  <2>2. QED
    BY <2>1 DEF Unturned
<1>11. QED
  BY <1>9, <1>10

\* pass_nchw_nhwc_layout.
LEMMA NchwNhwcLayoutProceeds ==
  ASSUME IInv, NEW t, Settled(pass, graph, t), Ordered(pass, next, graph), NchwNhwcLayout
  PROVE  Proceeds(pass, graph, t, pass', next', graph')
<1>1. PICK i \in Found :
       LET o    == graph.ops[i]
           conv == Input(graph, o)
           g    == [graph EXCEPT !.value[conv] = WithNhwcOutput(@)]
       IN SweepOn(Replaced(g, o, conv), i)
  BY Zenon DEF NchwNhwcLayout
<1>2. Running("nchw_nhwc_layout")
  BY DEF NchwNhwcLayout
<1> DEFINE o == graph.ops[i]
           conv == Input(graph, o)
           g == [graph EXCEPT !.value[conv] = WithNhwcOutput(@)]
           h == Replaced(g, o, conv)
           q == WithNhwcOutput(graph.value[conv])
<1>3. SweepOn(h, i)
  BY <1>1
<1>4. /\ Sound(graph) /\ Acyclic(graph) /\ o \in Live(graph)
      /\ Matches(graph, "nchw_nhwc_layout", i) /\ pass = 13
  BY <1>2, RunningFinds, PassNumbers DEF IInv
<1>5. IsOutputLayout(graph, o)
  BY <1>4 DEF Matches
<1>6. NoStack(graph) /\ Unturned(graph)
  BY <1>4 DEF Ordered
<1> HIDE DEF o
<1>7. graph.value[conv].attrs.layout # "NHWC"
  BY <1>4, <1>5, <1>6 DEF Unturned, IsOutputLayout
<1>8. CarriesUnread(pass, graph, t, h) /\ Reshaped(graph, h, o, conv, q, {o})
  <2>1. pass \in Nat /\ pass > 12
    BY <1>4
  <2>2. QED
    BY <1>4, <1>5, <1>7, <2>1, OutputLayoutSettled
<1> HIDE DEF h, q
<1>9. NoStack(h) /\ Unturned(h)
  BY <1>4, <1>5, <1>6, <1>8, OutputsStayUnturned
<1>10. graph' = h /\ next' = i + 1 /\ pass' = pass
  BY <1>3 DEF SweepOn
<1>11. Ordered(pass, i + 1, h)
  BY <1>4, <1>9 DEF Ordered
<1>12. Proceeds(pass, graph, t, pass, i + 1, h)
  BY <1>4, <1>8, <1>11, CarriesUnreadProceeds
<1>13. QED
  BY <1>10, <1>12

\* After a convolution has been folded with the transpose o of its input, the list
\* goes on as before behind its place.
LEMMA InputsStayUnturned ==
  ASSUME NEW g, Sound(g), NEW n \in Nat, UnturnedInputs(g, n),
         NEW i \in DOMAIN g.ops, i >= n, NEW o, NEW x, NEW q, NEW h,
         Bypassed(g, h, o, g.ops[i], x, q),
         NEW p \in DOMAIN g.ops, h.ops = RemoveAt(g.ops, p)
  PROVE  UnturnedInputs(h, i + 1)
<1>1. /\ Table(g.ops) /\ Once(g)
      /\ Len(g.ops) \in Nat /\ DOMAIN g.ops = 1 .. Len(g.ops)
  BY SoundDomains DEF Sound, Tables, Listed
<1>2. /\ Table(h.ops) /\ Len(h.ops) = Len(g.ops) - 1
      /\ \A j \in DOMAIN h.ops : h.ops[j] = g.ops[IF j < p THEN j ELSE j + 1]
  BY <1>1, TableRemove
<1>3. DOMAIN h.ops = 1 .. Len(g.ops) - 1
  BY <1>2, TableIsSeq
<1>4. \A u \in Live(g) : u # g.ops[i] => h.value[u].attrs = g.value[u].attrs
  BY DEF Bypassed, Rerouted
<1>5. ASSUME NEW j \in DOMAIN h.ops, j >= i + 1
      PROVE  h.value[h.ops[j]].attrs.input_layout # "NHWC"
  <2> DEFINE m == IF j < p THEN j ELSE j + 1
  <2>1. m \in DOMAIN g.ops /\ m # i /\ m >= n /\ h.ops[j] = g.ops[m]
    BY <1>1, <1>2, <1>3, <1>5
  <2> HIDE DEF m
  <2>2. g.ops[m] \in Live(g) /\ g.ops[m] # g.ops[i]
    BY <1>1, <2>1 DEF Once, Live, ToSet
  <2>3. g.value[g.ops[m]].attrs.input_layout # "NHWC"
    BY <2>1 DEF UnturnedInputs
  <2>4. QED
    BY <1>4, <2>1, <2>2, <2>3
<1>6. QED
  BY <1>5 DEF UnturnedInputs

\* The transpose has no reader left then, so that it is erased.
LEMMA InputLayoutErases ==
  ASSUME NEW g, Sound(g), Acyclic(g), NEW conv \in Live(g), IsInputLayout(g, conv)
  PROVE  LET t == Input(g, conv)
             k == [g EXCEPT !.value[conv].attrs.input_layout = "NHWC"]
             l == ReplaceAllUses(k, t, Input(g, t))
         IN  /\ l.users[t] = {}
             /\ Replaced(k, t, Input(g, t)) = EraseOp(l, t)
             /\ \E p \in DOMAIN g.ops : EraseOp(l, t).ops = RemoveAt(g.ops, p)
<1> DEFINE t == Input(g, conv)
           x == Input(g, t)
           q == [g.value[conv] EXCEPT !.attrs.input_layout = "NHWC"]
           k == [g EXCEPT !.value = [g.value EXCEPT ![conv] = q]]
           l == ReplaceAllUses(k, t, x)
<1>1. PICK rank : Ranks(g, rank)
  BY DEF Acyclic
<1>2. /\ g.value[conv].mnemonic = "convolution"
      /\ t \in Live(g) /\ g.value[t].mnemonic = "transpose"
  BY DEF IsInputLayout, Is
<1>3. x \in Sources(g) /\ rank[x] < rank[t] /\ rank[x] \in Nat /\ rank[t] \in Nat
  BY <1>1, <1>2, TransposeFacts
<1>4. [g EXCEPT !.value[conv].attrs.input_layout = "NHWC"] = k
  BY DEF k, q
<1> HIDE DEF t, x
<1>5. conv \in DOMAIN g.value /\ Formed(g.value[conv])
  BY OperandFacts
<1>6. Formed(q) /\ q.mnemonic = g.value[conv].mnemonic
      /\ q.operands = g.value[conv].operands
  BY <1>5, EditsAreFormed
<1> HIDE DEF q
<1>7. Retouched(g, k) /\ k.ops = g.ops
  BY <1>5, <1>6, RetouchedOne
<1> HIDE DEF k
<1>8. Sound(k) /\ Live(k) = Live(g) /\ Sources(k) = Sources(g)
  BY <1>7, RetouchedSound
<1>9. t \in Sources(k) /\ x \in Sources(k) /\ t # x
  BY <1>2, <1>3, <1>8 DEF Sources
<1>10. Rewired(k, t, x, l)
  BY <1>8, <1>9, RewiredEntries
<1>11. Sound(l) /\ Live(l) = Live(k)
  BY <1>8, <1>9, RewiredSound
<1>12. Replaced(k, t, x) = EraseOp(l, t)
  BY Zenon DEF Replaced, l
<1> HIDE DEF l
<1>13. l.users[t] = {} /\ l.ops = g.ops
  BY <1>7, <1>10 DEF Rewired
<1>14. EraseOp(l, t).ops = RemoveAt(g.ops, Position(l, t))
  BY <1>11, <1>13, EditedReturns
<1>15. Position(l, t) \in DOMAIN g.ops
  <2>1. Table(g.ops)
    BY DEF Sound, Tables
  <2>2. \E p \in DOMAIN g.ops : g.ops[p] = t
    BY <1>2, <2>1, TableIsSeq DEF Live, ToSet
  <2>3. QED
    BY <1>13, <2>2 DEF Position
<1>16. QED
  BY <1>4, <1>12, <1>13, <1>14, <1>15 DEF l, t, x

\* The passes after the third look for the next position ahead.
LEMMA FoundAhead ==
  ASSUME Sound(graph), pass = 14, NEW i \in Found
  PROVE  i >= next
<1> DEFINE p == Pipeline[pass]
           hits == {k \in DOMAIN graph.ops : Matches(graph, p, k)}
           ahead == {k \in hits : k >= next}
<1>1. p = "nhwc_nchw_layout"
  BY DEF Pipeline
<1>2. i \in CASE p \in {"dce", "shape_subgraph_elim"} /\ hits # {} -> {Greatest(hits)}
              [] p \notin {"dce", "shape_subgraph_elim"} /\ ahead # {} -> {Least(ahead)}
              [] p = "shape_infer" /\ ahead = {} /\ hits # {} -> {Least(hits)}
              [] OTHER -> {}
  BY Zenon DEF Found
<1>3. ahead \subseteq Nat /\ \A k \in ahead : k >= next
  BY SoundDomains
<1> HIDE DEF p, hits, ahead
<1>4. ahead # {} => Least(ahead) \in ahead
  BY <1>3, LeastIn
<1>5. i \in ahead
  BY <1>1, <1>2, <1>4
<1>6. QED
  BY <1>3, <1>5

\* pass_nhwc_nchw_layout.
LEMMA NhwcNchwLayoutProceeds ==
  ASSUME IInv, NEW t, Settled(pass, graph, t), Ordered(pass, next, graph), NhwcNchwLayout
  PROVE  Proceeds(pass, graph, t, pass', next', graph')
<1>1. PICK i \in Found :
       LET conv == graph.ops[i]
           o    == Input(graph, conv)
           g    == ReplaceAllUses(
                     [graph EXCEPT !.value[conv].attrs.input_layout = "NHWC"],
                     o, Input(graph, o))
       IN SweepOn(IF g.users[o] = {} THEN EraseOp(g, o) ELSE g, i)
  BY Zenon DEF NhwcNchwLayout
<1>2. Running("nhwc_nchw_layout")
  BY DEF NhwcNchwLayout
<1> DEFINE conv == graph.ops[i]
           o == Input(graph, conv)
           x == Input(graph, o)
           k == [graph EXCEPT !.value[conv].attrs.input_layout = "NHWC"]
           g == ReplaceAllUses(k, o, x)
           h == Replaced(k, o, x)
<1>3. SweepOn(IF g.users[o] = {} THEN EraseOp(g, o) ELSE g, i)
  BY <1>1
<1>4. /\ Sound(graph) /\ Acyclic(graph) /\ conv \in Live(graph) /\ i \in DOMAIN graph.ops
      /\ Matches(graph, "nhwc_nchw_layout", i) /\ pass = 14 /\ next \in Nat
  BY <1>2, RunningFinds, PassNumbers, SoundDomains DEF IInv
<1>5. IsInputLayout(graph, conv)
  BY <1>4 DEF Matches
<1>6. UnturnedInputs(graph, next) /\ i >= next
  BY <1>4, FoundAhead DEF Ordered
<1>7. graph.value[conv].attrs.input_layout # "NHWC"
  BY <1>4, <1>6 DEF UnturnedInputs
<1>8. /\ g.users[o] = {} /\ h = EraseOp(g, o)
      /\ \E p \in DOMAIN graph.ops : h.ops = RemoveAt(graph.ops, p)
  <2> HIDE DEF conv
  <2>1. QED
    BY <1>4, <1>5, InputLayoutErases
<1>9. PICK p \in DOMAIN graph.ops : h.ops = RemoveAt(graph.ops, p)
  BY <1>8
<1>10. CarriesUnread(pass, graph, t, h) /\ \E q : Bypassed(graph, h, o, conv, x, q)
  <2>1. pass \in Nat /\ pass > 13
    BY <1>4
  <2> HIDE DEF conv
  <2>2. QED
    BY <1>4, <1>5, <1>7, <2>1, InputLayoutSettled
<1>11. PICK q : Bypassed(graph, h, o, conv, x, q)
  BY <1>10
<1>12. SweepOn(h, i)
  <2> HIDE DEF g, h
  <2>1. QED
    BY <1>3, <1>8
<1> HIDE DEF g, h, o, x
<1>13. UnturnedInputs(h, i + 1)
  BY <1>4, <1>6, <1>9, <1>11, InputsStayUnturned
<1>14. graph' = h /\ next' = i + 1 /\ pass' = pass
  BY <1>12 DEF SweepOn
<1>15. Ordered(pass, i + 1, h)
  BY <1>4, <1>13 DEF Ordered
<1>16. Proceeds(pass, graph, t, pass, i + 1, h)
  BY <1>4, <1>10, <1>15, CarriesUnreadProceeds
<1>17. QED
  BY <1>14, <1>16

\* A pass that finds nothing has nothing left to rewrite, if it looks from the first
\* position on or goes round again.
LEMMA NothingFound ==
  ASSUME Sound(graph), Found = {}, next = 1 \/ Pipeline[pass] = "shape_infer",
         NEW i \in DOMAIN graph.ops
  PROVE  ~Matches(graph, Pipeline[pass], i)
<1> DEFINE p == Pipeline[pass]
           hits == {k \in DOMAIN graph.ops : Matches(graph, p, k)}
           ahead == {k \in hits : k >= next}
           none == {}
<1>1. none = CASE p \in {"dce", "shape_subgraph_elim"} /\ hits # {} -> {Greatest(hits)}
              [] p \notin {"dce", "shape_subgraph_elim"} /\ ahead # {} -> {Least(ahead)}
              [] p = "shape_infer" /\ ahead = {} /\ hits # {} -> {Least(hits)}
              [] OTHER -> {}
  <2>1. Found = none
    OBVIOUS
  <2> HIDE DEF none
  <2>2. QED
    BY Zenon, <2>1 DEF Found
<1>2. next = 1 => ahead = hits
  BY SoundDomains
<1>3. p = "shape_infer" \/ next = 1
  OBVIOUS
<1>4. i \in hits <=> Matches(graph, p, i)
  OBVIOUS
<1> DEFINE first == Least(ahead)
           last == Greatest(hits)
           some == Least(hits)
<1> HIDE DEF p, hits, ahead
<1> HIDE DEF first, last, some
<1>5. hits = {}
  BY <1>1, <1>2, <1>3 DEF first, last, some
<1>6. QED
  BY <1>4, <1>5 DEF p

\* An operator without a shape gets one when its operands have theirs.
LEMMA InferrableIf ==
  ASSUME NEW g, Sound(g), NEW o \in Live(g), NEW p, At(p, g.value[o]),
         ~IsStatic(g.value[o].type),
         \A v \in Operands(g, o) : IsStatic(g.value[v].type)
  PROVE  IsInferrable(g, o)
<1> DEFINE op == g.value[o]
           in == g.value[op.operands[1]].type
           out == g.value[Last(op.operands)].type
           shift == [in EXCEPT !.dims = (@ + op.attrs.permutation) % 3]
           some == [op.type EXCEPT !.dims = Dynamic]
           any == BroadcastShapes(in, out)
<1>1. Inferred(g, o) = CASE op.mnemonic \in Elementwise -> any
                         [] op.mnemonic = "transpose" /\ IsStatic(in) -> shift
                         [] OTHER -> some
  BY Zenon DEF Inferred
<1>2. op.mnemonic \in Elementwise \/ op.mnemonic = "transpose"
  BY DEF At, Flexible
<1>3. Arity(op.mnemonic) \in {1, 2}
  BY <1>2 DEF Arity, Elementwise, Binary
<1>4. op.operands[1] \in Operands(g, o) /\ op.attrs.permutation \in Rotations
  <2>1. 1 \in 1 .. Arity(op.mnemonic)
    BY <1>3
  <2>2. QED
    BY <2>1, OperandFacts DEF Formed, WellAttributed
<1>5. IsStatic(in) /\ in \in Types
  BY <1>4, OperandFacts, SoundDomains DEF Sound, AllFormed, Formed
<1>6. IsStatic(any)
  BY <1>5 DEF BroadcastShapes
<1>7. IsStatic(shift)
  <2>1. in.dims \in 0 .. 2 /\ op.attrs.permutation \in 0 .. 2
    BY <1>4, <1>5 DEF Types, IsStatic, Rotations
  <2> DEFINE d == (in.dims + op.attrs.permutation) % 3
  <2>2. d # -1
    BY <2>1
  <2> HIDE DEF op, in
  <2>3. shift.dims = d
    BY <1>5 DEF Types
  <2>4. QED
    BY <2>2, <2>3 DEF IsStatic, Dynamic
<1>8. "transpose" \notin Elementwise
  BY DEF Elementwise, Binary
<1> HIDE DEF op, in, any, shift, some
<1>9. IsStatic(Inferred(g, o))
  BY <1>1, <1>2, <1>5, <1>6, <1>7
<1>10. QED
  BY <1>9 DEF IsInferrable

\* Shape inference ends when every operator has a shape: of those without, one that
\* ranks lowest could be given one.
LEMMA AllStatic ==
  ASSUME NEW g, Sound(g), Acyclic(g), NEW p, NEW t, Settled(p, g, t),
         \A o \in Live(g) : ~IsInferrable(g, o)
  PROVE  \A o \in Live(g) : IsStatic(g.value[o].type)
<1>1. PICK rank : Ranks(g, rank)
  BY DEF Acyclic
<1> DEFINE D == {o \in Live(g) : ~IsStatic(g.value[o].type)}
           R == {rank[o] : o \in D}
<1>2. SUFFICES ASSUME D # {} PROVE FALSE
  OBVIOUS
<1>3. \A o \in Live(g) : rank[o] \in Nat
  BY <1>1, RankFacts DEF Sources
<1>4. R \subseteq Nat /\ R # {}
  BY <1>2, <1>3
<1>5. PICK n \in R : \A m \in R : n <= m
  BY <1>4, LeastNat
<1>6. PICK o \in D : n = rank[o]
  BY <1>5
<1>7. ASSUME NEW v \in Operands(g, o) PROVE IsStatic(g.value[v].type)
  <2>1. v \in Sources(g) /\ rank[v] < rank[o] /\ rank[v] \in Nat /\ rank[o] \in Nat
    BY <1>1, <1>3, RankFacts, OperandFacts
  <2>2. CASE v \in Live(g)
    <3>1. ASSUME v \in D PROVE FALSE
      <4>1. rank[v] \in R
        BY <3>1
      <4>2. rank[o] <= rank[v]
        BY <1>5, <1>6, <4>1
      <4>3. QED
        BY <2>1, <4>2
    <3>2. QED
      BY <2>2, <3>1
  <2>3. CASE v \in Arguments(g)
    BY <2>3, SettledFacts
  <2>4. QED
    BY <2>1, <2>2, <2>3 DEF Sources
<1>8. At(p, g.value[o]) /\ o \in Live(g) /\ ~IsStatic(g.value[o].type)
  BY SettledFacts
<1>9. IsInferrable(g, o)
  BY <1>7, <1>8, InferrableIf
<1>10. QED
  BY <1>8, <1>9

\* The end of a pass.
LEMMA EndPassProceeds ==
  ASSUME IInv, NEW t, Settled(pass, graph, t), Ordered(pass, next, graph), EndPass
  PROVE  Proceeds(pass, graph, t, pass', next', graph')
<1>1. /\ graph' = graph /\ pass' = pass + 1 /\ next' = 1 /\ Found = {} /\ ~Finished
      /\ Sound(graph) /\ Acyclic(graph)
  BY DEF EndPass, IInv
<1>2. pass \in 1 .. 19
  <2>1. Len(Pipeline) = 18
    BY DEF Pipeline
  <2>2. QED
    BY <2>1 DEF IInv
<1>3. ASSUME NEW o \in Live(graph)
      PROVE  \E i \in DOMAIN graph.ops : graph.ops[i] = o
  BY TableIsSeq DEF Live, ToSet, Sound, Tables
<1>4. ASSUME pass = 3
      PROVE  \A o \in Live(graph) : IsStatic(graph.value[o].type)
  <2>1. Pipeline[pass] = "shape_infer"
    BY <1>4 DEF Pipeline
  <2>2. ASSUME NEW o \in Live(graph) PROVE ~IsInferrable(graph, o)
    <3>1. PICK i \in DOMAIN graph.ops : graph.ops[i] = o
      BY <1>3
    <3>2. ~Matches(graph, "shape_infer", i)
      BY <1>1, <2>1, NothingFound
    <3>3. QED
      BY <3>1, <3>2 DEF Matches
  <2>3. QED
    BY <1>1, <2>2, AllStatic
<1>5. AllAt(pass + 1, graph)
  <2>1. ASSUME NEW o \in Live(graph) PROVE At(pass + 1, graph.value[o])
    <3>1. At(pass, graph.value[o]) /\ pass \in Nat
      BY <1>1, <1>2, SettledFacts
    <3>2. pass # 3 \/ IsStatic(graph.value[o].type)
      BY <1>4
    <3>3. QED
      BY <3>1, <3>2, AtGrows
  <2>2. QED
    BY <2>1 DEF AllAt
<1>6. Settled(pass + 1, graph, t)
  BY <1>5 DEF Settled
<1>7. NoStack(graph) \/ pass + 1 \notin {12, 13}
  <2>1. CASE pass = 11
    <3>1. next = 1 /\ Pipeline[pass] = "transpose_elim"
      BY <2>1 DEF Ordered, Pipeline
    <3>2. ASSUME NEW u \in Live(graph), graph.value[u].mnemonic = "transpose",
                 Is(graph, Input(graph, u), "transpose")
          PROVE  FALSE
      <4>1. PICK i \in DOMAIN graph.ops : graph.ops[i] = u
        BY <1>3
      <4>2. ~Matches(graph, "transpose_elim", i)
        BY <1>1, <3>1, NothingFound
      <4>3. ~IsTransposePair(graph, u)
        BY <4>1, <4>2 DEF Matches
      <4>4. QED
        BY <3>2, <4>3 DEF IsTransposePair
    <3>3. QED
      BY <3>2 DEF NoStack
  <2>2. CASE pass = 12
    BY <2>2 DEF Ordered
  <2>3. CASE pass \notin {11, 12}
    BY <1>2, <2>3
  <2>4. QED
    BY <2>1, <2>2, <2>3
<1>8. Unturned(graph) \/ pass + 1 # 13
  <2>1. ASSUME pass = 12, NEW u \in Live(graph) PROVE graph.value[u].attrs.layout = "NCHW"
    <3>1. At(12, graph.value[u])
      BY <1>1, <2>1, SettledFacts
    <3>2. QED
      BY <3>1 DEF At
  <2>2. CASE pass = 12
    BY <2>1, <2>2 DEF Unturned, Is
  <2>3. QED
    BY <1>2, <2>2
<1>9. UnturnedInputs(graph, 1) \/ pass + 1 # 14
  <2>1. ASSUME pass = 13, NEW u \in Live(graph)
        PROVE  graph.value[u].attrs.input_layout = "NCHW"
    <3>1. At(13, graph.value[u])
      BY <1>1, <2>1, SettledFacts
    <3>2. QED
      BY <3>1 DEF At
  <2>2. CASE pass = 13
    <3>1. \A i \in DOMAIN graph.ops : graph.ops[i] \in Live(graph)
      BY DEF Live, ToSet
    <3>2. QED
      BY <2>1, <2>2, <3>1 DEF UnturnedInputs
  <2>3. QED
    BY <1>2, <2>2
<1>10. Ordered(pass + 1, 1, graph)
  BY <1>7, <1>8, <1>9 DEF Ordered
<1>11. Proceeds(pass, graph, t, pass + 1, 1, graph)
  BY <1>6, <1>10 DEF Proceeds
<1>12. QED
  BY <1>1, <1>11

\* The graphs that the pipeline is given are settled.
LEMMA BuiltSettled ==
  ASSUME NEW g, IsBuilt(g), IsWellTyped(g)
  PROVE  Settled(1, g, Meaning(g))
<1> DEFINE t == Meaning(g)
<1>1. Sound(g) /\ Acyclic(g)
  BY BuiltIsSound
<1>2. /\ \A v \in DOMAIN g.value : g.value[v].mnemonic = "arg" => IsStatic(g.value[v].type)
      /\ \A o \in Live(g) :
           /\ g.value[o].mnemonic \in Computed
           /\ IsDefined(t[o])
           /\ \/ t[o].dims = g.value[o].type.dims
              \/ ~IsStatic(g.value[o].type)
                 /\ g.value[o].mnemonic \in Elementwise \cup {"transpose"}
           /\ g.value[o].attrs.layout = "NCHW" /\ g.value[o].attrs.input_layout = "NCHW"
           /\ g.value[o].mnemonic = "convolution" => IsWeight(g, g.value[o].operands[2])
  BY DEF IsWellTyped
<1>3. \A v \in DOMAIN g.value : g.value[v].data \in Int /\ g.value[v].type \in Types
  BY DEF IsBuilt, IsOperator
<1>4. \A o \in Live(g) : o \in DOMAIN g.value /\ Formed(g.value[o])
  BY <1>1, OperandFacts
<1>6. AllWorkable(g)
  BY <1>2, <1>3, <1>4 DEF AllWorkable, Workable
<1>7. \A v \in Arguments(g) : v \in DOMAIN g.value /\ g.value[v].type.dims \in Rotations
  BY <1>2, <1>3 DEF Arguments, IsStatic, Types
<1>8. Fits(g, t)
  BY <1>1, <1>2, <1>6, <1>7, MeaningSolves
<1> HIDE DEF t
<1>9. Typed(g, t)
  <2>1. ASSUME NEW v \in Arguments(g) PROVE t[v].dims = g.value[v].type.dims
    <3> DEFINE d == g.value[v].type.dims
    <3>1. t[v] = ArgTensor(v, d)
      BY <1>8 DEF Fits
    <3> HIDE DEF d
    <3>2. ArgTensor(v, d).dims = d
      BY DEF ArgTensor
    <3>3. QED
      BY <3>1, <3>2 DEF d
  <2>2. ASSUME NEW v \in Live(g), IsStatic(g.value[v].type)
        PROVE  t[v].dims = g.value[v].type.dims
    BY <1>2, <2>2
  <2>3. QED
    BY <2>1, <2>2 DEF Typed, Sources
<1>10. ASSUME NEW o \in Live(g) PROVE At(1, g.value[o])
  <2> DEFINE op == g.value[o]
  <2>1. /\ op.mnemonic \in Computed /\ op.data \in Int
        /\ op.attrs.layout = "NCHW" /\ op.attrs.input_layout = "NCHW"
    BY <1>2, <1>3, <1>4
  <2>2. IsStatic(op.type) \/ op.mnemonic \in Flexible
    <3>1. \/ t[o].dims = op.type.dims
          \/ op.mnemonic \in Elementwise \cup {"transpose"}
      BY <1>2
    <3>2. t[o].dims # Dynamic
      BY <1>2 DEF IsDefined
    <3> HIDE DEF op
    <3>3. QED
      BY <3>1, <3>2 DEF Flexible, IsStatic
  <2> HIDE DEF op
  <2>3. At(1, op)
    BY <2>1, <2>2 DEF At
  <2>4. QED
    BY <2>3 DEF op
<1>11. Filters(g)
  BY <1>2 DEF Filters
<1>12. Returning(g)
  <2> DEFINE S == DOMAIN g.value
  <2>1. g.returns \in Seq(S)
    BY DEF IsBuilt
  <2> HIDE DEF S
  <2>2. \A k \in DOMAIN g.returns : g.returns[k] \in S
    BY <2>1
  <2>3. QED
    BY <2>2 DEF Returning, S
<1>13. QED
  BY <1>8, <1>9, <1>10, <1>11, <1>12 DEF Settled, AllAt, t

(***************************************************************************)
(* The tensors are found again after every step.                           *)
(***************************************************************************)
SInv == \E t : Settled(pass, graph, t) /\ Ordered(pass, next, graph)

\* They are, to begin with, ...
LEMMA InitSettled ==
  ASSUME Init
  PROVE  SInv
<1>1. Settled(1, graph, Meaning(graph)) /\ pass = 1
  BY GraphsAssumption, TypesAssumption, BuiltSettled DEF Init
<1>2. Ordered(pass, next, graph)
  BY <1>1, OrderedElsewhere
<1>3. QED
  BY <1>1, <1>2 DEF SInv

\* ... and after every rewrite, with what the function returns.
LEMMA NextProceeds ==
  ASSUME IInv, NEW t, Settled(pass, graph, t), Ordered(pass, next, graph), Next
  PROVE  Proceeds(pass, graph, t, pass', next', graph')
<1>1. CASE AlgebraicSimplify \/ IdentityElim
  BY <1>1, SimplifyProceeds
<1>2. CASE ShapeInfer
  BY <1>2, ShapeInferProceeds
<1>3. CASE ShapeFold
  BY <1>3, ShapeFoldProceeds
<1>4. CASE ShapeSubgraphElim \/ Dce
  BY <1>4, ErasuresProceed
<1>5. CASE Cse
  BY <1>5, CseProceeds
<1>6. CASE ConstantFold
  BY <1>6, ConstantFoldProceeds
<1>7. CASE ConvBnFusion
  BY <1>7, ConvBnFusionProceeds
<1>8. CASE FusionDetect
  BY <1>8, FusionDetectProceeds
<1>9. CASE TransposeElim
  BY <1>9, TransposeElimProceeds
<1>10. CASE TransposePush
  BY <1>10, TransposePushProceeds
<1>11. CASE NchwNhwcLayout
  BY <1>11, NchwNhwcLayoutProceeds
<1>12. CASE NhwcNchwLayout
  BY <1>12, NhwcNchwLayoutProceeds
<1>13. CASE Legalize
  BY <1>13, LegalizeProceeds
<1>14. CASE EndPass
  BY <1>14, EndPassProceeds
<1>15. QED
  BY <1>1, <1>2, <1>3, <1>4, <1>5, <1>6, <1>7, <1>8, <1>9, <1>10, <1>11, <1>12,
     <1>13, <1>14 DEF Next

\* What is settled is the meaning.
LEMMA SettledMeaning ==
  ASSUME NEW g, Sound(g), Acyclic(g), NEW p, NEW t, Settled(p, g, t)
  PROVE  Meaning(g) = t
BY MeaningIs, SettledFacts

\* The tensors of the whole invariant.
LEMMA SettledSays ==
  ASSUME IInv, SInv
  PROVE  ShapesRight
<1>1. PICK t : Settled(pass, graph, t)
  BY DEF SInv
<1>2. Sound(graph) /\ Acyclic(graph)
  BY DEF IInv
<1>3. Meaning(graph) = t
  BY <1>1, <1>2, SettledMeaning
<1>4. ASSUME NEW o \in Live(graph)
      PROVE  /\ pass > 3 => IsStatic(graph.value[o].type)
             /\ IsStatic(graph.value[o].type) => t[o].dims = graph.value[o].type.dims
  <2>1. At(pass, graph.value[o])
    BY <1>1, <1>2, SettledFacts
  <2>2. pass \in Nat
    <3>1. Len(Pipeline) = 18
      BY DEF Pipeline
    <3>2. QED
      BY <3>1 DEF IInv
  <2>3. IsStatic(graph.value[o].type) => t[o].dims = graph.value[o].type.dims
    BY <1>1, <1>2, OperandTensors
  <2>4. QED
    BY <2>1, <2>2, <2>3 DEF At
<1>5. QED
  BY <1>3, <1>4 DEF ShapesRight

\* The passes that may change a returned value with a reader.
LEMMA ReturnBlindPasses ==
  ASSUME pass \in {8, 13, 14}
  PROVE  /\ ~Finished /\ Pipeline[pass] \in ReturnBlind
         /\ pass = 8 => Running("conv_bn_fusion")
<1>1. Len(Pipeline) = 18
  BY DEF Pipeline
<1>2. ~Finished
  BY <1>1 DEF Finished
<1>3. /\ Pipeline[pass] \in ReturnBlind
      /\ pass = 8 => Pipeline[pass] = "conv_bn_fusion"
  BY DEF Pipeline, ReturnBlind
<1>4. QED
  BY <1>2, <1>3 DEF Running

\* The inductive step.
LEMMA NextSettles ==
  ASSUME IInv, SInv, [Next]_vars
  PROVE  SInv'
<1>1. CASE Next
  <2>1. PICK t : Settled(pass, graph, t) /\ Ordered(pass, next, graph)
    BY DEF SInv
  <2>2. Proceeds(pass, graph, t, pass', next', graph')
    BY <1>1, <2>1, NextProceeds
  <2>3. \E u : Settled(pass', graph', u) /\ Ordered(pass', next', graph')
    BY <2>2 DEF Proceeds
  <2>4. QED
    BY <2>3 DEF SInv
<1>2. CASE UNCHANGED vars
  BY <1>2 DEF SInv, vars
<1>3. QED
  BY <1>1, <1>2

\* What the function returns is the same before and after a step, or conv_bn_fusion
\* has dropped a normalization.
LEMMA NextKeepsResults ==
  ASSUME IInv, IInv', SInv, Next
  PROVE  \/ ReturnsKept(Meaning(graph'))
         \/ /\ Running("conv_bn_fusion")
            /\ \E c \in Live(graph') : \E o \in Live(graph) \ Live(graph') :
                 NormalizationDropped(c, o)
<1>1. PICK t : Settled(pass, graph, t) /\ Ordered(pass, next, graph)
  BY DEF SInv
<1>2. Proceeds(pass, graph, t, pass', next', graph')
  BY <1>1, NextProceeds
<1>3. PICK u :
        /\ Settled(pass', graph', u)
        /\ \/ \A k \in DOMAIN graph.returns :
                \/ pass \in {13, 14} /\ graph.users[graph.returns[k]] # {}
                \/ u[graph'.returns[k]] = t[graph.returns[k]]
           \/ /\ pass = 8
              /\ \E c \in Live(graph') : \E o \in Live(graph) \ Live(graph') :
                   Drops(graph, t, graph', c, o)
  BY <1>2 DEF Proceeds
<1>4. /\ Sound(graph) /\ Acyclic(graph)
      /\ Sound(graph') /\ Acyclic(graph')
  BY DEF IInv
<1>5. Meaning(graph) = t
  BY <1>1, <1>4, SettledMeaning
<1>6. Meaning(graph') = u
  BY <1>3, <1>4, SettledMeaning
<1>7. \A k \in DOMAIN graph.returns : Result(graph, k) = t[graph.returns[k]]
  BY <1>5 DEF Result
<1>8. CASE \A k \in DOMAIN graph.returns :
             \/ pass \in {13, 14} /\ graph.users[graph.returns[k]] # {}
             \/ u[graph'.returns[k]] = t[graph.returns[k]]
  <2>1. ReturnsKept(u)
    BY <1>7, <1>8, ReturnBlindPasses DEF ReturnsKept
  <2>2. QED
    BY <1>6, <2>1
<1>9. CASE /\ pass = 8
           /\ \E c \in Live(graph') : \E o \in Live(graph) \ Live(graph') :
                Drops(graph, t, graph', c, o)
  <2>1. PICK c \in Live(graph') : \E o \in Live(graph) \ Live(graph') :
               Drops(graph, t, graph', c, o)
    BY <1>9
  <2>2. PICK o \in Live(graph) \ Live(graph') : Drops(graph, t, graph', c, o)
    BY <2>1
  <2> DEFINE w == [t EXCEPT ![c] = t[o]]
  <2>3. /\ graph'.value[c].mnemonic = "convolution" /\ graph'.value[c].attrs.fused_bn
        /\ SolvesBut(graph', w, c)
        /\ KeptUnread(graph, t, graph', w)
    BY <2>2 DEF Drops
  <2>4. w = [Meaning(graph) EXCEPT ![c] = Meaning(graph)[o]]
    BY <1>5
  <2> HIDE DEF w
  <2>5. ReturnsKept(w)
    BY <1>7, <1>9, <2>3, ReturnBlindPasses DEF ReturnsKept, KeptUnread
  <2>6. NormalizationDropped(c, o)
    BY <2>3, <2>4, <2>5 DEF NormalizationDropped
  <2>7. QED
    BY <1>9, <2>6, ReturnBlindPasses
<1>10. QED
  BY <1>3, <1>8, <1>9

\* Every state of the pipeline has a graph whose tensors are the only ones that fit
\* its operators, with the shapes its types declare.
THEOREM MeaningSettled == Spec => []SInv
<1>1. Init => SInv
  BY InitSettled
<1>2. IInv /\ SInv /\ [Next]_vars => SInv'
  BY NextSettles
<1>3. QED
  BY <1>1, <1>2, GraphSound, PTL DEF Spec

\* Shape inference resolves every shape, no later pass brings a dynamic one back,
\* and the shape that a type states is that of the tensor the operator computes,
\* for any graph that is built of well-typed operators: the layout folds and the
\* pushed transposes retype what they touch rightly.
THEOREM ShapesAreRight == Spec => []ShapesRight
<1>1. IInv /\ SInv => ShapesRight
  BY SettledSays
<1>2. QED
  BY <1>1, GraphSound, MeaningSettled, PTL

\* No rewrite of any pass changes what the function computes, but for a returned
\* value that has a reader, too, while one of the three passes runs that take one
\* user for one use, and but for the convolutions that pass_conv_bn_fusion marks.
\* Such a step leaves a graph in which each other operator computes what it did, if
\* the one that is marked is taken to scale and shift its products as the erased
\* operators did, which nothing in the graph says any more.
THEOREM ResultsAreKept == Spec => ResultsKept
<1> DEFINE Keeps ==
       \/ graph' = graph
       \/ ReturnsKept(Meaning(graph'))
       \/ /\ Running("conv_bn_fusion")
          /\ \E c \in Live(graph') : \E o \in Live(graph) \ Live(graph') :
               NormalizationDropped(c, o)
<1>1. IInv /\ IInv' /\ SInv /\ [Next]_vars => [Keeps]_vars
  BY NextKeepsResults
<1>2. QED
  BY <1>1, GraphSound, MeaningSettled, PTL DEF Spec, ResultsKept
=============================================================================
