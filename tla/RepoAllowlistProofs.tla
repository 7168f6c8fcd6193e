-------------------------- MODULE RepoAllowlistProofs -------------------------
(***************************************************************************)
(* The compiled list means what the README says, for every list of entries *)
(* and every path.                                                         *)
(***************************************************************************)
EXTENDS RepoAllowlist, TLAPS

\* Lower case keeps the length, and is a path again.
LEMMA ToLowerIsPath ==
    ASSUME NEW path \in Paths
    PROVE  /\ ToLower(path) \in Paths
           /\ Len(ToLower(path)) = Len(path)
           /\ \A i \in 1..Len(path) : ToLower(path)[i] = Lower[path[i]]
  BY LowerAssumption DEF ToLower, Paths

\* The first words of a path of two or more.
LEMMA StartOf ==
    ASSUME NEW path \in Paths, Len(path) > 1
    PROVE  /\ Start(path) \in Seq(Word)
           /\ Len(Start(path)) = Len(path) - 1
           /\ \A i \in 1..(Len(path) - 1) : Start(path)[i] = path[i]
  BY DEF Start, Paths

\* Only the empty string is blank.
LEMMA Blank ==
    ASSUME NEW path \in Paths
    PROVE  ToLower(path) = <<Empty>> <=> path = <<Empty>>
<1>1. ASSUME path = <<Empty>>
      PROVE  ToLower(path) = <<Empty>>
  BY <1>1, LowerAssumption, WordAssumption DEF ToLower
<1>2. ASSUME ToLower(path) = <<Empty>>
      PROVE  path = <<Empty>>
  <2>1. Len(ToLower(path)) = 1 /\ ToLower(path)[1] = Empty
    BY <1>2
  <2>2. Len(path) = 1 /\ Lower[path[1]] = Empty
    BY <2>1, ToLowerIsPath
  <2>3. path[1] = Empty
    BY <2>2, LowerAssumption DEF Paths
  <2> QED BY <2>2, <2>3 DEF Paths
<1> QED BY <1>1, <1>2

\* The sets hold the entries of their kind, at every turn of the loop.
THEOREM ListIsCompiled == Spec => []Compiled
<1>1. Init => Compiled
  BY DEF Init, Compiled, Stated
<1>2. Compiled /\ [Next]_vars => Compiled'
  <2> SUFFICES ASSUME Compiled, [Next]_vars
               PROVE  Compiled'
    OBVIOUS
  <2>1. CASE Return
    BY <2>1 DEF Return, Compiled, Stated
  <2>2. ASSUME NEW raw \in Path, Compile(raw)
        PROVE  Compiled'
    <3> DEFINE entry == ToLower(raw)
    <3>1. /\ status = "reading" /\ given' = given \cup {raw}
          /\ Skip(entry) \/ Refuse(entry) \/ AddPrefix(entry) \/ AddExact(entry)
      BY <2>2 DEF Compile
    <3>2. Stated' = Stated \cup ({entry} \ {<<Empty>>})
      BY <3>1 DEF Stated
    <3>3. given' \subseteq Path
      BY <3>1 DEF Compiled
    <3>4. ~Invalid(<<Empty>>) /\ ~IsPrefix(<<Empty>>)
      BY WordAssumption DEF Invalid, IsPrefix
    <3> HIDE DEF entry
    <3>5. CASE Skip(entry)
      BY <3>1, <3>2, <3>3, <3>5 DEF Skip, Compiled
    <3>6. CASE Refuse(entry)
      BY <3>1, <3>2, <3>3, <3>6 DEF Refuse, Compiled
    <3>7. CASE AddPrefix(entry)
      BY <3>1, <3>2, <3>3, <3>4, <3>7 DEF AddPrefix, Compiled
    <3>8. CASE AddExact(entry)
      BY <3>1, <3>2, <3>3, <3>8 DEF AddExact, Compiled
    <3> QED BY <3>1, <3>5, <3>6, <3>7, <3>8
  <2>3. CASE UNCHANGED vars
    BY <2>3 DEF vars, Compiled, Stated
  <2> QED BY <2>1, <2>2, <2>3 DEF Next
<1> QED BY <1>1, <1>2, PTL DEF Spec

\* In an entry that is not refused only the end of a prefix has a star.
LEMMA Stars ==
    ASSUME NEW raw \in Paths, ~Invalid(ToLower(raw)), NEW i \in 1..Len(raw),
           raw[i] \in Starred
    PROVE  i = Len(raw) /\ IsPrefix(ToLower(raw))
<1>1. /\ Len(ToLower(raw)) = Len(raw) /\ raw[i] \in Word
      /\ ToLower(raw)[i] = Lower[raw[i]]
  BY ToLowerIsPath DEF Paths
<1>2. ToLower(raw)[i] \in Starred
  BY <1>1, LowerAssumption
<1> QED BY <1>1, <1>2 DEF Invalid

\* A literal admits what IsLiteral says.
LEMMA LiteralMeans ==
    ASSUME NEW raw \in Paths, NEW url \in Paths, ~Invalid(ToLower(raw)),
           ~IsPrefix(ToLower(raw))
    PROVE  ToLower(url) = ToLower(raw) <=> IsLiteral(raw, url)
<1>1. ASSUME ToLower(url) = ToLower(raw)
      PROVE  IsLiteral(raw, url)
  BY <1>1, ToLowerIsPath, Stars DEF IsLiteral, Same
<1>2. ASSUME IsLiteral(raw, url)
      PROVE  ToLower(url) = ToLower(raw)
  BY <1>2 DEF IsLiteral, Same, ToLower, Paths
<1> QED BY <1>1, <1>2

\* A prefix admits what IsUnder says.
LEMMA PrefixMeans ==
    ASSUME NEW raw \in Paths, NEW url \in Paths, ~Invalid(ToLower(raw)),
           IsPrefix(ToLower(raw))
    PROVE  Continues(ToLower(url), Start(ToLower(raw))) <=> IsUnder(raw, url)
<1> DEFINE entry == ToLower(raw)
           repo == ToLower(url)
           prefix == Start(entry)
<1>1. /\ entry \in Paths /\ Len(entry) = Len(raw)
      /\ \A i \in 1..Len(raw) : entry[i] = Lower[raw[i]]
      /\ repo \in Paths /\ Len(repo) = Len(url)
      /\ \A i \in 1..Len(url) : repo[i] = Lower[url[i]]
  BY ToLowerIsPath
<1>2. Len(raw) > 1 /\ entry[Len(raw)] = Glob /\ Len(raw) \in Nat /\ Len(url) \in Nat
  BY <1>1 DEF IsPrefix, Paths
<1>3. /\ Len(prefix) = Len(raw) - 1
      /\ \A i \in 1..(Len(raw) - 1) : prefix[i] = Lower[raw[i]]
  BY <1>1, <1>2, StartOf
<1>4. raw[Len(raw)] = Glob
  BY <1>1, <1>2, LowerAssumption DEF Paths
<1>5. ASSUME Len(url) >= Len(raw)
      PROVE  repo[Len(raw)] = Empty <=> url[Len(raw)] = Empty
  BY <1>1, <1>2, <1>5, LowerAssumption DEF Paths
<1> HIDE DEF entry, repo, prefix
<1>6. Continues(repo, prefix) <=>
        /\ Len(url) >= Len(raw)
        /\ \A i \in 1..(Len(raw) - 1) : Lower[url[i]] = Lower[raw[i]]
        /\ ~(Len(url) = Len(raw) /\ repo[Len(raw)] = Empty)
  BY <1>1, <1>2, <1>3 DEF Continues
<1>7. IsUnder(raw, url) <=>
        /\ Len(url) >= Len(raw)
        /\ \A i \in 1..(Len(raw) - 1) : Lower[url[i]] = Lower[raw[i]]
        /\ url[Len(raw)] = Empty => Len(url) > Len(raw)
  <2>1. \A i \in 1..(Len(raw) - 1) : raw[i] \notin Starred
    BY <1>2, Stars
  <2> QED BY <1>2, <1>4, <2>1 DEF IsUnder, Same
<1>8. Continues(repo, prefix) <=> IsUnder(raw, url)
  BY <1>2, <1>5, <1>6, <1>7
<1> QED BY <1>8 DEF entry, repo, prefix

\* A pattern is no literal.
LEMMA PatternIsNoLiteral ==
    ASSUME NEW raw \in Paths, NEW url \in Paths, IsPrefix(ToLower(raw))
    PROVE  ~IsLiteral(raw, url)
<1>1. Len(ToLower(raw)) = Len(raw) /\ Len(raw) \in Nat
  BY ToLowerIsPath DEF Paths
<1>2. Len(raw) > 1 /\ Lower[raw[Len(raw)]] = Glob
  BY <1>1, ToLowerIsPath DEF IsPrefix
<1>3. raw[Len(raw)] = Glob
  BY <1>1, <1>2, LowerAssumption DEF Paths
<1> QED BY <1>1, <1>2, <1>3, WordAssumption DEF IsLiteral, Same

\* Only a pattern has paths under it.
LEMMA OnlyPatternsReach ==
    ASSUME NEW raw \in Paths, NEW url \in Paths, IsUnder(raw, url)
    PROVE  IsPrefix(ToLower(raw))
<1>1. Len(raw) > 1 /\ raw[Len(raw)] = Glob /\ Len(raw) \in Nat
  BY DEF IsUnder, Paths
<1>2. Len(ToLower(raw)) = Len(raw) /\ ToLower(raw)[Len(raw)] = Lower[Glob]
  BY <1>1, ToLowerIsPath
<1> QED BY <1>1, <1>2, LowerAssumption, WordAssumption DEF IsPrefix

\* A finished list lets in what the README promises.
THEOREM ListMeansWhatItSays == Spec => []AdmitsAsDocumented
<1>1. Compiled => AdmitsAsDocumented
  <2> SUFFICES ASSUME Compiled, status = "ready", NEW url \in Path
               PROVE  Admits(url) <=>
                        \/ given \subseteq {<<Empty>>}
                        \/ \E raw \in given \ {<<Empty>>} :
                              IsLiteral(raw, url) \/ IsUnder(raw, url)
    BY DEF AdmitsAsDocumented
  <2> DEFINE says == given \ {<<Empty>>}
             repo == ToLower(url)
  <2>1. /\ url \in Paths /\ given \subseteq Paths
        /\ exact = {entry \in Stated : ~IsPrefix(entry)}
        /\ prefixes = {Start(entry) : entry \in {e \in Stated : IsPrefix(e)}}
    BY PathAssumption DEF Compiled
  <2>2. Stated = {ToLower(raw) : raw \in says}
    BY <2>1, Blank DEF Stated
  <2>3. exact = {} /\ prefixes = {} <=> says = {}
    BY <2>1, <2>2
  <2>a. \A raw \in says : raw \in Paths /\ ~Invalid(ToLower(raw))
    BY <2>1, <2>2 DEF Compiled
  <2>4. repo \in exact <=>
          \E raw \in says : ~IsPrefix(ToLower(raw)) /\ IsLiteral(raw, url)
    BY <2>1, <2>2, <2>a, LiteralMeans
  <2>5. (\E prefix \in prefixes : Continues(repo, prefix)) <=>
          \E raw \in says : IsPrefix(ToLower(raw)) /\ IsUnder(raw, url)
    <3>1. (\E prefix \in prefixes : Continues(repo, prefix)) <=>
            \E raw \in says : /\ IsPrefix(ToLower(raw))
                             /\ Continues(repo, Start(ToLower(raw)))
      BY <2>1, <2>2
    <3> QED BY <2>1, <2>a, <3>1, PrefixMeans
  <2>6. (\E raw \in says : IsLiteral(raw, url) \/ IsUnder(raw, url)) <=>
          \/ \E raw \in says : ~IsPrefix(ToLower(raw)) /\ IsLiteral(raw, url)
          \/ \E raw \in says : IsPrefix(ToLower(raw)) /\ IsUnder(raw, url)
    BY <2>1, PatternIsNoLiteral, OnlyPatternsReach
  <2> QED BY <2>3, <2>4, <2>5, <2>6 DEF Admits, Allow
<1> QED BY <1>1, ListIsCompiled, PTL
=============================================================================
