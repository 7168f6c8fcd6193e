---------------------------- MODULE RepoAllowlist ----------------------------
(***************************************************************************)
(* REPO_ALLOWLIST: the entries an operator wrote are compiled into a set   *)
(* of paths and a set of prefixes, which authorize then asks about the     *)
(* path of every request.  A path is the sequence of the words between its *)
(* slashes, so the empty string is <<Empty>>.                              *)
(***************************************************************************)
EXTENDS Naturals, Sequences, FiniteSets

CONSTANTS
    Word,       \* what may stand between two slashes
    Empty,      \* the empty word
    Glob,       \* the word "**"
    Starred,    \* the words with a "*" in them
    Lower,      \* strings.ToLower of each word
    Path,       \* the paths that operators and clients may write
    MaxEntries  \* bound: the entries of one list

Paths == Seq(Word) \ {<<>>}

ASSUME WordAssumption ==
    /\ {Empty, Glob} \subseteq Word /\ Glob # Empty
    /\ Glob \in Starred /\ Empty \notin Starred

ASSUME LowerAssumption ==
    /\ Lower \in [Word -> Word]
    /\ \A w \in Word : /\ Lower[Lower[w]] = Lower[w]
                       /\ Lower[w] = Empty <=> w = Empty
                       /\ Lower[w] = Glob <=> w = Glob
                       /\ Lower[w] \in Starred <=> w \in Starred

ASSUME PathAssumption == Path \subseteq Paths

VARIABLES
    given,      \* the entries read so far, without the spaces around them
    exact,      \* exact of RepoAllowlist
    prefixes,   \* prefixes of RepoAllowlist
    status      \* "reading", "ready", or "refused" with an error

vars == <<given, exact, prefixes, status>>

ToLower(path) == [i \in 1..Len(path) |-> Lower[path[i]]]

Start(path) == SubSeq(path, 1, Len(path) - 1)

\* The entry ends in "/**".
IsPrefix(entry) == Len(entry) > 1 /\ entry[Len(entry)] = Glob

\* A leading "/", a "//", or a "*" other than that of a final "/**".
Invalid(entry) ==
    \/ \E i \in 1..(Len(entry) - 1) : entry[i] = Empty
    \/ \E i \in 1..Len(entry) :
          entry[i] \in Starred /\ ~(i = Len(entry) /\ IsPrefix(entry))

Init ==
    /\ given = {} /\ exact = {} /\ prefixes = {}
    /\ status = "reading"

-----------------------------------------------------------------------------
\* Nothing between two commas, or after the last.
Skip(entry) ==
    /\ entry = <<Empty>>
    /\ UNCHANGED <<exact, prefixes, status>>

Refuse(entry) ==
    /\ entry # <<Empty>> /\ Invalid(entry)
    /\ status' = "refused"
    /\ UNCHANGED <<exact, prefixes>>

AddPrefix(entry) ==
    /\ ~Invalid(entry) /\ IsPrefix(entry)
    /\ prefixes' = prefixes \cup {Start(entry)}
    /\ UNCHANGED <<exact, status>>

AddExact(entry) ==
    /\ entry # <<Empty>> /\ ~Invalid(entry) /\ ~IsPrefix(entry)
    /\ exact' = exact \cup {entry}
    /\ UNCHANGED <<prefixes, status>>

\* One turn of the loop.
Compile(raw) ==
    /\ status = "reading"
    /\ Cardinality(given) < MaxEntries
    /\ given' = given \cup {raw}
    /\ LET entry == ToLower(raw)
       IN  Skip(entry) \/ Refuse(entry) \/ AddPrefix(entry) \/ AddExact(entry)

Return ==
    /\ status = "reading"
    /\ status' = "ready"
    /\ UNCHANGED <<given, exact, prefixes>>

Next == Return \/ \E raw \in Path : Compile(raw)

Spec == Init /\ [][Next]_vars

-----------------------------------------------------------------------------
\* Faulty variant of Continues: the path that ends with the prefix's slash is let in.
ContinuesOrEnds(repo, prefix) ==
    /\ Len(repo) > Len(prefix)
    /\ \A i \in 1..Len(prefix) : repo[i] = prefix[i]

\* The path goes on after the prefix and its slash.
Continues(repo, prefix) ==
    /\ Len(repo) > Len(prefix)
    /\ \A i \in 1..Len(prefix) : repo[i] = prefix[i]
    /\ ~(Len(repo) = Len(prefix) + 1 /\ repo[Len(repo)] = Empty)

Allow(repo) ==
    \/ exact = {} /\ prefixes = {}
    \/ repo \in exact
    \/ \E prefix \in prefixes : Continues(repo, prefix)

\* The path of a request, as authorize asks for it.
Admits(url) == Allow(ToLower(url))

-----------------------------------------------------------------------------
\* The README's words on an entry, compared with the path as both are written.
\* A word with a star matches nothing.
Same(v, w) == Lower[v] = Lower[w] /\ w \notin Starred

IsLiteral(raw, url) ==
    Len(url) = Len(raw) /\ \A i \in 1..Len(raw) : Same(url[i], raw[i])

IsUnder(raw, url) ==
    /\ Len(raw) > 1 /\ raw[Len(raw)] = Glob
    /\ Len(url) >= Len(raw)
    /\ \A i \in 1..(Len(raw) - 1) : Same(url[i], raw[i])
    /\ url[Len(raw)] = Empty => Len(url) > Len(raw)

(***************************************************************************)
(* However the entries are spelled and whatever they are mixed with, the   *)
(* compiled list of forge.go lets in what the README promises: every       *)
(* repository if no entry says anything, otherwise the literal paths and   *)
(* the non-empty suffixes under the prefixes, in any case of letters.  An  *)
(* entry with a "*" elsewhere than in a final "/**" admits nothing, not    *)
(* even the path that is spelled like it.                                  *)
(***************************************************************************)
AdmitsAsDocumented ==
    status = "ready" =>
        \A url \in Path :
            Admits(url) <=> \/ given \subseteq {<<Empty>>}
                            \/ \E raw \in given \ {<<Empty>>} :
                                  IsLiteral(raw, url) \/ IsUnder(raw, url)

\* The entries that were read and say something, in lower case.
Stated == {ToLower(raw) : raw \in given} \ {<<Empty>>}

(***************************************************************************)
(* What every turn of the loop keeps: the two sets hold the entries of     *)
(* their kind among those read, and the server refuses to start exactly    *)
(* if one of them is bad, whichever good ones were read before it.         *)
(***************************************************************************)
Compiled ==
    /\ given \subseteq Path
    /\ status # "refused" =>
          /\ \A entry \in Stated : ~Invalid(entry)
          /\ exact = {entry \in Stated : ~IsPrefix(entry)}
          /\ prefixes = {Start(entry) : entry \in {e \in Stated : IsPrefix(e)}}
    /\ status = "refused" => \E entry \in Stated : Invalid(entry)
=============================================================================
