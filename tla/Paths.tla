------------------------------- MODULE Paths -------------------------------
(***************************************************************************)
(* Paths of the site, and what is made of them: normal forms, ancestors,   *)
(* keys of the bucket, entries of listings, patterns of announcements and  *)
(* the patterns by which a refresh deletes cached answers.                 *)
(*   src/backend/internal/service/path.go, lines 11-150                    *)
(*   src/backend/internal/storage/r2.go, lines 73-121 and 214-246          *)
(*   src/backend/internal/httpapi/file_index.go, lines 202-244             *)
(*   src/backend/internal/httpapi/router.go, lines 1346-1383               *)
(*   src/backend/internal/httpapi/r2_cache.go, lines 126-143               *)
(*                                                                         *)
(* These are functions of strings.  A string is a sequence of symbols; the *)
(* two variables are inputs, which grow one symbol at a time, so that the  *)
(* properties are about every pair of inputs up to a length.               *)
(***************************************************************************)
EXTENDS Integers, Sequences, SequencesExt

CONSTANTS Symbols,      \* of the inputs
          RootPrefixes, \* values of PANSHOW_R2_ROOT_PREFIX
          MaxText,      \* bound: symbols of the first input
          MaxOther      \* bound: symbols of the second

\* The symbols of all strings, with those that the code adds.  No symbol is a token
\* of a glob that means more than itself.
Char == Symbols \cup {"/", "*", "\\"}

ASSUME SymbolsAssumption == {"ANY", "ONE"} \cap Symbols = {} /\ RootPrefixes \subseteq Seq(Char)
ASSUME LengthAssumption == MaxText \in Nat /\ MaxOther \in Nat

\* A definition named MUTANT_D is D with a mistake the properties are to find.

VARIABLES text, other

pathVars == <<text, other>>

PathInit == text = <<>> /\ other = <<>>

PathNext == \/ /\ Len(text) < MaxText /\ \E c \in Symbols : text' = Append(text, c)
               /\ UNCHANGED other
            \/ /\ Len(other) < MaxOther /\ \E c \in Symbols : other' = Append(other, c)
               /\ UNCHANGED text

PathSpec == PathInit /\ [][PathNext]_pathVars

-----------------------------------------------------------------------------
(* Normal forms.  The normal form of a path is its names, each after "/".   *)

Slash == <<"/">>
Has(s, part) == \E i \in DOMAIN s : IsPrefix(part, SubSeq(s, i, Len(s)))

\* strings.Trim of the symbol c.
Trim(s, c) == LET kept == {i \in DOMAIN s : s[i] # c}
              IN  IF kept = {} THEN <<>>
                  ELSE SubSeq(s, CHOOSE i \in kept : \A j \in kept : i <= j,
                                 CHOOSE i \in kept : \A j \in kept : j <= i)

\* What is between the slashes.
Split(s) ==
  LET parts[i \in 0 .. Len(s)] ==
        IF i = 0 THEN <<<<>>>>
        ELSE LET before == parts[i - 1]
             IN  IF s[i] = "/" THEN Append(before, <<>>)
                 ELSE Append(Front(before), Append(Last(before), s[i]))
  IN  parts[Len(s)]

Dropping(parts, dropped) ==
  LET kept[i \in 0 .. Len(parts)] ==
        IF i = 0 THEN <<>>
        ELSE IF parts[i] \in dropped THEN kept[i - 1] ELSE Append(kept[i - 1], parts[i])
  IN  kept[Len(parts)]

pathParts(s) == Dropping(Split(s), {<<>>})

\* Each part after a slash.
Joined(parts) ==
  LET s[i \in 0 .. Len(parts)] == IF i = 0 THEN <<>> ELSE s[i - 1] \o Slash \o parts[i]
  IN  s[Len(parts)]
Join(parts) == IF parts = <<>> THEN Slash ELSE Joined(parts)

\* A backslash, or something that could mean the parent; an encoded dot is a
\* symbol of its own.
Refused(raw) == Has(raw, <<"\\">>) \/ Has(raw, <<"%2e">>) \/ Has(raw, <<".", ".">>)

\* path.Clean of a path without "..".
Clean(raw) == Join(Dropping(Split(raw), {<<>>, <<".">>}))

NormalizePath(raw) == Clean(raw)            \* unless Refused(raw)

NormalizePathPattern(raw) == Clean(Trim(raw, " "))
RefusedPattern(raw) == Trim(raw, " ") = <<>> \/ Refused(raw)

ParentDir(p) == LET parts == pathParts(p)
                IN  IF parts = <<>> THEN Slash ELSE Join(Front(parts))

DirectoryAncestors(dir) ==
  LET parts == pathParts(dir) IN {Join(SubSeq(parts, 1, n)) : n \in 0 .. Len(parts)}

-----------------------------------------------------------------------------
(* Patterns.                                                                *)

\* path.Match and Redis: whether a string is what the tokens of a glob mean.  A
\* token is a symbol, or "ANY" for any number of them, or "ONE".  ends[i] is where
\* in the string what the first i tokens mean can end.
GlobMatches(tokens, s) ==
  LET ends[i \in 0 .. Len(tokens)] ==
        IF i = 0 THEN {0}
        ELSE LET before == ends[i - 1]
             IN  IF tokens[i] = "ANY" THEN {j \in 0 .. Len(s) : \E k \in before : k <= j}
                 ELSE {j \in 1 .. Len(s) : j - 1 \in before /\ tokens[i] \in {s[j], "ONE"}}
  IN  Len(s) \in ends[Len(tokens)]

Token(c) == CASE c = "*" -> "ANY" [] c = "?" -> "ONE" [] OTHER -> c
PartMatches(part, name) == GlobMatches([i \in DOMAIN part |-> Token(part[i])], name)

Deep == <<"*", "*">>

MUTANT_matchPathParts(parts, names) ==
  LET rest[n \in 0 .. Len(parts)] ==
        IF n = 0 THEN {Len(names) + 1}
        ELSE LET part == parts[Len(parts) + 1 - n]
                 before == rest[n - 1]
             IN  IF part = Deep
                 THEN {j \in 1 .. Len(names) + 1 : n = 1 \/ \E k \in before : j < k}
                 ELSE {j \in 1 .. Len(names) : PartMatches(part, names[j]) /\ j + 1 \in before}
  IN  1 \in rest[Len(parts)]

\* rest[n] is from where on the names match the last n parts.
matchPathParts(parts, names) ==
  LET rest[n \in 0 .. Len(parts)] ==
        IF n = 0 THEN {Len(names) + 1}
        ELSE LET part == parts[Len(parts) + 1 - n]
                 before == rest[n - 1]
             IN  IF part = Deep
                 THEN {j \in 1 .. Len(names) + 1 : n = 1 \/ \E k \in before : j <= k}
                 ELSE {j \in 1 .. Len(names) : PartMatches(part, names[j]) /\ j + 1 \in before}
  IN  1 \in rest[Len(parts)]

MatchPathPattern(rawPattern, rawTarget) ==
  LET pattern == NormalizePathPattern(rawPattern)
      target == NormalizePath(rawTarget)
  IN  /\ ~RefusedPattern(rawPattern) /\ ~Refused(rawTarget)
      /\ pattern = target \/ matchPathParts(pathParts(pattern), pathParts(target))

-----------------------------------------------------------------------------
(* Keys of the bucket, and the entries a list of a directory has for them.  *)

cleanPrefix(prefix) == Trim([i \in DOMAIN prefix |-> IF prefix[i] = "\\" THEN "/" ELSE prefix[i]], "/")

TrimPrefix(s, prefix) ==
  IF IsPrefix(prefix, s) THEN SubSeq(s, Len(prefix) + 1, Len(s)) ELSE s

keyForFile(root, p) ==
  LET trimmed == TrimPrefix(p, Slash)
  IN  IF root = <<>> THEN trimmed ELSE IF trimmed = <<>> THEN root ELSE root \o Slash \o trimmed

keyForDir(root, dir) == IF dir = Slash /\ root = <<>> THEN <<>> ELSE keyForFile(root, dir) \o Slash

MUTANT_sitePathFromKey(root, key) == Slash \o TrimPrefix(key, root)

sitePathFromKey(root, key) == Slash \o TrimPrefix(TrimPrefix(key, root), Slash)

\* The paths of the entries for a key below the prefix of a directory: a common
\* prefix up to the next slash, or the object itself, or none for the prefix.
ListEntries(root, dir, key) ==
  LET prefix == keyForDir(root, dir)
      parts == Split(TrimPrefix(key, prefix))
  IN  IF key = prefix THEN {} ELSE {sitePathFromKey(root, prefix \o parts[1])}

\* syntheticDirectoryEntries: the path of the entry for a directory that is in the
\* index.  A name is trimmed.
SyntheticEntries(dir, indexed) ==
  LET prefix == IF dir = Slash THEN Slash ELSE dir \o Slash
      name == Trim(Split(TrimPrefix(indexed, prefix))[1], " ")
  IN  IF IsPrefix(prefix, indexed) /\ indexed # dir /\ name # <<>>
      THEN {Join(Append(pathParts(dir), name))} ELSE {}

-----------------------------------------------------------------------------
(* Keys of cached answers, and the patterns that delete them.  The kind of   *)
(* a key, r2:list: or r2:stat:, is apart from its path.                     *)

Escaped == {"\\", "*", "?", "[", "]"}

escapeCachePattern(s) ==
  LET pattern[i \in 0 .. Len(s)] ==
        IF i = 0 THEN <<>>
        ELSE pattern[i - 1] \o (IF s[i] \in Escaped THEN <<"\\", s[i]>> ELSE <<s[i]>>)
  IN  pattern[Len(s)]

\* The tokens of a pattern, and whether it ends with the backslash of an escape:
\* what is escaped is itself.
Read(pattern) ==
  LET read[i \in 0 .. Len(pattern)] ==
        IF i = 0 THEN [escaped |-> FALSE, tokens |-> <<>>]
        ELSE LET before == read[i - 1]
                 c == pattern[i]
             IN  IF before.escaped THEN [escaped |-> FALSE, tokens |-> Append(before.tokens, c)]
                 ELSE IF c = "\\" THEN [escaped |-> TRUE, tokens |-> before.tokens]
                 ELSE [escaped |-> FALSE, tokens |-> Append(before.tokens, Token(c))]
  IN  read[Len(pattern)]

Tokens(pattern) == Read(pattern).tokens

\* What the replacer makes of a pattern of escapeCachePattern.
unescapeCachePattern(pattern) ==
  LET tokens == Tokens(pattern)
  IN  [i \in DOMAIN tokens |-> CASE tokens[i] = "ANY" -> "*" [] tokens[i] = "ONE" -> "?"
                                 [] OTHER -> tokens[i]]

\* The cache of a server; an escaped star at the end is taken for the other one.
cachePatternMatches(pattern, key) ==
  LET s == unescapeCachePattern(pattern)
  IN  IF s # <<>> /\ Last(s) = "*" THEN IsPrefix(Front(s), key) ELSE s = key

\* DEL of the keys SCAN finds.
RedisMatches(pattern, key) == GlobMatches(Tokens(pattern), key)

cacheDirPath(dir) == IF dir = Slash THEN Slash ELSE dir \o Slash

\* The path in a key, listCacheKey and statCacheKey.
CacheKey(kind, p) == IF kind = "list" THEN cacheDirPath(p) ELSE p

\* The patterns for keys of a kind.
MUTANT_cacheDeletePatterns(kind, target) ==
  IF target = Slash THEN {<<"*">>}
  ELSE {escapeCachePattern(CacheKey(kind, target)),
        escapeCachePattern(target) \o <<"*">>}

cacheDeletePatterns(kind, target) ==
  IF target = Slash THEN {<<"*">>}
  ELSE {escapeCachePattern(CacheKey(kind, target)),
        escapeCachePattern(cacheDirPath(target)) \o <<"*">>}

-----------------------------------------------------------------------------
(* Properties.  The inputs are two strings, of which one property takes the  *)
(* normal forms and another the strings as they are.                         *)

\* A pattern matches a path if its parts can be laid out along the path's names:
\* "**" over any number of them, also none, and any other part over one.
LaidOut(parts, names) ==
  \E end \in [0 .. Len(parts) -> 0 .. Len(names)] :
    /\ end[0] = 0 /\ end[Len(parts)] = Len(names)
    /\ \A i \in DOMAIN parts :
         IF parts[i] = Deep THEN end[i - 1] <= end[i]
         ELSE end[i] = end[i - 1] + 1 /\ PartMatches(parts[i], names[end[i]])

\* A pattern that is accepted and has no character classes matches, besides the
\* very path it names, the paths along which it can be laid out; that is the same
\* for the pattern as it is stored, which is normalised again for every match,
\* unless it ends with a space; and a directory's path with /** matches the
\* directory and all below it, which are those it is an ancestor of
\* (path.go:34-84, 95-111, 125-149).
PatternsMatch ==
  LET pattern == NormalizePathPattern(text)
      target == NormalizePath(other)
      dir == NormalizePath(text)
  IN  ~RefusedPattern(text) /\ ~Refused(other) /\ (\A i \in DOMAIN text : text[i] \notin {"[", "]"}) =>
        /\ Last(pattern) # " " =>
             /\ MatchPathPattern(text, other) <=>
                  pattern = target \/ LaidOut(pathParts(pattern), pathParts(target))
             /\ MatchPathPattern(pattern, target) = MatchPathPattern(text, other)
        /\ (\A i \in DOMAIN text : text[i] \notin {"*", "?"}) =>
             (MatchPathPattern(dir \o Slash \o Deep, other) <=> dir \in DirectoryAncestors(target))

\* A name that a path of the site can have, and keeps.
Proper(name) == name \notin {<<>>, <<".">>} /\ ~Refused(name)

\* A listing leads to what it lists.  For a key of the bucket below a directory,
\* all of whose names are proper (or a key that marks a directory by a slash at
\* its end), there is one entry; its path is in normal form,
\* its parent is the directory, and from it comes the key again, or the prefix of
\* a directory that has the key in it, whatever the root prefix.  So does the
\* entry made up for an indexed directory, which is the one the bucket would
\* list, unless its name has spaces around it (r2.go:77-112, 214-246;
\* file_index.go:209-243).
ListingsLead ==
  \A root \in {cleanPrefix(prefix) : prefix \in RootPrefixes} :
    LET dir == NormalizePath(text)
        key == keyForDir(root, dir) \o other
        names == Split(other)
    IN  /\ ~Refused(text) /\ Proper(names[1])
        /\ \A i \in 2 .. Len(names) : Proper(names[i]) \/ (i = Len(names) /\ names[i] = <<>>)
        =>
          /\ \E p \in ListEntries(root, dir, key) :
               /\ ListEntries(root, dir, key) = {p} /\ NormalizePath(p) = p
               /\ ParentDir(p) = dir
               /\ IF Len(names) = 1 THEN keyForFile(root, p) = key
                  ELSE IsPrefix(keyForDir(root, p), key)
          /\ Trim(names[1], " ") = names[1] =>
               SyntheticEntries(dir, NormalizePath(sitePathFromKey(root, key))) = ListEntries(root, dir, key)

\* A refresh of a path deletes, from the cache of its server and from Redis, the
\* listings and details of that path and of all below it.  Redis keeps all the
\* others, and so does the server, but for a path that ends with a star: the star
\* is taken for a pattern (router.go:1346-1383; r2_cache.go:126-143).
RefreshForgetsBelow ==
  LET target == NormalizePath(text)
      p == NormalizePath(other)
  IN  ~Refused(text) /\ ~Refused(other) =>
        \A kind \in {"list", "stat"} :
          LET below == target \in DirectoryAncestors(p)
              Forgets(Matches(_, _)) ==
                \E pattern \in cacheDeletePatterns(kind, target) : Matches(pattern, CacheKey(kind, p))
          IN  /\ Forgets(RedisMatches) <=> below
              /\ below => Forgets(cachePatternMatches)
              /\ Forgets(cachePatternMatches) => below \/ Last(target) = "*"
=============================================================================
