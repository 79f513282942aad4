---------------------------------- MODULE Glob ----------------------------------
(***************************************************************************)
(* internal/fnmatch: the patterns of /metadata and of the searches of the  *)
(* web UI.  A text is a sequence of character codes.  Match follows the    *)
(* code from left to right; Denotes says what a pattern means, given the   *)
(* tokens it was written with, by how the name can be cut into pieces.     *)
(***************************************************************************)
EXTENDS Naturals, Sequences

CONSTANTS
  Tokens,     \* tokens patterns are written with: a star, or the characters
              \* that one place may hold, and how the token is spelled
  Letters,    \* the characters of names
  MaxTokens,  \* length of the patterns that are compared
  MaxLetters  \* length of the names that are compared

Star == 42
Question == 63
Open == 91
Close == 93
Not == 33
Caret == 94
Dash == 45
Slash == 47
Backslash == 92

SlashOf(ch) == IF ch = Backslash THEN Slash ELSE ch
SlashForm(text) == [i \in DOMAIN text |-> SlashOf(text[i])]

(* matchClass: the characters a class lists from place i on, singly and in *)
(* ranges, given those it lists from later places on; a dash is one of a   *)
(* range only if a character follows it.                                   *)
ListedAt(listed, chars, i) ==
  IF i > Len(listed) THEN {}
  ELSE IF i + 2 <= Len(listed) /\ listed[i + 1] = Dash
  THEN (listed[i]..listed[i + 2]) \cup chars[i + 3]
  ELSE {listed[i]} \cup chars[i + 1]

MatchClass(class, ch) ==
  LET inverted == Len(class) > 0 /\ class[1] \in {Not, Caret}
      listed == IF inverted THEN Tail(class) ELSE class
      chars[i \in 1..Len(listed) + 1] == ListedAt(listed, chars, i)
  IN class # <<>> /\ (ch \in chars[1] <=> ~inverted)

-----------------------------------------------------------------------------
(* Under FNM_PATHNAME a wildcard takes no slash.                           *)
Free(name, pathname, j, k) == pathname => \A l \in j..k : name[l] # Slash

(* Where a class that is opened at place i is closed: at the first bracket,*)
(* also one that directly follows.                                         *)
Closes(pattern, i, k) ==
  /\ k \in i + 1..Len(pattern) /\ pattern[k] = Close
  /\ \A l \in i + 1..k - 1 : pattern[l] # Close

(* Whether place i of the pattern, which is no star, takes the character at*)
(* place j of the name, and the rest of the pattern what follows it.       *)
Takes(pattern, name, pathname, m, i, j) ==
  CASE pattern[i] = Question -> Free(name, pathname, j, j) /\ j + 1 \in m[i + 1]
    [] pattern[i] = Open -> \E k \in i + 1..Len(pattern) :
         /\ Closes(pattern, i, k) /\ Free(name, pathname, j, j)
         /\ MatchClass(SubSeq(pattern, i + 1, k - 1), name[j])
         /\ j + 1 \in m[k + 1]
    [] OTHER -> pattern[i] = name[j] /\ j + 1 \in m[i + 1]

(* Mutant: a star at the end of the pattern takes slashes, too.            *)
GreedyAt(pattern, name, pathname, m, i) ==
  IF i > Len(pattern) THEN {Len(name) + 1}
  ELSE IF pattern[i] = Star
  THEN IF i = Len(pattern) THEN 1..Len(name) + 1
       ELSE {j \in 1..Len(name) + 1 : \E k \in m[i + 1] :
               j <= k /\ Free(name, pathname, j, k - 1)}
  ELSE {j \in 1..Len(name) : Takes(pattern, name, pathname, m, i, j)}

(* match and matchStar: the places of the name from which the pattern, from*)
(* place i on, takes the rest; m says the same for the later places of the *)
(* pattern.                                                                *)
MatchesAt(pattern, name, pathname, m, i) ==
  IF i > Len(pattern) THEN {Len(name) + 1}
  ELSE IF pattern[i] = Star
  THEN IF i = Len(pattern)
       THEN {j \in 1..Len(name) + 1 : Free(name, pathname, j, Len(name))}
       ELSE {j \in 1..Len(name) + 1 : \E k \in m[i + 1] :
               j <= k /\ Free(name, pathname, j, k - 1)}
  ELSE {j \in 1..Len(name) : Takes(pattern, name, pathname, m, i, j)}

Match(pattern, name, pathname) ==
  LET p == SlashForm(pattern)
      n == SlashForm(name)
      m[i \in 1..Len(p) + 1] == MatchesAt(p, n, pathname, m, i)
  IN 1 \in m[1]

-----------------------------------------------------------------------------
Upto(S, n) == UNION {[1..k -> S] : k \in 0..n}

Spelling(tokens) ==
  LET s[i \in 0..Len(tokens)] ==
        IF i = 0 THEN <<>> ELSE s[i - 1] \o tokens[i].spelling
  IN s[Len(tokens)]

Occurs(ch, text) == \E i \in DOMAIN text : text[i] = ch

(* The name can be cut into one piece for every token: any piece for a     *)
(* star, one of its characters for another token; under FNM_PATHNAME a     *)
(* slash is matched by a slash only.                                       *)
Denotes(tokens, name, pathname) ==
  \E cut \in [0..Len(tokens) -> 0..Len(name)] :
     /\ cut[0] = 0 /\ cut[Len(tokens)] = Len(name)
     /\ \A i \in DOMAIN tokens :
          LET piece == SubSeq(name, cut[i - 1] + 1, cut[i])
          IN /\ cut[i - 1] <= cut[i]
             /\ pathname /\ tokens[i].wild => ~Occurs(Slash, piece)
             /\ ~tokens[i].star => Len(piece) = 1 /\ piece[1] \in tokens[i].chars

(* The characters of a name as Match sees it.                              *)
NameChars == {SlashOf(ch) : ch \in Letters}

(* What a class lists: a character alone, or those from one to another.    *)
IsAlone(x) == Len(x.spelling) = 1 /\ x.chars = {x.spelling[1]}
IsSpan(x) == /\ Len(x.spelling) = 3 /\ x.spelling[2] = Dash
             /\ x.chars = x.spelling[1]..x.spelling[3]

(* A dash is listed where it makes no span of its neighbours: first, last, *)
(* or after a span.                                                        *)
Legible(items) ==
  \A k \in 1..Len(items) - 1 :
    IsAlone(items[k]) /\ items[k + 1].spelling[1] = Dash
      => k + 1 = Len(items) /\ IsAlone(items[k + 1])

IsListing(items) ==
  /\ Len(items) \in Nat /\ DOMAIN items = 1..Len(items) /\ Legible(items)
  /\ \A k \in 1..Len(items) : /\ items[k].spelling \in Seq(Nat)
                              /\ IsAlone(items[k]) \/ IsSpan(items[k])

Lists(items, ch) == \E k \in 1..Len(items) : ch \in items[k].chars

(* What is between the brackets of a class: a mark if it is about the      *)
(* characters it does not list, and the listing.                           *)
IsMarked(mark, items) ==
  /\ mark \in {<<>>, <<Not>>, <<Caret>>}
  /\ mark = <<>> => Len(items) > 0 /\ items[1].spelling[1] \notin {Not, Caret}

(* How tokens are spelled: a star, a question mark for any character, a    *)
(* character for itself, and a class in brackets, which holds no closing   *)
(* one.  A backslash is a slash, and nothing else takes away the meaning   *)
(* of a star, a question mark or a bracket than a class.                   *)
IsStar(t) == t.star /\ t.wild /\ t.spelling = <<Star>>

IsAny(t) == ~t.star /\ t.wild /\ t.spelling = <<Question>> /\ NameChars \subseteq t.chars

IsCharacter(t) ==
  LET ch == t.spelling[1]
  IN /\ ~t.star /\ ~t.wild /\ t.spelling = <<ch>>
     /\ ch \notin {Star, Question, Open} /\ t.chars = {SlashOf(ch)}

IsClass(t) ==
  LET text == SlashForm(t.spelling)
  IN /\ ~t.star /\ t.wild /\ IsListing(t.items) /\ IsMarked(t.mark, t.items)
     /\ text = <<Open>> \o (t.mark \o Spelling(t.items)) \o <<Close>>
     /\ Closes(text, 1, Len(text))
     /\ \A ch \in NameChars :
          ch \in t.chars <=> (Lists(t.items, ch) <=> t.mark = <<>>)

ASSUME TokensAssumption ==
  /\ Letters \subseteq Nat /\ MaxTokens \in Nat /\ MaxLetters \in Nat
  /\ \A t \in Tokens : /\ t.spelling \in Seq(Nat)
                       /\ IsStar(t) \/ IsAny(t) \/ IsCharacter(t) \/ IsClass(t)

(* The matcher, which tries the stars from left to right and reads classes *)
(* as it goes, accepts the names the pattern means and no other.           *)
GlobAgrees ==
  \A tokens \in Upto(Tokens, MaxTokens), name \in Upto(Letters, MaxLetters) :
    \A pathname \in BOOLEAN :
      Match(Spelling(tokens), name, pathname) <=> Denotes(tokens, SlashForm(name), pathname)
================================================================================
