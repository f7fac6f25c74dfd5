--------------------------- MODULE ItemCategorizer ---------------------------
(***************************************************************************)
(* Which category an expense saved without one is filed in                 *)
(* (api/v1/expenses/ai_categorizer.py), and the keywords that users teach  *)
(* it (learn_keyword, and add_keyword of api/v1/categories/service.py).    *)
(*                                                                         *)
(* Three tries: the keywords of the book's categories, a language model    *)
(* that is shown the book's tree, and the category named General.  Each is *)
(* a statement, or a call of seconds, of its own, and categories and       *)
(* keywords are added and deleted in between.                              *)
(***************************************************************************)
EXTENDS Naturals, FiniteSets, Functions

CONSTANTS
  Users, Groups, NoGroup,
  FamilyOf,          \* the family of each user, or NoGroup
  Cats, NoCat,       \* categories
  Owner, Family, Parent, Level, \* of each category
  General,           \* those named General
  Texts,             \* descriptions and keywords, in lower case, single spaces
  Blank, Long,       \* no text, and the texts of more than 100 characters
  Spaced,            \* texts of several words
  Within,            \* [text -> the texts it has as a part]
  Tokens,            \* [text -> the words found in it]
  Length,            \* characters of each text
  Named,             \* [text -> the categories whose name has it as a part]
  Words, Expenses,   \* ids, never used twice
  Filers,            \* API threads
  Unborn, Gone

VARIABLES
  kept,   \* categories
  words,  \* category_keywords; Unborn before and Gone after
  filed,  \* expenses: where each was filed, Unborn before
  filing  \* what each thread is doing

guessVars == <<kept, words, filed, filing>>

Book == [user : Users, group : Groups \union {NoGroup}]
Word == [text : Texts, cat : Cats]

InBook(n, b) == IF b.group # NoGroup THEN Family[n] = b.group
                ELSE Owner[n] = b.user /\ Family[n] = NoGroup

\* May add keywords to a category and delete them (_owned_category).
Manages(u, n) == IF Family[n] # NoGroup THEN FamilyOf[u] = Family[n] ELSE Owner[n] = u

Rows == {r \in Words : words[r] \in Word}
RowsOf(d, n) == {r \in Rows : words[r] = [text |-> d, cat |-> n]}

\* A text of one word must be one of the words found, others a part.
Hits(k, d) == IF k \in Spaced THEN k \in Within[d] ELSE k \in Tokens[d]

Matching(d, b) == {r \in Rows : InBook(words[r].cat, b) /\ Hits(words[r].text, d)}

Longest(d, b) ==              \* mutant: the longest keyword, whatever its depth
  {words[r].cat : r \in {x \in Matching(d, b) :
     \A y \in Matching(d, b) : Length[words[y].text] <= Length[words[x].text]}}

\* The deepest category, of those the one with the longest keyword; rows come
\* in no order.
KeywordMatch(d, b) ==
  LET deep == {r \in Matching(d, b) :
                 \A x \in Matching(d, b) : Level[words[x].cat] <= Level[words[r].cat]}
  IN  {words[r].cat : r \in {x \in deep :
         \A y \in deep : Length[words[y].text] <= Length[words[x].text]}}

\* Main categories of the book and two levels below, whoever made those.
Children(S) == {n \in kept : Parent[n] \in S}
CategoryTree(b) ==
  LET roots == {n \in kept : Parent[n] = NoCat /\ InBook(n, b)}
      subs  == Children(roots)
  IN  roots \union subs \union Children(subs)

Below(n) == {n} \union Children({n}) \union Children(Children({n}))

Idle == [at |-> "idle", expense |-> Unborn, book |-> Unborn, text |-> Blank,
         cat |-> NoCat, tree |-> {}, due |-> {}, how |-> "guess"]

GuessInit ==
  /\ kept = Cats
  /\ words = [r \in Words |-> Unborn]
  /\ filed = [e \in Expenses |-> Unborn]
  /\ filing = [t \in Filers |-> Idle]

Works(t, j) == filing' = [filing EXCEPT ![t] = j]
-----------------------------------------------------------------------------
(* Keywords.                                                                *)

\* learn_keyword and add_keyword have checked that the category is of the book,
\* or the user's or the family's: there is a request for each.
Teach(t, d, n) ==
  /\ filing[t] = Idle
  /\ n \in kept /\ d # Blank /\ d \notin Long /\ RowsOf(d, n) = {}
  /\ Works(t, [Idle EXCEPT !.at = "word", !.text = d, !.cat = n])
  /\ UNCHANGED <<kept, words, filed>>

\* The category must still be there (foreign key).
TeachCommit(t, r) ==
  /\ filing[t].at = "word" /\ words[r] = Unborn
  /\ words' = IF filing[t].cat \in kept
              THEN [words EXCEPT ![r] = [text |-> filing[t].text, cat |-> filing[t].cat]]
              ELSE words
  /\ Works(t, Idle)
  /\ UNCHANGED <<kept, filed>>

DeleteKeyword(u, r) ==
  /\ r \in Rows /\ Manages(u, words[r].cat)
  /\ words' = [words EXCEPT ![r] = Gone]
  /\ UNCHANGED <<kept, filed, filing>>

\* A category goes with all below it and their keywords; expenses stay.
DeleteCategory(u, n) ==
  /\ n \in kept /\ Owner[n] = u
  /\ kept' = kept \ Below(n)
  /\ words' = [r \in Words |-> IF r \in Rows /\ words[r].cat \in Below(n) THEN Gone
                               ELSE words[r]]
  /\ filed' = [e \in Expenses |-> IF filed[e] # Unborn /\ filed[e].cat \in Below(n)
                                  THEN [filed[e] EXCEPT !.cat = NoCat] ELSE filed[e]]
  /\ UNCHANGED filing
-----------------------------------------------------------------------------
(* Filing.                                                                  *)

\* Keywords of just this text that will be found in it, at that moment.
Taught(d, b) == {r \in Rows : words[r].text = d /\ InBook(words[r].cat, b) /\ Hits(d, d)}

\* create, of an expense that has no category.
Save(t, e, b, d) ==
  /\ filing[t] = Idle /\ filed[e] = Unborn /\ \A f \in Filers : filing[f].expense # e
  /\ Works(t, [Idle EXCEPT !.at = "match", !.expense = e, !.book = b, !.text = d,
                           !.due = Taught(d, b)])
  /\ UNCHANGED <<kept, words, filed>>

\* bulk_create_expenses, of one item: a category of the user, personal or not,
\* whose name has the name the client sent in it, or else as above, and above
\* once more in create if that finds nothing.
SaveByName(t, e, u, d, name) ==
  LET found == {n \in kept \intersect Named[name] : Owner[n] = u}
      job == [Idle EXCEPT !.expense = e, !.book = [user |-> u, group |-> NoGroup],
                          !.text = d, !.due = Taught(d, [user |-> u, group |-> NoGroup])]
  IN  /\ filing[t] = Idle /\ filed[e] = Unborn /\ \A f \in Filers : filing[f].expense # e
      /\ IF found = {} THEN Works(t, [job EXCEPT !.at = "match", !.how = "bulk"])
         ELSE \E n \in found : Works(t, [job EXCEPT !.at = "insert", !.cat = n, !.how = "name"])
      /\ UNCHANGED <<kept, words, filed>>

\* suggest_category: keywords first; none, and the tree is shown to the model.
Match(t) ==
  LET d == filing[t].text  b == filing[t].book
  IN  /\ filing[t].at = "match"
      /\ CASE d = Blank -> Works(t, [filing[t] EXCEPT !.at = "insert"])
           [] d # Blank /\ KeywordMatch(d, b) # {} ->
                \E n \in KeywordMatch(d, b) : Works(t, [filing[t] EXCEPT !.at = "build", !.cat = n])
           [] OTHER -> Works(t, [filing[t] EXCEPT !.at = "ask", !.tree = CategoryTree(b)])
      /\ UNCHANGED <<kept, words, filed>>

\* The model names a category it was shown; or nothing of use, is not there, or
\* there is no tree: then General, if the book has one.
Reply(t, n) ==
  /\ filing[t].at = "ask" /\ n \in filing[t].tree
  /\ Works(t, [filing[t] EXCEPT !.at = "build", !.cat = n, !.tree = {}])
  /\ UNCHANGED <<kept, words, filed>>

NoReply(t) ==
  LET generals == {n \in kept \intersect General : InBook(n, filing[t].book)}
  IN  /\ filing[t].at = "ask"
      /\ IF generals = {} THEN Works(t, [filing[t] EXCEPT !.at = "insert", !.tree = {}])
         ELSE \E n \in generals :
                Works(t, [filing[t] EXCEPT !.at = "build", !.cat = n, !.tree = {}])
      /\ UNCHANGED <<kept, words, filed>>

\* _build_result reads the category: it may be gone.
Build(t) ==
  /\ filing[t].at = "build"
  /\ Works(t, [filing[t] EXCEPT !.at = "insert", !.cat = IF @ \in kept THEN @ ELSE NoCat])
  /\ UNCHANGED <<kept, words, filed>>

\* The expense is inserted; its category must be there (foreign key).
Insert(t) ==
  /\ filing[t].at = "insert"
  /\ IF filing[t].how = "bulk" /\ filing[t].cat = NoCat
     THEN Works(t, [filing[t] EXCEPT !.at = "match", !.how = "guess"]) /\ UNCHANGED filed
     ELSE /\ Works(t, Idle)
          /\ filed' = IF filing[t].cat \in kept \union {NoCat}
                      THEN [filed EXCEPT ![filing[t].expense] =
                              Restrict(filing[t], {"book", "text", "cat", "due", "how"})]
                      ELSE filed
  /\ UNCHANGED <<kept, words>>

GuessNext ==
  \/ \E t \in Filers, d \in Texts, n \in Cats : Teach(t, d, n)
  \/ \E t \in Filers, r \in Words : TeachCommit(t, r)
  \/ \E u \in Users, r \in Words : DeleteKeyword(u, r)
  \/ \E u \in Users, n \in Cats : DeleteCategory(u, n)
  \/ \E t \in Filers, e \in Expenses, b \in Book, d \in Texts : Save(t, e, b, d)
  \/ \E t \in Filers, e \in Expenses, u \in Users, d, name \in Texts : SaveByName(t, e, u, d, name)
  \/ \E t \in Filers : \/ Match(t) \/ NoReply(t) \/ Build(t) \/ Insert(t)
                       \/ \E n \in Cats : Reply(t, n)
-----------------------------------------------------------------------------
RootOf(n) == IF Parent[n] = NoCat THEN n
             ELSE IF Parent[Parent[n]] = NoCat THEN Parent[n] ELSE Parent[Parent[n]]

\* An expense is filed in a category of its own book, or below one, and, where
\* its description had been taught before the request began and the keyword is
\* still there, no higher than the category it was taught for, unless the
\* category found was deleted meanwhile (learn_keyword: "so the same item
\* resolves instantly next time").
FiledAsTaught ==
  \A e \in Expenses : filed[e] # Unborn /\ filed[e].how # "name" =>
    /\ filed[e].cat # NoCat => InBook(filed[e].cat, filed[e].book)
                               \/ InBook(RootOf(filed[e].cat), filed[e].book)
    /\ \A r \in filed[e].due \intersect Rows :
         IF filed[e].cat = NoCat THEN kept # Cats
         ELSE Level[filed[e].cat] >= Level[words[r].cat]
=============================================================================
