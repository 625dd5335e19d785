--------------------------------- MODULE Cards ---------------------------------
(***************************************************************************)
(* The link to a page's card: makeOgImageUrl normalises what the page      *)
(* says of itself and signs it, and ogimage.png.ts parses what it is asked *)
(* for.  What does not pass the schemas is answered with the site's        *)
(* default card, so the two must agree.                                    *)
(*                                                                         *)
(* A text is a sequence of graphemes, of which "wide" is two units long.   *)
(* The limits are the code's, scaled down.                                 *)
(***************************************************************************)
EXTENDS Integers, Sequences, FiniteSets, Arrays

CONSTANTS
  Texts, Names,    \* what pages have for titles and descriptions, and for categories
  Title, Body, Name, Total,  \* OG_IMAGE_LIMITS: title, description or author, categoryName, totalText
  MaxCategories,
  Lowest, Highest, \* score
  None

VARIABLES
  page,   \* the properties a page passes to makeOgImageUrl
  link,   \* the data in the link, and whether its signature is of that data
  drawn   \* what parsePublicOgImageRequest made of it

vars == <<page, link, drawn>>

Graphemes == {"x", "space", "emoji", "wide"}
Icons == {"valid", "invalid"}
Sources == {None, "local", "foreign"}
Times == {None, "iso", "date", "junk"}
Category == [name : Names, icon : Icons]
Categories == UNION {[1..n -> Category] : n \in 0..MaxCategories + 1}
NoCategories == <<>>

Service(title, body, categories, score, image) ==
  [template |-> "service", title |-> title, body |-> body, categories |-> categories, score |-> score,
   icon |-> None, image |-> image, time |-> None]
Generic(title, body, icon) ==
  [Service(title, body, NoCategories, Lowest, None) EXCEPT !.template = "generic", !.icon = icon]
Blog(title, author, image, time) ==
  [Service(title, author, NoCategories, Lowest, image) EXCEPT !.template = "blog", !.time = time]

Plain == <<"x">>
\* Texts vary together, and so do the other properties.
AnyPage ==
  \/ \E t \in Texts, b \in Texts, c \in Categories : page = Service(t, b, c, Lowest, None)
  \/ \E s \in Lowest - 1..Highest + 1, i \in Sources : page = Service(Plain, Plain, NoCategories, s, i)
  \/ \E t \in Texts, b \in Texts \cup {None}, i \in Icons \cup {None} : page = Generic(t, b, i)
  \/ \E t \in Texts, a \in Texts \cup {None}, i \in Sources, w \in Times : page = Blog(t, a, i, w)

NoLink == [data |-> None, signed |-> FALSE]
Nothing == [answer |-> "none", data |-> None]

TypeOK ==
  /\ page.template \in {"service", "generic", "blog"}
  /\ link.signed \in BOOLEAN /\ (link.data # None => DOMAIN link.data = DOMAIN page)
  /\ drawn.answer \in {"none", "card", "default"} /\ (drawn.data # None => DOMAIN drawn.data = DOMAIN page)

Init == AnyPage /\ link = NoLink /\ drawn = Nothing

-----------------------------------------------------------------------------
(* Texts *)

\* A wide one counts twice.
Length(text) == Len(text) + Cardinality({i \in DOMAIN text : text[i] = "wide"})

Trim(text) ==
  LET solid == {i \in DOMAIN text : text[i] # "space"} IN
  IF solid = {} THEN <<>>
  ELSE SubSeq(text, CHOOSE i \in solid : \A j \in solid : i <= j, CHOOSE i \in solid : \A j \in solid : j <= i)

\* stripOgImageEmoji
Strip(text) == Only(text, Graphemes \ {"emoji"})

\* createOgImageTextNormalizer: left is what remains of the budget all texts share.
Clip(text, limit, left) ==
  LET normalized[n \in 0..Len(text)] ==
        IF n = 0 THEN <<>>
        ELSE LET so == normalized[n - 1]
                 more == Append(so, text[n])
             IN IF text[n] # "emoji" /\ Length(more) <= limit /\ Length(more) <= left THEN more ELSE so
  IN normalized[Len(text)]

\* normalizeRequiredText: a blank title has used up its part of the budget all the same.
Required(text, limit, left) ==
  LET clipped == Clip(text, limit, left) IN
  IF Trim(clipped) # <<>> THEN clipped ELSE Clip(Plain, limit, left - Length(clipped))
Spent(text, limit, left) ==
  LET clipped == Clip(text, limit, left) IN
  Length(clipped) + IF Trim(clipped) # <<>> THEN 0 ELSE Length(Clip(Plain, limit, left - Length(clipped)))

-----------------------------------------------------------------------------
(* normalizePublicOgImageProps *)

\* A category without a name left is dropped, a bad icon replaced.
\* Mutation: each category has a budget of its own.
CategoriesAnyLength(categories, left) ==
  SelectSeq([i \in 1..Len(categories) |-> [name |-> Clip(categories[i].name, Name, Total), icon |-> "valid"]],
            LAMBDA c : Trim(c.name) # <<>>)
ClipCategories(categories, left) ==
  LET taken == IF Len(categories) < MaxCategories THEN Len(categories) ELSE MaxCategories
      done[n \in 0..taken] ==
        IF n = 0 THEN [left |-> left, out |-> <<>>]
        ELSE LET so == done[n - 1]
                 name == Clip(categories[n].name, Name, so.left)
             IN [left |-> so.left - Length(name),
                 out |-> IF Trim(name) = <<>> THEN so.out ELSE Append(so.out, [name |-> name, icon |-> "valid"])]
  IN done[taken].out

Normalize(p) ==
  LET left == Total - Spent(p.title, Title, Total)
      body == IF p.body = None THEN None ELSE Clip(p.body, Body, left)
  IN
  [p EXCEPT !.title = Required(@, Title, Total),
            !.body = IF p.template = "blog" /\ body = <<>> THEN None ELSE body,
            !.categories = ClipCategories(@, left - IF body = None THEN 0 ELSE Length(body)),
            !.score = IF @ < Lowest THEN Lowest ELSE IF @ > Highest THEN Highest ELSE @,
            !.icon = IF @ = "valid" THEN @ ELSE None,
            !.image = IF @ = "foreign" THEN None ELSE @,
            !.time = CASE @ = "date" -> "iso" [] @ = "junk" -> None [] OTHER -> @]

-----------------------------------------------------------------------------
(* publicOgImagePropsSchemas *)

OptionalText(text, limit) == text = None \/ Length(Trim(text)) <= limit
Parsed(text) == IF text = None THEN None ELSE Trim(Strip(Trim(text)))
RequiredText(text, limit) == OptionalText(text, limit) /\ Parsed(text) # <<>>

NamesLength(categories) ==
  LET total[n \in 0..Len(categories)] == IF n = 0 THEN 0 ELSE total[n - 1] + Length(Parsed(categories[n].name))
  IN total[Len(categories)]
Rendered(p) ==
  Length(Parsed(p.title)) + (IF p.body = None THEN 0 ELSE Length(Parsed(p.body))) + NamesLength(p.categories)

Accepts(p) ==
  /\ RequiredText(p.title, Title) /\ OptionalText(p.body, Body)
  /\ p.template = "service" => p.body # None
  /\ Len(p.categories) <= MaxCategories
  /\ \A i \in DOMAIN p.categories : p.categories[i].icon = "valid" /\ RequiredText(p.categories[i].name, Name)
  /\ p.score \in Lowest..Highest
  /\ p.icon # "invalid" /\ p.image # "foreign" /\ p.time \in {None, "iso"}
  /\ Rendered(p) <= Total

ParsedCategory(category) == [category EXCEPT !.name = Parsed(@)]
Parse(p) ==
  [p EXCEPT !.title = Parsed(@), !.body = Parsed(@),
            !.categories = [i \in DOMAIN @ |-> ParsedCategory(@[i])]]

-----------------------------------------------------------------------------
MakeOgImageUrl ==
  /\ link = NoLink
  /\ link' = [data |-> Normalize(page), signed |-> TRUE]
  /\ UNCHANGED <<page, drawn>>

\* Whoever follows the link changes it, or asks without one.
Alter ==
  /\ link.signed /\ drawn = Nothing
  /\ link' = [data |-> page, signed |-> FALSE]
  /\ UNCHANGED <<page, drawn>>

\* ogimage.png.ts: the signature first.
Get ==
  /\ link.data # None /\ drawn = Nothing
  /\ drawn' = IF link.signed /\ Accepts(link.data) THEN [answer |-> "card", data |-> Parse(link.data)]
              ELSE [answer |-> "default", data |-> None]
  /\ UNCHANGED <<page, link>>

\* Another page.
Leave ==
  /\ drawn # Nothing
  /\ link' = NoLink /\ drawn' = Nothing
  /\ UNCHANGED page

Next == MakeOgImageUrl \/ Alter \/ Get \/ Leave

Spec == Init /\ [][Next]_vars

-----------------------------------------------------------------------------
(* Properties *)

(***************************************************************************)
(* What the site signs it draws, with all of the text it kept: no title,   *)
(* description or category that a page can have gets its card replaced by  *)
(* the default one (ogImageNormalize.ts:18).                               *)
(***************************************************************************)
SignedCardsAreDrawn ==
  drawn.answer # "none" /\ link.signed =>
    /\ drawn.answer = "card"
    /\ drawn.data.title = Trim(link.data.title)
    /\ Len(drawn.data.categories) = Len(link.data.categories)

-----------------------------------------------------------------------------
(* The assumption and the invariant the proofs use *)

Wellformed ==
  /\ Texts \subseteq Seq(Graphemes) /\ Names \subseteq Seq(Graphemes)
  /\ None \notin Seq(Graphemes) /\ None \notin {"invalid", "foreign"}
  /\ {Title, Body, Name, Total, MaxCategories} \subseteq Nat
  /\ 0 < Title /\ Title < Total
  /\ Lowest \in Int /\ Highest \in Int /\ Lowest <= Highest

IInv ==
  /\ AnyPage
  /\ link = NoLink => drawn = Nothing
  /\ link.signed => link.data = Normalize(page)
  /\ drawn.answer # "none" /\ link.signed => drawn = [answer |-> "card", data |-> Parse(link.data)]
=============================================================================
