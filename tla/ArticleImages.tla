------------------------------ MODULE ArticleImages ------------------------------
(***************************************************************************)
(* Which image an article gets: the first usable one of those its RSS item *)
(* names, or else of those its page names (worker/src/index.ts).           *)
(*                                                                         *)
(* An image's URL is a record [scheme, width, words]: what its address     *)
(* resolves to, the width its parameters or path hint at (NoHint without), *)
(* and whether its words are those of a picture, of an ornament such as a  *)
(* logo, or neither.  A tag is a record [srcset, attributes]: the URLs of  *)
(* its srcset with their scores, and those of its other attributes.        *)
(***************************************************************************)
EXTENDS Integers, Sequences, FiniteSetsExt

NoHint == 0
TinyWidth == 120
NoImage == [scheme |-> "none", width |-> NoHint, words |-> "neither"]

Images == [scheme : {"http", "https", "relative", "data", "none"}, width : Nat,
           words : {"picture", "ornament", "neither"}]
Tags == [srcset : Seq([image : Images, score : Nat]), attributes : Seq(Images)]

-----------------------------------------------------------------------------
(* One URL. *)

Normalizable(image) == image.scheme \in {"http", "https", "relative"}

\* A hint of exactly the limit is tiny too.
HasTinyImageDimensionHints(image) == image.width # NoHint /\ image.width <= TinyWidth

IsBadImageCandidate(image) == HasTinyImageDimensionHints(image) \/ image.words = "ornament"

IsLikelyImageUrl(image) == image.words = "picture"

IsUsableImageUrl(image) ==
    Normalizable(image) /\ ~IsBadImageCandidate(image) /\ IsLikelyImageUrl(image)

-----------------------------------------------------------------------------
(* The candidates a document names, in the order they are tried. *)

\* Only the first candidate is tried.
FirstOrNoneBug(images) ==
    IF images # <<>> /\ IsUsableImageUrl(Head(images)) THEN Head(images) ELSE NoImage

FirstValidImageUrl(images) ==
    LET usable == {i \in DOMAIN images : IsUsableImageUrl(images[i])}
    IN IF usable = {} THEN NoImage ELSE images[Min(usable)]

\* The first of the highest score; the others of the srcset are not tried.
ExtractBestUrlFromSrcset(srcset) ==
    LET best == CHOOSE i \in DOMAIN srcset :
                    \A j \in DOMAIN srcset :
                        \/ srcset[j].score < srcset[i].score
                        \/ srcset[j].score = srcset[i].score /\ i <= j
    IN <<srcset[best].image>>

OfTag(tag) ==
    (IF tag.srcset = <<>> THEN <<>> ELSE ExtractBestUrlFromSrcset(tag.srcset)) \o tag.attributes

\* The tags are the document's sources, then its images.  The first usable one of
\* all their images is that of the first tag that has one.
ExtractImageFromHtml(tags) ==
    FirstValidImageUrl([i \in DOMAIN tags |-> FirstValidImageUrl(OfTag(tags[i]))])

\* A link counts if what it preloads is an image, or not said.
LinkImages(links) ==
    [i \in DOMAIN links |-> IF links[i].as \in {"image", ""} THEN links[i].image ELSE NoImage]

\* Metadata come before the tags of the text: meta tags, links, JSON-LD.
ExtractArticlePageImageFromHtml(page) ==
    LET metadata == FirstValidImageUrl(page.meta \o LinkImages(page.links) \o page.jsonLd)
    IN IF metadata # NoImage THEN metadata ELSE ExtractImageFromHtml(page.tags)

\* Elements of the item that may hold anything must say that it is an image, or
\* look like one.
DirectImages(elements) ==
    LET taken(e) ==
            \/ e.element \in {"media:thumbnail", "itunes:image", "image"}
            \/ e.declared
            \/ IsLikelyImageUrl(e.image)
    IN [i \in DOMAIN elements |-> IF taken(elements[i]) THEN elements[i].image ELSE NoImage]

\* blocks: the item's description, summary and content, as HTML.
ExtractRssImageUrl(item) ==
    LET direct == FirstValidImageUrl(DirectImages(item.elements))
        embedded == [i \in DOMAIN item.blocks |-> ExtractImageFromHtml(item.blocks[i])]
    IN IF direct # NoImage THEN direct ELSE FirstValidImageUrl(embedded)
=============================================================================
