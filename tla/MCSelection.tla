------------------------------- MODULE MCSelection -------------------------------
(***************************************************************************)
(* CandidateSelection for TLC: three articles in two feeds, with and       *)
(* without images of their own.                                            *)
(***************************************************************************)
EXTENDS CandidateSelection

CONSTANTS a1, a2, a3

\* Articles and pages with images of all kinds, of which Picture and Relative are
\* usable.
Picture == [scheme |-> "https", width |-> 121, words |-> "picture"]
Tiny == [Picture EXCEPT !.width = 120]
Logo == [Picture EXCEPT !.words = "ornament"]
Inline == [Picture EXCEPT !.scheme = "data"]
Plain == [Picture EXCEPT !.words = "neither"]
Relative == [Picture EXCEPT !.scheme = "relative", !.width = NoHint]

Element(element, declared, image) ==
    [element |-> element, declared |-> declared, image |-> image]
Img(image) == [srcset |-> <<>>, attributes |-> <<image>>]
Srcset(small, large) ==
    [srcset |-> <<[image |-> small, score |-> 1], [image |-> large, score |-> 2]>>,
     attributes |-> <<>>]

Glad == [source |-> "positive", long |-> TRUE, scored |-> [positives |-> 0, negatives |-> 0],
         filtered |-> [hard |-> 2, escapes |-> 0]]
Sad == [Glad EXCEPT !.source = "other", !.scored.negatives = 1]

Bare(url, text) ==
    [url |-> url, text |-> text, blocks |-> <<>>,
     elements |-> <<Element("media:content", TRUE, Logo), Element("enclosure", FALSE, Plain)>>]
Pictured(url, text) ==
    [Bare(url, text) EXCEPT !.elements =
        <<Element("media:thumbnail", FALSE, Tiny), Element("itunes:image", FALSE, Relative)>>]
Embedded(url, text) ==
    [Bare(url, text) EXCEPT !.blocks =
        << <<Img(Inline)>>, <<Img(Logo), Srcset(Tiny, Picture)>> >>]

\* The first feed's item of an article counts, whatever the second has.
Feeds(second, third) == << <<Bare(a1, Glad), second>>, <<third, Pictured(a1, Sad)>> >>
MCFeedLists ==
    <<Feeds(Bare(a2, Glad), Embedded(a3, Glad)),
      Feeds(Pictured(a2, Sad), Bare(a3, Glad)),
      Feeds(Pictured(a2, Sad), Embedded(a3, Glad))>>

Page == [meta |-> <<Plain>>, links |-> <<[as |-> "script", image |-> Picture]>>,
         jsonLd |-> <<Logo>>, tags |-> <<Srcset(Picture, Tiny), Img(Logo)>>]
MCPages == <<Page, [Page EXCEPT !.jsonLd = <<Logo, Picture>>]>>

MCPublishedOrder == <<a2, a1, a3>>
=============================================================================
