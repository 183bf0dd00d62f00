---------------------------- MODULE MCPlanning -----------------------------
(***************************************************************************)
(* Instances of Planning for TLC: catalogues and briefs.                   *)
(***************************************************************************)
EXTENDS Planning, TLC

\* Entries of a catalogue, of quality tier t.
Flat(p, t) ==
  [price |-> p, perSecond |-> 0, worst |-> 0, reserves |-> {}, timed |-> FALSE,
   durations |-> {}, lo |-> 0, hi |-> 0, promptMax |-> 0, longMax |-> 0, needs |-> {},
   tier |-> t, excluded |-> FALSE]
Tokens(held, t) == [Flat(NoPrice, t) EXCEPT !.reserves = held]
Tiered(p, w, t) == [Flat(p, t) EXCEPT !.worst = w]
PerSecond(p, t, choices, lo, hi) ==
  [Flat(0, t) EXCEPT !.perSecond = p, !.timed = TRUE, !.durations = choices,
                     !.lo = lo, !.hi = hi]
Needing(spec, what) == [spec EXCEPT !.needs = what]
Limited(spec, short, long) == [spec EXCEPT !.promptMax = short, !.longMax = long]

Brief(formats, strategy) ==
  [formats |-> formats, strategy |-> strategy, seconds |-> 4,
   prompt |-> [f \in Formats |-> 5], script |-> FALSE, refs |-> {}, landing |-> FALSE]
Ask(text, image, voice, video, music, brief) ==
  [catalogue |-> <<text, image, voice, video, music>>, brief |-> brief]

\* Token-billed texts and an image: the first draft cannot know what the text costs.
Copy(strategy) ==
  Ask(<<Tokens({15}, 0), Tokens({2, 6}, 1)>>, <<Flat(10, 0), Flat(4, 1)>>, <<>>, <<>>, <<>>,
      Brief({1, 2}, strategy))

\* All five formats, with choices in each; not everything fits.
Everything(strategy) ==
  Ask(<<Flat(3, 0), Tokens({2}, 0)>>,
      <<Flat(6, 0), Flat(2, 1), Flat(4, 1)>>,
      <<Flat(3, 1), Flat(2, 2)>>,
      <<Tiered(2, 5, 1), [Flat(1, 0) EXCEPT !.excluded = TRUE]>>,
      <<Flat(4, 0), Flat(9, 0)>>, Brief(Formats, strategy))

\* A video from pictures: seconds chosen from an enum or clamped to a range, or not sent.
Video8(refs) ==
  Ask(<<>>, <<Needing(Flat(1, 0), {"asset"})>>, <<>>,
      <<Needing(PerSecond(2, 0, {3, 6}, 0, 0), {"reference"}), PerSecond(2, 1, {}, 5, 9),
        [PerSecond(2, 2, {}, 2, 6) EXCEPT !.timed = FALSE],
        Needing(Flat(1, 0), {"landing"})>>,
      <<>>, [Brief({1, 2, 4}, "quality") EXCEPT !.refs = refs])

\* A script of the user's own: models that would cut it are out, a long one is billed by
\* the chunk.
Script(own) ==
  Ask(<<Tokens({}, 0)>>, <<>>,
      <<Limited(Flat(2, 0), 20, 0), Limited(Flat(3, 1), 20, 40)>>, <<>>,
      <<Flat(9, 0)>>,
      [Brief({1, 3, 5}, "balanced") EXCEPT !.script = own, !.prompt[Voice] = 25])

\* Nothing at all can be made.
Nothing ==
  Ask(<<>>, <<Needing(Flat(1, 0), {"asset"})>>, <<>>, <<>>, <<>>, Brief({2}, "balanced"))

AllRequests ==
  {Copy(s) : s \in {"balanced", "quality"}} \cup {Everything(s) : s \in Strategies}
    \cup {Video8(Urls), Video8({}), Script(TRUE), Script(FALSE), Nothing}
=============================================================================
