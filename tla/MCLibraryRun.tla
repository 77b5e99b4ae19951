---------------------------- MODULE MCLibraryRun ----------------------------
EXTENDS LibraryRun

CONSTANTS a, b, film, id

\* IMDb does not have the second season of the other show.
MCAiredThisYear == {<<b, 1>>, <<b, 2>>, <<a, 2>>}
MCImdbMaxSeason == [show \in Shows |-> IF show = b THEN 2 ELSE 1]

Row(name, released) == [name |-> name, released |-> released]
Result(videos) == [ok |-> TRUE, id |-> id, videos |-> videos]

\* A failed request; a season that is only announced; one episode, and one without
\* data; two, one still without a name, after a result of another series.
MCLookups ==
    { <<[Result(<<>>) EXCEPT !.ok = FALSE]>>,
      <<Result(<<Row("numbered", "past"), Row("tba", "unknown")>>)>>,
      <<Result(<<Row("real", "past"), Row("real", "future")>>)>>,
      <<Result(<<>>), Result(<<Row("real", "unknown"), Row("tba", "past")>>)>> }

Known(count, list, fresh) ==
    [DefaultConfig(<<a, 2>>) EXCEPT !.id = id, !.count = count, !.listed = TRUE, !.list = list,
                                    !.fresh = fresh]

Left(exist, bad, first, present) ==
    [exists |-> {<<a, 2>>} \cup exist, broken |-> bad,
     config |-> [Defaults EXCEPT ![<<a, 2>>] = first],
     files |-> [f \in Folders |-> IF f = <<a, 2>> THEN present ELSE {}]]

\* Two folders of one season, of which the second is not identified yet; a folder
\* and a film; a folder of unlisted episodes whose file is numbered past its end,
\* and one that does not load, of a show that gets a new season.
MCLibraries ==
    { Left({<<b, 2>>}, {}, Known(2, {2}, FALSE), {}),
      Left({film}, {}, Known(2, {1}, TRUE), {1}),
      Left({<<b, 1>>}, {<<b, 1>>}, [Known(1, {}, TRUE) EXCEPT !.listed = FALSE], {2}) }
=============================================================================
