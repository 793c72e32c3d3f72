---------------------------- MODULE MCMediaWorker ----------------------------
(***************************************************************************)
(* MediaWorker for TLC. NothingLost and EndsWhole are about the            *)
(* replacement of a series.                                                *)
(***************************************************************************)
EXTENDS MediaWorker, TLC

(* Gap filling: series 1 with a known year, series 2 without, and work 3,  *)
(* a remake of 1 that is not in the library. Shares are of one work each,  *)
(* named by title, by title and year or by TMDB id, with or without a      *)
(* title around them. One share has both series. Two have a second         *)
(* season's file whose own name does not say so: a directory does, or only *)
(* the share's title. In one the number of an episode looks like a season  *)
(* ("2" of autoFillSeasonPattern).                                         *)
MCWorks == (1 :> [title |-> 1, original |-> 0, year |-> 1, season |-> 0, id |-> 1]) @@
           (2 :> [title |-> 2, original |-> 0, year |-> 0, season |-> 0, id |-> 2])
MCCatalogue == (1 :> [titles |-> {1}, year |-> 1, id |-> 1]) @@
               (2 :> [titles |-> {2}, year |-> 1, id |-> 2]) @@
               (3 :> [titles |-> {1}, year |-> 2, id |-> 3])
MCProvider == [r1 |-> "115", r2 |-> "quark"]
Label(t, y, s, i) == [title |-> t, year |-> y, season |-> s, id |-> i]
TitleAndYear(w) == IF w = 1 THEN Label(1, 1, 0, 0) ELSE Label(1, 2, 0, 0)
LabelsOf(w) == {Label(1, 0, 0, 0), TitleAndYear(w), Label(0, 0, 0, w)}
E1 == <<1, 1>>
E2 == <<1, 2>>
Leaf(w, label, keys) ==
    [work |-> w, season |-> 1, keys |-> keys, numbered |-> TRUE, ancestors |-> {}, name |-> label]
ShareOf(w, label, titles, files) ==
    [titles |-> titles, leaves |-> [i \in DOMAIN files |-> Leaf(w, label, files[i])]]
BothSeries ==
    [titles |-> {}, leaves |-> [w \in {1, 2} |-> Leaf(w, Label(0, 0, 0, w), <<E1>>)]]
Unnumbered(key) == [Leaf(1, TitleAndYear(1), <<key>>) EXCEPT !.numbered = FALSE]
SecondSeason == [Unnumbered(E1) EXCEPT !.season = 2]
InDirectory == [titles |-> {}, leaves |-> <<[SecondSeason EXCEPT !.ancestors = {Label(0, 0, 2, 0)}]>>]
InTitle == [titles |-> {Label(1, 1, 2, 0)}, leaves |-> <<SecondSeason>>]
EpisodeTwo ==
    [titles |-> {}, leaves |-> <<[Unnumbered(E2) EXCEPT !.name = Label(1, 1, 2, 0)]>>]
FileSets == {<< <<E1>>, <<E2>> >>, << <<E1, E2>> >>}
Plain == {ShareOf(w, TitleAndYear(w), {}, f) : w \in {1, 3}, f \in FileSets}
MCShareMenu ==
    UNION {{ShareOf(w, l, t, f) : l \in LabelsOf(w), t \in {{}, {TitleAndYear(w)}},
                                  f \in FileSets} : w \in {1, 3}}
    \cup {BothSeries, InDirectory, InTitle, EpisodeTwo}
Nothing == [s \in {} |-> 0]
Payload(transfer, ids, overrides, sources) ==
    [transfer |-> transfer, seriesIDs |-> ids, overrides |-> overrides, sources |-> sources]
MCPayloads == {Payload(TRUE, {}, Nothing, Nothing), Payload(FALSE, {}, Nothing, Nothing),
               Payload(TRUE, {1}, 1 :> "r1", Nothing), Payload(TRUE, {}, Nothing, 1 :> "r1"),
               Payload(TRUE, {}, 1 :> "r1", 1 :> "r1")}
MCMissing == {(1 :> {E1, E2}) @@ (2 :> {E1})}

\* Ingest: i and k have the same bytes; all three have the same canonical name,
\* and a file of the series already has that name with the SHA-1 of i.
MCBytes == [i |-> 1, j |-> 2, k |-> 1, f |-> 2]
MCCanonical == [i |-> <<"X">>, j |-> <<"X">>, k |-> <<"X">>, f |-> <<"X", 1>>]

\* STRM: a is in a legacy directory; d is too, and its canonical path is b's; x
\* is under an excluded root.
MCOriginal == [a |-> "o", b |-> "p", d |-> "r", x |-> "q"]
MCOutput == [a |-> "n", b |-> "p", d |-> "p", x |-> "q"]

MCSelections == {<<1>>, <<1, 2>>}

\* Names and sizes are interchangeable, one of the two shares a fill meets is
\* named plainly, the excluded source is there with its file when a sync begins,
\* and the parts a scene does not run start in one state.
MCInit ==
    /\ scene \in {"replacement", "fill", "ingest", "sync", "save"}
    /\ IF scene = "fill"
       THEN shares \in [Resources -> ShareMenu] /\ \E r \in Resources : shares[r] \in Plain
       ELSE /\ shares = [r \in Resources |-> CHOOSE m \in ShareMenu : TRUE]
            /\ missing = CHOOSE m \in Missing : TRUE
            /\ spec = Payload(TRUE, {}, Nothing, Nothing)
    /\ IF scene = "sync"
       THEN /\ media \in {m \in SUBSET Sources : "x" \in m}
            /\ tree \in {t \in [S!Paths -> Sources \cup {NoFile}] : t["q"] = "x"}
       ELSE media = {} /\ tree = [p \in S!Paths |-> NoFile]
    /\ \E n \in Names, z \in Sizes :
          /\ scene = "save" \/ (n = "a" /\ z = 1 /\ exact = TRUE)
          /\ share = [e \in Entries |-> [name |-> IF e = 1 THEN "a" ELSE n,
                                         size |-> IF e = 1 THEN 1 ELSE z, rev |-> 0]]
    /\ WorkerInit

MCSpec == MCInit /\ [][WorkerNext]_workerVars
=============================================================================
