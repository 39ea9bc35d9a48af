----------------------------- MODULE MCReviews -----------------------------
(* A small instance of Reviews: problems that share their text, that lie   *)
(* on lines nobody modified, and one seen through a symlink.               *)
EXTENDS Reviews

Report(source, path, line, modified, text, sev) ==
    [source |-> source, path |-> path, lines |-> {line}, modified |-> modified,
     reporter |-> 1, text |-> text, sev |-> sev]

first == Report(1, 1, 1, {1}, 1, Bug)
second == Report(1, 1, 4, {4}, 1, Bug)
linked == Report(2, 1, 1, {1}, 1, Bug)
minor == Report(1, 1, 4, {4}, 2, Warning)
moved == Report(1, 1, 9, {3, 4}, 3, Fatal)
untouched == Report(1, 1, 8, {4}, 4, Bug)

MixedSummaries ==
    {{}, {first}, {first, second}, {first, linked}, {minor, untouched}, {moved, minor}}
============================================================================
