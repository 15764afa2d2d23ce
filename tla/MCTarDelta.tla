----------------------------- MODULE MCTarDelta -----------------------------
(* Small archives for TarDelta. *)
EXTENDS TarDelta

Path(dir, stem, ext) == [dir |-> dir, stem |-> stem, ext |-> ext]
Item(path, data, plain, rooted) ==
    [path |-> path, rooted |-> rooted, data |-> data, plain |-> plain]
Plain(path, data)  == Item(path, data, TRUE, FALSE)
Other(path, data)  == Item(path, data, FALSE, FALSE)
Rooted(path, data) == Item(path, data, TRUE, TRUE)

X      == Path("a", "x.", "conf")
Moved  == Path("b", "x.", "conf")
Renamed == Path("a", "x.", "old")
Archive == Path("a", ".", "xz")

Contents == {<<1>>, <<2, 1>>, <<0, 1, 2>>, <<1, 0, 1>>}

Old ==
    LET one == {Plain(X, d) : d \in Contents}
        two == {Plain(X, <<0, 1, 1>>), Plain(Moved, <<1, 0>>), Other(Renamed, <<2>>),
                Plain(Archive, <<1>>), Plain(X, <<>>), Rooted(X, <<1, 0>>)}
    IN  {<<e>> : e \in one} \cup {<<e, f>> : e \in one, f \in two}
        \cup {<<Rooted(X, <<1, 0>>)>>}

New ==
    LET one == {Plain(p, d) : p \in {X, Moved, Renamed}, d \in Contents}
               \cup {Plain(Archive, <<1, 2>>), Other(X, <<2, 2>>)}
        two == {Plain(X, <<1, 0, 2>>), Plain(Moved, <<1, 0>>)}
    IN  {<<e, f>> : e \in one, f \in two}

MCPairs == Old \X New
=============================================================================
