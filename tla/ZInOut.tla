------------------------------- MODULE ZInOut -------------------------------
(***************************************************************************)
(* Integers from and to strings, and from a random number generator        *)
(* (src/z/zsetstr.c, zgetstr.c, zgetstrlen.c and zrand_kiss.c).            *)
(***************************************************************************)
EXTENDS ZSums, PStrings, PRandom

\* hebi_zsetstr: the machine, 1 or 0, the position (of what is no digit, after a
\* failure) and the error that is raised, if any.  The number is read into a
\* temporary, which is given up by an error.  It `fits` if psetstr did not ask for
\* more room than psetstrprepare; what it asks for is taken for the length.
zsetstr(s, r, str, base, al, flags) ==
    Given(psetstrprepare(str, base, al, flags \union {"RADIX", "SIGN"}), LAMBDA st :
    Given(Grow(s, "qtmp", IF st.ret = SIZE_MAX THEN 0 ELSE st.ret, FALSE), LAMBDA q :
    Given(IF st.ret \in {0, SIZE_MAX} THEN [m |-> q.m, ret |-> st.ret, cur |-> st.cur, err |-> st.err]
          ELSE psetstr(q.m, Ptr("qtmp"), st.ret, st), LAMBDA e :
    LET t == With(q, e.m)
        failed == e.ret = SIZE_MAX
        raised == failed /\ e.err # "EBADSYNTAX"
        read == zswap(Finish(t, "qtmp", e.ret, st.sign), "qtmp", r)
    IN  [s |-> NoObject(IF raised THEN t ELSE IF failed THEN zsetzero(t, r) ELSE read, "qtmp"),
         ret |-> Bit(~failed), cur |-> e.cur, raised |-> IF raised THEN e.err ELSE "ENONE",
         fits |-> st.err = "ENONE" => e.err # "EBADLENGTH"])))

RoomAfterSign(len, signs) == len - signs

\* hebi_zgetstr into len characters: the machine (whose scratch buffer held the
\* packets), the characters and the length of the whole string, as a size_t.
zgetstr(s, a, out, len, base, al, flags) ==
    LET sign == IF Sign(s, a) < 0 THEN <<"-">> ELSE IF "SIGN" \in flags THEN <<"+">> ELSE <<>>
        head == WriteAll([out |-> out, cur |-> 0], 0, len - Bit(len > 0), sign)
        n    == hebi_zused(s, a)
        t    == IF n = 0 THEN s ELSE Scratch(s, n)
        w    == IF n = 0 THEN t ELSE With(t, pcopy(t.m, Ptr("scratch"), Ptr(a), n))
        e    == pgetstr(w.m, Ptr("scratch"), n, head.out, head.cur, RoomAfterSign(len, head.cur), base, al, flags)
    IN  IF base \notin 2 .. 64 THEN [s |-> s, out |-> out, ret |-> 0, raised |-> "EBADVALUE"]
        ELSE [s |-> w, out |-> e.out, ret |-> (Len(sign) + e.ret) % (SIZE_MAX + 1), raised |-> "ENONE"]

\* hebi_zgetstrlen
zgetstrlen(s, a, base, flags) ==
    Bit(Sign(s, a) < 0 \/ "SIGN" \in flags) + pgetstrlen(s.m, Ptr(a), hebi_zused(s, a), base, flags)

\* hebi_zrand_kiss: the machine and the generator.  The length is not looked at.
zrand_kiss(s, r, bits, k) ==
    LET n == DivUp(bits, PacketBit)
        t == Grow(s, r, n, FALSE)
    IN  IF n = 0 THEN [s |-> zsetzero(s, r), k |-> k]
        ELSE Given(prand_kiss(t.m, Ptr(r), n, bits, k), LAMBDA e :
                [s |-> Finish(With(t, e.m), r, n, 1), k |-> e.k])

=============================================================================
