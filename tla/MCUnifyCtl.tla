----------------------------- MODULE MCUnifyCtl -----------------------------
EXTENDS UnifyCtl

Tok(nl, star, bang, v) == [nl |-> nl, star |-> star, bang |-> bang, val |-> v]
StarP    == Tok(FALSE, TRUE, FALSE, 0)
NlStarP  == Tok(TRUE, TRUE, FALSE, 0)
IdP(v)   == Tok(FALSE, FALSE, FALSE, v)
UnavP(v) == Tok(FALSE, FALSE, TRUE, v)
NlP(v)   == Tok(TRUE, FALSE, FALSE, v)

\* A section: its marker, its ids, and the line l0:o0:l1:o1.  An offset of
\* -1 is the field ffffffffffffffff, which %llx reads into the int64_t.
Section(m, is, o0, o1) == <<m>> \o is \o <<NlP(2), IdP(o0), IdP(6), IdP(o1)>>

\* Two sections as the tracing library writes them; the second line of
\* each is sampled at local times 2 and 6.
Good(o0, o1, p0, p1) ==
    Section(StarP, <<IdP(1), UnavP(2)>>, o0, o1) \o Section(NlStarP, <<IdP(3)>>, p0, p1)

Base == Good(0, 1, 1, 0)

\* The pieces a damaged file may hold in a wrong place.
Alphabet == {StarP, NlStarP, IdP(1), IdP(0), UnavP(4), NlP(2)}

\* Every file one piece away from Base: one piece deleted, replaced or
\* inserted.
Damaged ==
    {RemoveAt(Base, i) : i \in 1..Len(Base)}
    \cup {ReplaceAt(Base, i, a) : i \in 1..Len(Base), a \in Alphabet}
    \cup {InsertAt(Base, i, a) : i \in 1..Len(Base) + 1, a \in Alphabet}

Offsets == {-1, 0, 1}

\* Every offset pair for the first section; for the second, a falling and
\* a rising drift, so the two sections' corrections differ in sign.
MCFiles ==
    {Good(o0, o1, p[1], p[2]) : o0, o1 \in Offsets, p \in {<<1, 0>>, <<-1, 1>>}}
    \cup Damaged

MCEventTimes == {2, 4, 6}
====
