\* A directory of three files, one of them unreadable, two extensions, one trait
\* to filter by and two columns to sort by.
SPECIFICATION FairSpec
CONSTANTS
    a = a
    b = b
    c = c
    NoFile = NoFile
    Walk <- MCWalk
    Content <- MCContent
INVARIANTS TypeOK RowsAreTheWalk FilteredIsCurrent
PROPERTIES FollowsTheFile PreviewSettles
