---------------------------- MODULE MCSearchIndexer ----------------------------
EXTENDS SearchIndexer

CONSTANTS v1, v2

MCVal == {v1, v2}

====
