SPECIFICATION FairSpec
CONSTANTS
    Courses <- MCCourses
    NoCourse = NoCourse
    Polls <- MCPolls
    MaxUpsets = 2
INVARIANTS TypeOK NeverStalls
PROPERTIES NoPollWhenIdle ShowsRunningCourse
